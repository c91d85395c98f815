------------------------------ MODULE NodePool ------------------------------
(***************************************************************************)
(* How many nodes a pool has (internal/controller/                         *)
(* geassnodepool_controller.go, nodepool_nodes.go, nodepool_housekeeping.go*)
(* and the deciding part of nodepool_scale.go): making and removing nodes, *)
(* counting machines that fail, the pause, the fallback sizes, the sweep   *)
(* of machines that no node owns.  Which node a drain empties, and the     *)
(* cordons, are in module PoolDrain; what a node does with its machine is  *)
(* in module CloudNode and is reduced here to what the pool can see of it. *)
(*                                                                         *)
(* The pool works in passes, which never overlap.  A pass reads the pool   *)
(* from the API server, its nodes from a cache, keeps what it works out in *)
(* a copy of the status, and writes that copy once, at the end.            *)
(***************************************************************************)
EXTENDS Naturals, FiniteSets

CONSTANTS
    Name,                \* the names new nodes can get
    Mins,                \* the values spec.minNodes can take
    Suspends,            \* the values spec.suspend can take
    MaxNodes,            \* spec.maxNodes
    MaxScaleUp,          \* spec.autoscaling.maxScaleUp
    Choices,             \* how many sizes and places the pool may use
    FailuresBeforePause, \* machines in a row that fail before a pause
    Autoscalings,        \* the values spec.autoscaling.enabled can take
    OrphanDelete,        \* spec.orphanPolicy is Delete
    May                  \* what may happen, of Events

ASSUME PoolConstantsAssumption ==
    /\ IsFiniteSet(Name)
    /\ Mins # {} /\ Mins \subseteq 0 .. MaxNodes
    /\ FALSE \in Suspends /\ Suspends \subseteq BOOLEAN
    /\ {MaxNodes, MaxScaleUp, Choices, FailuresBeforePause} \subseteq Nat \ {0}

(* crash: the operator restarts; fail: machines fail and are replaced;     *)
(* stall: the provider has no room; delete, retry: the user deletes nodes, *)
(* and sets geass.dev/retry on failed ones; loseAnswer: a node is created  *)
(* and the call fails all the same.                                        *)
Events == {"crash", "fail", "stall", "delete", "retry", "loseAnswer"}

ASSUME PoolSwitchesAssumption ==
    /\ Autoscalings # {} /\ Autoscalings \subseteq BOOLEAN
    /\ OrphanDelete \in BOOLEAN
    /\ May \subseteq Events

VARIABLES
    node,     \* the GeassNodes at the API server
    machine,  \* nodes' names on machines the provider has
    at,       \* the size and place each node was made with
    cache,    \* the GeassNodes in the operator's cache
    spec,     \* minNodes, suspend and autoscaling of the pool's spec
    resume,   \* the annotation geass.dev/resume is set
    status,   \* the pool's status
    pc,       \* what the running pass does next; "idle" between passes
    pool,     \* the spec as the pass read it
    work,     \* the status as the pass works it out
    list,     \* the nodes as the pass listed them
    just,     \* nodes made a moment ago that the list does not have
    mode,     \* "scale", or why the pass must not: "suspended", "hold"
    provider, \* the pass has a connection to the provider
    todo,     \* nodes still to make or to remove
    rest,     \* nodes that may still be removed
    recent,   \* nodes this operator made a moment ago (in memory)
    seen,     \* machines it saw without a node (in memory)
    aged      \* those it first saw more than orphanGrace ago

nodeVars == <<node, machine, at>>
userVars == <<spec, resume>>
passVars == <<pc, pool, work, list, just, mode, provider, todo, rest>>
memVars  == <<recent, seen, aged>>
vars == <<nodeVars, cache, userVars, status, passVars, memVars>>

(* What the pool can see of a node.  waiting: coming up, no id noted;      *)
(* stalled: so for capacityStall, for want of room at the provider; made:  *)
(* coming up, with an id; failing: failed, with an id (the machine is      *)
(* being deleted); deleting, clearing: it has a deletion timestamp, and    *)
(* when that was set it had not failed, or it had and had no machine.      *)
Live == {"waiting", "stalled", "made", "ready"}
Failed == {"failing", "failed"}
Deleting == {"deleting", "clearing"}
NodeStates == Live \union Failed \union Deleting \union {"unmade", "gone"}
Exists(s) == s \in Live \union Failed \union Deleting
Deleted(s) == IF s \in {"failed", "clearing"} THEN "clearing" ELSE "deleting"

(* A mutant: nodes that are being removed, or failed, cost nothing.        *)
CountOnlyLive(s) == s \in Live

(* listNodes, nodes.machines: what may have a machine that costs money.    *)
CostsMoney(s) == s \in Live \union {"failing"} \union Deleting

Among(f, S) == {n \in Name : f[n] \in S}
Machines(f) == {n \in Name : CostsMoney(f[n])}

Status == [fails : 0 .. FailuresBeforePause, counted : SUBSET Name,
           late : SUBSET Name, paused : {"no", "yes", "over"},
           step : 0 .. Choices - 1]

Specs == [min : Mins, suspend : Suspends, auto : Autoscalings]

NoList == [n \in Name |-> "unmade"]

Least(a, b) == IF a <= b THEN a ELSE b

Init ==
    /\ node = [n \in Name |-> "unmade"]
    /\ machine = {}
    /\ at = [n \in Name |-> 0]
    /\ cache = node
    /\ spec \in {s \in Specs : ~s.suspend}
    /\ resume = FALSE
    /\ status = [fails |-> 0, counted |-> {}, late |-> {}, paused |-> "no", step |-> 0]
    /\ pc = "idle"
    /\ pool = spec
    /\ work = status
    /\ list = NoList
    /\ just = {}
    /\ mode = "scale"
    /\ provider = TRUE
    /\ todo = 0
    /\ rest = {}
    /\ recent = {}
    /\ seen = {}
    /\ aged = {}

-----------------------------------------------------------------------------
(* What the nodes do by themselves, as the pool can see it (CloudNode).    *)

NodeStep(n, s) ==
    /\ node' = [node EXCEPT ![n] = s]
    /\ UNCHANGED <<at, cache, userVars, status, passVars, memVars>>

(* A node takes a machine; a pass in progress may do so after a deletion   *)
(* was asked for.                                                          *)
Acquire(n) ==
    /\ node[n] \in {"waiting", "stalled", "deleting"} /\ n \notin machine
    /\ machine' = machine \union {n}
    /\ NodeStep(n, node[n])

Record(n) ==
    /\ node[n] \in {"waiting", "stalled"} /\ n \in machine
    /\ NodeStep(n, "made") /\ UNCHANGED machine

Stall(n) ==
    /\ "stall" \in May /\ node[n] = "waiting" /\ n \notin machine
    /\ NodeStep(n, "stalled") /\ UNCHANGED machine

Up(n) ==
    /\ node[n] = "made" /\ n \in machine
    /\ NodeStep(n, "ready") /\ UNCHANGED machine

(* The machine was lost, or did not work, and the node starts over.        *)
Replace(n) ==
    /\ "fail" \in May /\ node[n] \in {"made", "ready"}
    /\ machine' = machine \ {n}
    /\ NodeStep(n, "waiting")

Fail(n) ==
    /\ "fail" \in May
    /\ \/ /\ node[n] \in {"waiting", "stalled", "made"}
          /\ machine' = machine \ {n}
          /\ NodeStep(n, "failed")
       \/ /\ node[n] = "made"
          /\ NodeStep(n, "failing") /\ UNCHANGED machine

FailedMachineGone(n) ==
    /\ node[n] = "failing"
    /\ machine' = machine \ {n}
    /\ NodeStep(n, "failed")

(* The node lets go: after its machine, or leaving it when it was          *)
(* abandoned.                                                              *)
LetGo(n) ==
    /\ node[n] \in Deleting
    /\ machine' \in {machine, machine \ {n}}
    /\ NodeStep(n, "gone")

(* The user.                                                               *)
DeleteByUser(n) ==
    /\ "delete" \in May /\ node[n] \in Live \union Failed
    /\ NodeStep(n, Deleted(node[n])) /\ UNCHANGED machine

RetryByUser(n) ==
    /\ "retry" \in May /\ node[n] = "failed"
    /\ NodeStep(n, "waiting") /\ UNCHANGED machine

Ask ==
    /\ \/ ~resume /\ status.paused # "no" /\ resume' = TRUE /\ UNCHANGED spec
       \/ spec' \in Specs \ {spec} /\ UNCHANGED resume
    /\ UNCHANGED <<nodeVars, cache, status, passVars, memVars>>

(* The cache catches up.                                                   *)
Sync ==
    /\ cache # node
    /\ cache' = node
    /\ UNCHANGED <<nodeVars, userVars, status, passVars, memVars>>

(* Time: status.pausedUntil passes; orphanGrace passes since a machine was *)
(* first seen without a node.  The cache is never so far behind, and no    *)
(* pass takes so long.                                                     *)
PauseEnds ==
    /\ pc = "idle" /\ status.paused = "yes"
    /\ status' = [status EXCEPT !.paused = "over"]
    /\ work' = status'
    /\ UNCHANGED <<nodeVars, cache, userVars, pc, pool, list, just, mode, provider,
                   todo, rest, memVars>>

Age(n) ==
    /\ pc = "idle" /\ OrphanDelete
    /\ n \in seen \ aged
    /\ Exists(node[n]) => Exists(cache[n])
    /\ aged' = aged \union {n}
    /\ UNCHANGED <<nodeVars, cache, userVars, status, passVars, recent, seen>>

-----------------------------------------------------------------------------
(* The pass.                                                               *)

(* What a pass knows goes with it.                                         *)
EndPass(s) ==
    /\ pc' = "idle"
    /\ work' = s
    /\ list' = NoList
    /\ just' = {}
    /\ rest' = {}
    /\ todo' = 0
    /\ mode' = "scale"
    /\ provider' = TRUE
    /\ UNCHANGED pool

(* An error ends a pass anywhere, and what it worked out is lost.          *)
Return ==
    /\ pc # "idle"
    /\ EndPass(status)
    /\ UNCHANGED <<nodeVars, cache, userVars, status, memVars>>

(* The operator restarts with nothing in memory and a cache that it reads  *)
(* from the API server.                                                    *)
Crash ==
    /\ "crash" \in May
    /\ cache' = node
    /\ EndPass(status)
    /\ recent' = {} /\ seen' = {} /\ aged' = {}
    /\ UNCHANGED <<nodeVars, userVars, status>>

(* Reconcile reads the pool from the API server, not from the cache.       *)
Begin ==
    /\ pc = "idle"
    /\ pool' = spec
    /\ work' = status
    /\ pc' = IF resume THEN "resume" ELSE "list"
    /\ UNCHANGED <<nodeVars, cache, userVars, status, list, just, mode, provider,
                   todo, rest, memVars>>

(* With nothing counted and no pause it does not matter when the last      *)
(* failure was.                                                            *)
Tidy(s) == IF s.fails = 0 /\ s.paused = "no" THEN [s EXCEPT !.late = {}] ELSE s

(* clearResumeRequest: the status first, the annotation after it.          *)
clearResumeRequest ==
    /\ pc = "resume"
    /\ status' = Tidy([status EXCEPT !.paused = "no", !.fails = 0, !.counted = {}, !.step = 0])
    /\ work' = status'
    /\ pc' = "dropResume"
    /\ UNCHANGED <<nodeVars, cache, userVars, pool, list, just, mode, provider,
                   todo, rest, memVars>>

dropResume ==
    /\ pc = "dropResume"
    /\ resume' = FALSE
    /\ pc' = "list"
    /\ UNCHANGED <<nodeVars, cache, spec, status, pool, work, list, just, mode,
                   provider, todo, rest, memVars>>

(* accountFailures on the nodes a pass listed.  late are the nodes created *)
(* after lastFailureAt, which a failure that is counted now moves on.      *)
accountFailures(s, l) ==
    LET failed == Among(l, Failed)
        new    == failed \ s.counted
        late   == IF new = {} THEN s.late ELSE {}
        count  == Least(s.fails + Cardinality(new), FailuresBeforePause)
        fails  == IF \E n \in late : l[n] = "ready" THEN 0 ELSE count
        paused == IF fails >= FailuresBeforePause /\ s.paused = "no" THEN "yes" ELSE s.paused
    IN  Tidy([s EXCEPT !.fails = fails, !.counted = failed, !.late = late, !.paused = paused])

(* A pause that is over leaves the pool one failure from the next.         *)
pauseOver(s) ==
    IF ~pool.suspend /\ s.paused = "over"
    THEN [s EXCEPT !.paused = "no", !.fails = FailuresBeforePause - 1]
    ELSE s

(* A mutant: only the nodes the cache has.                                 *)
ForgetRecent == list' = cache /\ just' = {} /\ recent' = {}

(* listNodes: a name in recent is dropped once the list has the node, or   *)
(* after 30 seconds; by then the cache has heard of the node, and if the   *)
(* list still does not have it, it is gone.                                *)
listNodes ==
    /\ list' = cache
    /\ \E expired \in SUBSET {n \in recent : cache[n] = "gone"} :
         just' = {n \in recent \ expired : ~Exists(cache[n])}
    /\ recent' = just'

(* The first half of Reconcile, up to manage.                              *)
Reconcile ==
    /\ pc = "list"
    /\ listNodes
    /\ LET accounted == accountFailures(work, cache) IN
         /\ work' = pauseOver(accounted)
         /\ provider' \in BOOLEAN
         /\ mode' \in IF pool.suspend THEN {"suspended"}
                      ELSE IF accounted.paused = "yes" \/ ~provider' THEN {"hold"}
                      ELSE {"scale", "hold"}
    /\ pc' = "clear"
    /\ UNCHANGED <<nodeVars, cache, userVars, status, pool, todo, rest, seen, aged>>

(* Delete without a precondition: whatever the node has become.            *)
DeleteNode(n) ==
    /\ node' = IF Exists(node[n]) THEN [node EXCEPT ![n] = Deleted(@)] ELSE node
    /\ UNCHANGED <<machine, at, cache, userVars, status, memVars>>

PassOnly == UNCHANGED <<nodeVars, cache, userVars, status, memVars>>

(* clearFailedNodes: the ones old enough.                                  *)
clearFailedNodes ==
    /\ pc = "clear"
    /\ \/ /\ \E n \in Among(list, {"failed"}) : DeleteNode(n)
          /\ UNCHANGED passVars
       \/ /\ pc' = "fallback"
          /\ PassOnly
          /\ UNCHANGED <<pool, work, list, just, mode, provider, todo, rest>>

(* manage goes on to scale only when it may.                               *)
AfterFallback == pc' = IF mode = "scale" THEN "scale" ELSE "sweep"

(* A mutant: one step past the last choice.                                *)
AdvancePastLast ==
    LET stalled == Among(list, {"stalled"})
        mayAdvance == provider /\ work.step < Choices /\ stalled # {}
    IN
    /\ pc = "fallback"
    /\ \/ mayAdvance /\ work' = [work EXCEPT !.step = @ + 1] /\ \E n \in stalled : DeleteNode(n)
       \/ ~mayAdvance /\ PassOnly /\ UNCHANGED work
    /\ AfterFallback
    /\ UNCHANGED <<pool, list, just, mode, provider, todo, rest>>

(* advanceFallback: back to the first choice after an hour, or on to the   *)
(* next one for the first node that waited too long.                       *)
advanceFallback ==
    LET stalled == Among(list, {"stalled"})
        mayAdvance == provider /\ work.step + 1 < Choices /\ stalled # {}
    IN
    /\ pc = "fallback"
    /\ \/ /\ provider /\ work.step > 0
          /\ work' = [work EXCEPT !.step = 0]
          /\ PassOnly
       \/ /\ mayAdvance
          /\ work' = [work EXCEPT !.step = @ + 1]
          /\ \E n \in stalled : DeleteNode(n)
       \/ ~mayAdvance /\ PassOnly /\ UNCHANGED work
    /\ AfterFallback
    /\ UNCHANGED <<pool, list, just, mode, provider, todo, rest>>

(* manage, the counts.  Neither follows what this pass has deleted.        *)
liveCount == Cardinality(Among(list, Live)) + Cardinality(just)
machineCount == Cardinality(Machines(list)) + Cardinality(just)

(* createNodes: as many as asked, the room and the step allow.             *)
createNodes(n) ==
    LET room == IF machineCount < MaxNodes THEN MaxNodes - machineCount ELSE 0 IN
    /\ todo' = Least(n, Least(room, MaxScaleUp))
    /\ pc' = "create"
    /\ UNCHANGED rest

removeNodes(n) ==
    /\ todo' = n
    /\ rest' = Among(list, Live)
    /\ pc' = "remove"

ScaleOn(next) == pc' = next /\ UNCHANGED <<todo, rest>>

(* manage of a pool of a fixed size.                                       *)
manageFixed ==
    /\ pc = "scale" /\ ~pool.auto
    /\ \/ liveCount < pool.min /\ createNodes(pool.min - liveCount)
       \/ liveCount > pool.min /\ removeNodes(liveCount - pool.min)
       \/ liveCount = pool.min /\ ScaleOn("sweep")
    /\ PassOnly
    /\ UNCHANGED <<pool, work, list, just, mode, provider>>

(* manage of an autoscaled pool.  asked is what waiting pods need and the  *)
(* spare nodes lack; with nothing to make and no pod waiting it looks at   *)
(* what can go.                                                            *)
manageAutoscaled ==
    /\ pc = "scale" /\ pool.auto
    /\ \E asked \in 0 .. Cardinality(Name), waiting \in BOOLEAN :
         LET room == IF machineCount < MaxNodes THEN MaxNodes - machineCount ELSE 0
             want == IF liveCount + asked < pool.min THEN pool.min - liveCount ELSE asked
             make == Least(want, Least(room, MaxScaleUp))
         IN \/ make > 0 /\ createNodes(make)
            \/ make = 0 /\ waiting /\ ScaleOn("sweep")
            \/ make = 0 /\ ~waiting /\ ScaleOn("drain")
    /\ PassOnly
    /\ UNCHANGED <<pool, work, list, just, mode, provider>>

(* createNodes, one turn of the loop.  answered = FALSE: the node was made *)
(* and the call failed; the pass ends and the node is not remembered.      *)
(* inSameSecond: timestamps are of whole seconds, and a node made in the   *)
(* second of the last failure is not after it.                             *)
createNode ==
    /\ pc = "create" /\ todo > 0
    /\ \E n \in Among(node, {"unmade"}), answered \in BOOLEAN, inSameSecond \in BOOLEAN :
         LET After(s) == IF inSameSecond THEN s ELSE Tidy([s EXCEPT !.late = @ \union {n}]) IN
         /\ answered \/ "loseAnswer" \in May
         /\ node' = [node EXCEPT ![n] = "waiting"]
         /\ at' = [at EXCEPT ![n] = work.step]
         /\ status' = After(status)
         /\ IF answered
            THEN /\ list' = [list EXCEPT ![n] = "waiting"]
                 /\ work' = After(work)
                 /\ recent' = recent \union {n}
                 /\ todo' = todo - 1
                 /\ UNCHANGED <<cache, pc, pool, just, mode, provider, rest>>
            ELSE /\ EndPass(status')
                 /\ UNCHANGED <<cache, recent>>
    /\ UNCHANGED <<machine, userVars, seen, aged>>

(* removeNodes, one turn of the loop: the ones that are not up yet first.  *)
removeNode ==
    /\ pc = "remove" /\ todo > 0
    /\ \E n \in rest :
         /\ list[n] = "ready" => \A m \in rest : list[m] = "ready"
         /\ DeleteNode(n)
         /\ rest' = rest \ {n}
         /\ todo' = todo - 1
    /\ UNCHANGED <<pc, pool, work, list, just, mode, provider>>

(* continueDrains deletes the nodes that are empty (module PoolDrain).     *)
deleteDrained ==
    /\ pc = "drain"
    /\ \E n \in Among(list, Live) : DeleteNode(n)
    /\ UNCHANGED passVars

(* The loops end.  Name bounds how many nodes are ever made.               *)
scaled ==
    /\ \/ pc = "create" /\ (todo = 0 \/ Among(node, {"unmade"}) = {})
       \/ pc = "remove" /\ (todo = 0 \/ rest = {})
       \/ pc = "drain"
    /\ pc' = "sweep"
    /\ PassOnly
    /\ UNCHANGED <<pool, work, list, just, mode, provider, todo, rest>>

(* Machines at the provider whose node the pass does not know.             *)
Orphans == {n \in machine : ~Exists(list[n])}

(* Mutants: an orphan is deleted when it is first seen; the sweep does not *)
(* remember what it saw.                                                   *)
SweepAtOnce ==
    /\ pc = "sweep" /\ provider
    /\ machine' = IF OrphanDelete THEN machine \ Orphans ELSE machine
    /\ pc' = "finish"
    /\ UNCHANGED <<node, at, cache, userVars, status, pool, work, list, just, mode,
                   provider, todo, rest, memVars>>
SweepForgets ==
    /\ pc = "sweep" /\ provider
    /\ \E deleted \in SUBSET (Orphans \intersect aged) :
         /\ deleted # {} => OrphanDelete
         /\ machine' = machine \ deleted
    /\ seen' = {} /\ aged' = {}
    /\ pc' = "finish"
    /\ UNCHANGED <<node, at, cache, userVars, status, pool, work, list, just, mode,
                   provider, todo, rest, recent>>

(* sweepOrphans: a deletion may fail.                                      *)
sweepOrphans ==
    /\ pc = "sweep" /\ provider
    /\ \E deleted \in SUBSET (Orphans \intersect aged) :
         /\ deleted # {} => OrphanDelete
         /\ machine' = machine \ deleted
    /\ seen' = Orphans
    /\ aged' = aged \intersect Orphans
    /\ pc' = "finish"
    /\ UNCHANGED <<node, at, cache, userVars, status, pool, work, list, just, mode,
                   provider, todo, rest, recent>>

(* No sweep: not for another ten minutes, or the provider does not answer. *)
skipSweep ==
    /\ pc = "sweep"
    /\ pc' = "finish"
    /\ PassOnly
    /\ UNCHANGED <<pool, work, list, just, mode, provider, todo, rest>>

(* finish writes the whole status.                                         *)
finish ==
    /\ pc = "finish"
    /\ status' = work
    /\ EndPass(work)
    /\ UNCHANGED <<nodeVars, cache, userVars, memVars>>

Pass == \/ clearResumeRequest \/ dropResume \/ Reconcile \/ clearFailedNodes
        \/ advanceFallback \/ manageFixed \/ manageAutoscaled \/ createNode
        \/ removeNode \/ deleteDrained \/ scaled \/ sweepOrphans \/ skipSweep \/ finish

NodeNext(n) == \/ Acquire(n) \/ Record(n) \/ Stall(n) \/ Up(n) \/ Replace(n)
               \/ Fail(n) \/ FailedMachineGone(n) \/ LetGo(n)
               \/ DeleteByUser(n) \/ RetryByUser(n)

Next == \/ Begin \/ Pass \/ Return \/ Crash
        \/ \E n \in Name : NodeNext(n) \/ Age(n)
        \/ Ask \/ Sync \/ PauseEnds

Spec == Init /\ [][Next]_vars

(* A pass fails: it ends early, has no provider, or what the operator      *)
(* remembers of orphans is lost in a restart.                              *)
Trouble == \/ pc \notin {"idle", "finish"} /\ pc' = "idle"
           \/ pc = "list" /\ pc' = "clear" /\ ~provider'
           \/ pc # "sweep" /\ seen' # seen

(* A sweep whose deletions all go through.                                 *)
sweepAll == sweepOrphans /\ machine' = machine \ (Orphans \intersect aged)

(* The work queue runs a pass again and again, time passes and the cache   *)
(* keeps up; a sweep that is due again and again goes through in the end,  *)
(* and trouble ends in the end.                                            *)
FairSpec ==
    /\ Spec
    /\ WF_vars(Begin) /\ WF_vars(Pass) /\ SF_vars(sweepAll)
    /\ SF_vars(Sync) /\ \A n \in Name : SF_vars(Age(n))
    /\ <>[][~Trouble]_vars

-----------------------------------------------------------------------------
(* Properties.                                                             *)

TypeOK ==
    /\ node \in [Name -> NodeStates] /\ machine \subseteq Name
    /\ at \in [Name -> 0 .. Choices - 1]
    /\ cache \in [Name -> NodeStates]
    /\ spec \in Specs /\ resume \in BOOLEAN
    /\ status \in Status
    /\ pc \in {"idle", "resume", "dropResume", "list", "clear", "fallback", "scale",
              "create", "remove", "drain", "sweep", "finish"}
    /\ pool \in Specs /\ work \in Status
    /\ list \in [Name -> NodeStates] /\ just \subseteq Name
    /\ mode \in {"scale", "suspended", "hold"} /\ provider \in BOOLEAN
    /\ todo \in Nat /\ rest \subseteq Name
    /\ recent \subseteq Name /\ seen \subseteq Name /\ aged \subseteq Name

(* The nodes of a pool never have more than maxNodes machines, although    *)
(* the pool counts them in a cache that may be behind.                     *)
CapHolds == Cardinality({n \in machine : Exists(node[n])}) <= MaxNodes

(* A pool of a fixed size never makes a node when it already has as many   *)
(* as the pass was asked for, whatever its list does not show.             *)
NeverOvershoots ==
    [][(~pool.auto /\ \E n \in Name : node[n] = "unmade" /\ node'[n] = "waiting")
         => Cardinality(Among(node', Live)) <= pool.min]_vars

(* The sweep never deletes the machine of a node that exists.              *)
SweepSparesClaimed ==
    [][(pc = "sweep" /\ pc' = "finish")
         => \A n \in machine \ machine' : ~Exists(node[n])]_vars

(* With the Delete policy, a machine that no node owns goes in the end.    *)
OrphansGo ==
    \A n \in Name : (n \in machine /\ node[n] = "gone") ~> (n \notin machine)

(* A suspended pool removes none of its nodes.                             *)
SuspendedKeepsNodes ==
    [][(mode = "suspended" /\ pc' # pc)
         => \A n \in Name : node[n] \in Live => node'[n] \in Live]_vars

(* The pool leaves a size and place only when a node made with it had to   *)
(* wait for room.                                                          *)
ChoiceTriedBeforeLeft ==
    [][(pc = "fallback" /\ work'.step > work.step)
         => \E n \in Among(list, {"stalled"}) : at[n] = work.step]_vars
=============================================================================
