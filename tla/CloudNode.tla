----------------------------- MODULE CloudNode -----------------------------
(***************************************************************************)
(* The life of one GeassNode whose machine Geass creates                   *)
(* (internal/controller/geassnode_cloud.go and geassnode_controller.go).   *)
(*                                                                         *)
(* The controller works on a node in PASSES.  A pass reads the node from   *)
(* an informer cache that may be behind the API server, and then makes     *)
(* calls: to the API server (status patches that carry the version the     *)
(* pass read), to the cloud provider, to the control plane's firewall and  *)
(* to the machine over SSH.  Every call is a step of its own here, and     *)
(* between two calls anything else may happen: the user deletes the node,  *)
(* the provider takes the machine back, the operator crashes.  Passes on   *)
(* one node never overlap.                                                 *)
(***************************************************************************)
EXTENDS Naturals, Sequences, FiniteSets

CONSTANTS
    Machine,        \* the machines the provider can hand out
    NoMachine,      \* "no id", "no address"
    MaxAttempt,     \* bound on status.cloud.attempt
    Lag,            \* most writes the informer cache may be behind
    Firewall,       \* the cluster has a controlPlaneFirewall
    Ephemeral,      \* spec.storage is none: the node holds no data
    ShowsLate,      \* a new machine may be missing from List/Get for a while
    LostInResume,   \* a machine may vanish just before it is created again
    ClusterMayGo    \* the GeassCluster may be deleted and made again

ASSUME ConstantsAssumption ==
    /\ NoMachine \notin Machine
    /\ MaxAttempt \in Nat
    /\ Lag \in Nat

ASSUME SwitchesAssumption ==
    {Firewall, Ephemeral, ShowsLate, LostInResume, ClusterMayGo} \subseteq BOOLEAN

VARIABLES
    obj,        \* the GeassNode at the API server
    cache,      \* the GeassNode in the operator's informer cache
    watch,      \* versions the API server has and the cache does not, in order
    pc,         \* the call the running pass makes next; "idle" between passes
    copy,       \* the pass's own copy of the node
    fresh,      \* that copy is the version the API server has
    inst,       \* the machine the pass is working on
    state,      \* the state the provider reported of it
    att,        \* the attempt number the pass took from its copy
    why,        \* what a machine is being given up for
    machine,    \* the provider's machines
    rules,      \* machines whose address the control plane's firewall lets in
    agents,     \* machines whose K3s agent was started and has not registered
    knode,      \* the Kubernetes node object
    cluster     \* the GeassCluster exists

apiVars   == <<obj, cache, watch>>
passVars  == <<pc, copy, fresh, inst, state, att, why>>
cloudVars == <<machine, rules>>
kubeVars  == <<agents, knode>>
vars == <<apiVars, passVars, cloudVars, kubeVars, cluster>>

MachineOrNone == Machine \union {NoMachine}
Attempts == 0 .. MaxAttempt
Phases == {"Pending", "Creating", "Joining", "Ready", "Failed"}

(* A GeassNode: its status, its two annotations and its deletion.  named   *)
(* stands for status.cloud.instanceName, which is always the name of the   *)
(* attempt; access for status.cloud.controlPlaneAccess; seen for           *)
(* status.cloud.state; problem for a capacity or quota problem.            *)
Node == [here : BOOLEAN, finalizer : BOOLEAN, deleting : BOOLEAN,
         retry : BOOLEAN, abandon : BOOLEAN,
         phase : Phases, attempt : Attempts, named : BOOLEAN,
         id : MachineOrNone, access : MachineOrNone,
         seen : {"", "pending", "running", "stopped"}, problem : BOOLEAN]

(* doomed: the provider accepted the deletion and still lists the machine  *)
(* as alive.  gone: it lists it as terminating, or no longer has it.       *)
MachineState == {"unused", "pending", "running", "stopped", "doomed", "gone"}

Pcs == {"idle", "start", "find", "create", "record", "get", "resume", "state",
        "open", "noteOpen", "claim", "install", "setJoining", "joining",
        "markReady", "ready", "rejoin", "unlist", "delete", "close", "unnote",
        "note", "retry", "retryDrop", "drain", "find2", "letGo", "setFailed",
        "noteProblem"}

(* Machines that run up a bill and that nobody has asked the provider to   *)
(* remove.                                                                 *)
Kept == {m \in Machine : machine[m].st \in {"pending", "running", "stopped"}}

(* compute.Instance.Alive: what List and Get report as existing.           *)
Alive(m) == machine[m].st \in {"pending", "running", "stopped", "doomed"}

(* What List with the owner's labels shows of the machines of one attempt. *)
Listed(a) == {m \in Machine : Alive(m) /\ machine[m].shown /\ machine[m].name = a}

NewNode == [here |-> TRUE, finalizer |-> FALSE, deleting |-> FALSE,
            retry |-> FALSE, abandon |-> FALSE,
            phase |-> "Pending", attempt |-> 0, named |-> FALSE,
            id |-> NoMachine, access |-> NoMachine, seen |-> "", problem |-> FALSE]

Init ==
    /\ obj = NewNode
    /\ cache = NewNode
    /\ watch = <<>>
    /\ pc = "idle"
    /\ copy = NewNode
    /\ fresh = FALSE
    /\ inst = NoMachine
    /\ state = ""
    /\ att = 0
    /\ why = ""
    /\ machine = [m \in Machine |-> [st |-> "unused", name |-> 0, shown |-> TRUE]]
    /\ rules = {}
    /\ agents = {}
    /\ knode = [by |-> NoMachine, ready |-> FALSE]
    /\ cluster = TRUE

-----------------------------------------------------------------------------
(* The API server and the informer cache.                                  *)

(* A write makes a new version, which the cache hears of later.  A cache   *)
(* that is already Lag versions behind has heard of the oldest by then.    *)
Write(o) ==
    /\ obj' = o
    /\ LET pending == Append(watch, o) IN
       IF Len(watch) < Lag
       THEN watch' = pending /\ cache' = cache
       ELSE watch' = Tail(pending) /\ cache' = Head(pending)

(* The cache hears of the next version.                                    *)
Sync ==
    /\ watch # <<>>
    /\ cache' = Head(watch)
    /\ watch' = Tail(watch)
    /\ UNCHANGED <<obj, passVars, cloudVars, kubeVars, cluster>>

(* platform.PatchStatus, the try that succeeds: mutate changes nothing, or *)
(* the patch is made from the current version.                             *)
PatchStatus(mutated) ==
    IF mutated = copy
    THEN UNCHANGED <<apiVars, copy, fresh>>
    ELSE /\ fresh
         /\ Write(mutated)
         /\ copy' = mutated
         /\ UNCHANGED fresh

(* A try that meets a conflict reads the node again, from the cache, and   *)
(* applies mutate to that: the pass stays where it is.                     *)
PatchConflict(mutated) ==
    /\ mutated # copy
    /\ ~fresh
    /\ cache.here
    /\ copy' = cache
    /\ fresh' = (watch = <<>>)
    /\ UNCHANGED <<apiVars, pc, inst, state, att, why, cloudVars, kubeVars, cluster>>

-----------------------------------------------------------------------------
(* What each status write of a pass changes.                               *)

(* A mutant: cloudStart forgets which attempt the node was at.             *)
StartedFromZero(n) == [n EXCEPT !.phase = "Creating", !.attempt = 0, !.named = TRUE,
                                !.id = NoMachine, !.access = NoMachine,
                                !.seen = "", !.problem = FALSE]

StartedStatus(n)  == [n EXCEPT !.phase = "Creating", !.attempt = att, !.named = TRUE,
                               !.id = NoMachine, !.access = NoMachine,
                               !.seen = "", !.problem = FALSE]
RecordedStatus(n) == [n EXCEPT !.id = inst, !.problem = FALSE]
ProblemStatus(n)  == [n EXCEPT !.problem = TRUE]
SeenStatus(n)     == [n EXCEPT !.seen = state]
OpenedStatus(n)   == [n EXCEPT !.access = inst]
ClosedStatus(n)   == [n EXCEPT !.access = NoMachine]
JoiningStatus(n)  == [n EXCEPT !.phase = "Joining"]
ReadyStatus(n)    == [n EXCEPT !.phase = "Ready"]
RejoinStatus(n)   == [n EXCEPT !.phase = "Creating"]
RetriedStatus(n)  == [n EXCEPT !.phase = "Pending"]

(* cloudReplace starts the node over with the next attempt; cloudFailed    *)
(* leaves it Failed, with the next attempt noted.                          *)
GivenUpStatus(n)  == [n EXCEPT !.phase = IF why = "replace" THEN "Pending" ELSE @,
                               !.attempt = att + 1, !.named = FALSE,
                               !.id = NoMachine, !.access = NoMachine,
                               !.seen = "", !.problem = FALSE]

(* The mutation of the status write a pass is at.                          *)
Mutated(n) ==
    CASE pc = "start"       -> StartedStatus(n)
      [] pc = "record"      -> RecordedStatus(n)
      [] pc = "noteProblem" -> ProblemStatus(n)
      [] pc = "state"       -> SeenStatus(n)
      [] pc = "noteOpen"    -> OpenedStatus(n)
      [] pc = "setJoining"  -> JoiningStatus(n)
      [] pc = "markReady"   -> ReadyStatus(n)
      [] pc = "rejoin"      -> RejoinStatus(n)
      [] pc = "unnote"      -> ClosedStatus(n)
      [] pc = "note"        -> GivenUpStatus(n)
      [] pc = "retry"       -> RetriedStatus(n)
      [] OTHER              -> n

(* PatchStatus meets a conflict at whichever status write the pass is at.  *)
Conflict == PatchConflict(Mutated(copy))

-----------------------------------------------------------------------------
(* Reconcile: what a pass begins with.                                     *)

(* A mutant: a Failed node only waits for its retry.                       *)
FailedOnlyRetries(n) ==
    IF ~cluster THEN "setFailed" ELSE
    CASE n.phase = "Pending"  -> "start"
      [] n.phase = "Creating" -> IF ~n.named THEN "start"
                                 ELSE IF n.id = NoMachine THEN "find" ELSE "get"
      [] n.phase = "Joining"  -> "joining"
      [] n.phase = "Ready"    -> "ready"
      [] n.phase = "Failed"   -> IF n.retry THEN "retry" ELSE "idle"

(* Where reconcileCloudWorker goes with the copy n.                        *)
reconcileCloudWorker(n) ==
    IF ~cluster THEN "setFailed" ELSE
    CASE n.phase = "Pending"  -> "start"
      [] n.phase = "Creating" -> IF ~n.named THEN "start"
                                 ELSE IF n.id = NoMachine THEN "find" ELSE "get"
      [] n.phase = "Joining"  -> "joining"
      [] n.phase = "Ready"    -> "ready"
      [] n.phase = "Failed"   -> IF n.id # NoMachine THEN "delete"
                                 ELSE IF n.retry THEN "retry" ELSE "idle"

(* A pass starts on the copy n.                                            *)
Begin(n, current) ==
    /\ copy' = n
    /\ fresh' = current
    /\ inst' = n.id
    /\ state' = n.seen
    /\ att' = n.attempt

AddFinalizer ==
    /\ pc = "idle"
    /\ cache.here /\ ~cache.deleting /\ ~cache.finalizer
    /\ watch = <<>>
    /\ Write([obj EXCEPT !.finalizer = TRUE])
    /\ UNCHANGED <<passVars, cloudVars, kubeVars, cluster>>

Reconcile ==
    /\ pc = "idle"
    /\ cache.here /\ ~cache.deleting /\ cache.finalizer
    /\ cache.phase # "Failed" => ~cache.retry
    /\ Begin(cache, watch = <<>>)
    /\ pc' = reconcileCloudWorker(cache)
    /\ why' = IF pc' = "delete" THEN "fail" ELSE ""
    /\ UNCHANGED <<apiVars, cloudVars, kubeVars, cluster>>

(* A node that is not Failed loses its retry annotation first.  The patch  *)
(* carries no version, and its answer replaces the pass's copy.            *)
dropRetryAnnotation ==
    /\ pc = "idle"
    /\ cache.here /\ ~cache.deleting /\ cache.finalizer
    /\ cache.phase # "Failed" /\ cache.retry
    /\ obj.here
    /\ LET n == [obj EXCEPT !.retry = FALSE] IN
       /\ IF obj.retry THEN Write(n) ELSE UNCHANGED apiVars
       /\ Begin(n, TRUE)
       /\ pc' = reconcileCloudWorker(n)
    /\ why' = IF pc' = "delete" THEN "fail" ELSE ""
    /\ UNCHANGED <<cloudVars, kubeVars, cluster>>

handleDeletion ==
    /\ pc = "idle"
    /\ cache.here /\ cache.deleting /\ cache.finalizer
    /\ Begin(cache, watch = <<>>)
    /\ pc' = IF cache.phase \in {"Ready", "Joining"} THEN "drain" ELSE "unlist"
    /\ why' = "delete"
    /\ UNCHANGED <<apiVars, cloudVars, kubeVars, cluster>>

(* A pass ends where it is: a call failed, or the node has to wait         *)
(* (waitCloud, a RequeueAfter, an error returned to the work queue).       *)
Return ==
    /\ pc # "idle"
    /\ pc' = "idle"
    /\ UNCHANGED <<apiVars, copy, fresh, inst, state, att, why, cloudVars, kubeVars, cluster>>

(* setFailed updates the whole status, from the version the pass read; a   *)
(* conflict is an error and ends the pass (Return).                        *)
setFailed ==
    /\ pc = "setFailed"
    /\ fresh
    /\ LET n == [copy EXCEPT !.phase = "Failed"] IN
       IF n = obj THEN UNCHANGED apiVars ELSE Write(n)
    /\ pc' = "idle"
    /\ UNCHANGED <<copy, fresh, inst, state, att, why, cloudVars, kubeVars, cluster>>

(* The pass goes on to p with nothing else changed.                        *)
Goto(p) ==
    /\ pc' = p
    /\ UNCHANGED <<apiVars, copy, fresh, inst, state, att, why, cloudVars, kubeVars, cluster>>

-----------------------------------------------------------------------------
(* Pending and Creating: make the machine, wait for it, join it.           *)

cloudStart ==
    /\ pc = "start"
    /\ PatchStatus(StartedStatus(copy))
    /\ pc' = "idle"
    /\ UNCHANGED <<inst, state, att, why, cloudVars, kubeVars, cluster>>

(* compute.Provider.Create with the name of attempt a, which gives m.  A   *)
(* machine that is there with that name is returned, and started if it was *)
(* off and the driver does that; otherwise a new one is made.              *)
Create(a, m) ==
    LET same == {k \in Machine : Alive(k) /\ machine[k].name = a}
    IN  IF same # {}
        THEN /\ m \in same
             /\ \/ UNCHANGED machine
                \/ machine[m].st = "stopped" /\ machine' = [machine EXCEPT ![m].st = "pending"]
        ELSE /\ machine[m].st = "unused"
             /\ \E shown \in {TRUE, ~ShowsLate} :
                  machine' = [machine EXCEPT ![m] = [st |-> "pending", name |-> a, shown |-> shown]]

(* The pass works on m from here, and takes its state from the answer.     *)
Take(m, st) ==
    /\ inst' = m
    /\ state' = IF st = "doomed" THEN "running" ELSE st

findMachine ==
    /\ pc = "find"
    /\ \/ /\ Listed(copy.attempt) = {}
          /\ pc' = "create"
          /\ UNCHANGED <<inst, state>>
       \/ /\ \E m \in Listed(copy.attempt) : Take(m, machine[m].st)
          /\ pc' = "record"
    /\ UNCHANGED <<apiVars, copy, fresh, att, why, cloudVars, kubeVars, cluster>>

(* answered is FALSE when the provider acted and the answer was lost.      *)
createMachine(answered) ==
    /\ pc = "create"
    /\ \E m \in Machine :
         /\ Create(copy.attempt, m)
         /\ IF answered
            THEN Take(m, machine'[m].st) /\ pc' = "record"
            ELSE UNCHANGED <<inst, state>> /\ pc' = "idle"
    /\ UNCHANGED <<apiVars, copy, fresh, att, why, rules, kubeVars, cluster>>

(* The provider refused.  Any other error only makes the node wait.        *)
cloudCreateFailed ==
    /\ pc = "create"
    /\ \/ Goto("setFailed")
       \/ Goto("noteProblem")

waitCloudProblem ==
    /\ pc = "noteProblem"
    /\ PatchStatus(ProblemStatus(copy))
    /\ pc' = "idle"
    /\ UNCHANGED <<inst, state, att, why, cloudVars, kubeVars, cluster>>

recordMachine ==
    /\ pc = "record"
    /\ PatchStatus(RecordedStatus(copy))
    /\ pc' = IF state = "stopped" THEN "resume" ELSE "state"
    /\ UNCHANGED <<inst, state, att, why, cloudVars, kubeVars, cluster>>

(* A mutant: a machine that is being removed is taken for one that runs.   *)
GetAnyMachine ==
    /\ pc = "get"
    /\ state' = machine[copy.id].st
    /\ inst' = copy.id
    /\ pc' = IF state' = "stopped" THEN "resume" ELSE "state"
    /\ UNCHANGED <<apiVars, copy, fresh, att, why, cloudVars, kubeVars, cluster>>

getMachine ==
    /\ pc = "get"
    /\ IF Alive(copy.id)
       THEN /\ machine[copy.id].shown
            /\ Take(copy.id, machine[copy.id].st)
            /\ pc' = IF state' = "stopped" THEN "resume" ELSE "state"
       ELSE /\ pc' = "setFailed"
            /\ UNCHANGED <<inst, state>>
    /\ UNCHANGED <<apiVars, copy, fresh, att, why, cloudVars, kubeVars, cluster>>

(* A machine that is off is created again, by its name, which finishes its *)
(* creation.  If it has vanished since, that makes another one, which the  *)
(* pass goes on with and whose id it does not write down.  A create that   *)
(* fails changes nothing, or its answer is lost.                           *)
resumeMachine ==
    /\ pc = "resume"
    /\ \/ \E m \in Machine :
            /\ Create(copy.attempt, m)
            /\ Take(m, machine'[m].st) \/ UNCHANGED <<inst, state>>
       \/ UNCHANGED <<machine, inst, state>>
    /\ pc' = "state"
    /\ UNCHANGED <<apiVars, copy, fresh, att, why, rules, kubeVars, cluster>>

(* A mutant: the machine is joined without opening the firewall for it.    *)
NoteStateOpenNothing ==
    /\ pc = "state"
    /\ PatchStatus(SeenStatus(copy))
    /\ pc' \in IF state # "running" THEN {"idle", "setFailed"} ELSE {"claim"}
    /\ UNCHANGED <<inst, state, att, why, cloudVars, kubeVars, cluster>>

(* The state is written down; a machine that does not run yet is waited    *)
(* for, until cloudCreateTimeout.                                          *)
noteState ==
    /\ pc = "state"
    /\ PatchStatus(SeenStatus(copy))
    /\ pc' \in IF state # "running" THEN {"idle", "setFailed"}
               ELSE IF Firewall /\ copy'.access # inst THEN {"open"} ELSE {"claim"}
    /\ UNCHANGED <<inst, state, att, why, cloudVars, kubeVars, cluster>>

openControlPlane(answered) ==
    /\ pc = "open"
    /\ rules' = rules \union {inst}
    /\ pc' = IF answered THEN "noteOpen" ELSE "idle"
    /\ UNCHANGED <<apiVars, copy, fresh, inst, state, att, why, machine, kubeVars, cluster>>

openControlPlaneFailed ==
    /\ pc = "open"
    /\ Goto("setFailed")

noteOpen ==
    /\ pc = "noteOpen"
    /\ PatchStatus(OpenedStatus(copy))
    /\ pc' = "claim"
    /\ UNCHANGED <<inst, state, att, why, cloudVars, kubeVars, cluster>>

(* claimJoin counts a join attempt, so it always makes a new version, and  *)
(* it is made from the version the pass has.                               *)
claimJoin ==
    /\ pc = "claim"
    /\ IF fresh
       THEN Write(copy) /\ pc' = "install"
       ELSE UNCHANGED apiVars /\ pc' = "idle"
    /\ UNCHANGED <<copy, fresh, inst, state, att, why, cloudVars, kubeVars, cluster>>

(* The join token, the mesh or the join input is refused before the claim. *)
cloudJoinRefused ==
    /\ pc = "claim"
    /\ Goto("setFailed")

(* SSH.Provision on the machine: installs K3s and starts its agent.  It    *)
(* may fail before or after it did that.                                   *)
cloudJoin ==
    /\ pc = "install"
    /\ \/ /\ machine[inst].st \in {"running", "doomed"}
          /\ agents' = agents \union {inst}
          /\ pc' \in {"setJoining", "setFailed"}
       \/ /\ pc' = "setFailed"
          /\ UNCHANGED agents
    /\ UNCHANGED <<apiVars, copy, fresh, inst, state, att, why, cloudVars, knode, cluster>>

setJoining ==
    /\ pc = "setJoining"
    /\ PatchStatus(JoiningStatus(copy))
    /\ pc' = "idle"
    /\ UNCHANGED <<inst, state, att, why, cloudVars, kubeVars, cluster>>

-----------------------------------------------------------------------------
(* Joining and Ready: watch the node and its machine.                      *)

(* liveMachine: the machine of the copy is gone for good.                  *)
machineGone == copy.id # NoMachine => ~Alive(copy.id) \/ ~machine[copy.id].shown

cloudJoining ==
    /\ pc = "joining"
    /\ \/ knode.ready /\ knode.by # NoMachine /\ pc' = "markReady" /\ UNCHANGED why
       \/ ~knode.ready /\ pc' = "setFailed" /\ UNCHANGED why
       \/ ~knode.ready /\ machineGone /\ pc' = "unlist" /\ why' = "replace"
    /\ UNCHANGED <<apiVars, copy, fresh, inst, state, att, cloudVars, kubeVars, cluster>>

markNodeReady ==
    /\ pc = "markReady"
    /\ PatchStatus(ReadyStatus(copy))
    /\ pc' = "idle"
    /\ UNCHANGED <<inst, state, att, why, cloudVars, kubeVars, cluster>>

(* A mutant: a node is replaced whether or not it holds data.              *)
ReplaceAnyNode ==
    /\ pc = "ready"
    /\ \/ /\ ~machineGone => \/ machine[copy.id].st = "stopped"
                             \/ knode.by # NoMachine /\ ~knode.ready
          /\ pc' = "unlist"
          /\ why' = "replace"
       \/ /\ ~machineGone
          /\ knode.by = NoMachine
          /\ pc' = "rejoin"
          /\ UNCHANGED why
    /\ UNCHANGED <<apiVars, copy, fresh, inst, state, att, cloudVars, kubeVars, cluster>>

(* A Ready node is replaced when its machine is gone and, if it holds no   *)
(* data, when the machine was stopped or the node was NotReady for long.   *)
(* One whose Kubernetes node was removed by hand is joined again.          *)
cloudReady ==
    /\ pc = "ready"
    /\ \/ /\ ~machineGone => /\ Ephemeral
                             /\ \/ machine[copy.id].st = "stopped"
                                \/ knode.by # NoMachine /\ ~knode.ready
          /\ pc' = "unlist"
          /\ why' = "replace"
       \/ /\ ~machineGone
          /\ knode.by = NoMachine
          /\ pc' = "rejoin"
          /\ UNCHANGED why
    /\ UNCHANGED <<apiVars, copy, fresh, inst, state, att, cloudVars, kubeVars, cluster>>

rejoin ==
    /\ pc = "rejoin"
    /\ PatchStatus(RejoinStatus(copy))
    /\ pc' = "idle"
    /\ UNCHANGED <<inst, state, att, why, cloudVars, kubeVars, cluster>>

-----------------------------------------------------------------------------
(* Giving a machine up: cloudReplace, cloudFailed, handleCloudDeletion.    *)

(* handleCloudDeletion moves the pods off first, until cloudDrainTimeout.  *)
drain ==
    /\ pc = "drain"
    /\ Goto("unlist")

(* Where a pass goes once the rule of the given-up machine n is closed.    *)
AfterClose == CASE why = "replace" -> "note"
                [] why = "fail"    -> "unlist"
                [] why = "delete"  -> "letGo"

(* closeControlPlane has something to close if the copy notes a rule.      *)
(* A deletion skips it when the cluster is not there to be read.           *)
AfterDelete == IF copy.access # NoMachine /\ (why = "delete" => cluster)
               THEN "close" ELSE AfterClose

(* Mutants: a replaced machine is not deleted; a deletion does not look    *)
(* for a machine whose id was never written down; a deletion leaves every  *)
(* machine to the provider.                                                *)
ReplaceWithoutDelete ==
    CASE why = "fail"    -> "note"
      [] why = "replace" -> AfterDelete
      [] why = "delete"  -> IF copy.abandon THEN "letGo"
                            ELSE IF copy.id # NoMachine THEN "delete"
                            ELSE IF copy.named THEN "find2" ELSE AfterDelete
DeleteOnlyById ==
    CASE why = "fail"    -> "note"
      [] why = "replace" -> IF copy.id # NoMachine THEN "delete" ELSE AfterDelete
      [] why = "delete"  -> IF copy.abandon THEN "letGo"
                            ELSE IF copy.id # NoMachine THEN "delete" ELSE AfterDelete
AlwaysAbandon ==
    CASE why = "fail"    -> "note"
      [] why = "replace" -> IF copy.id # NoMachine THEN "delete" ELSE AfterDelete
      [] why = "delete"  -> "letGo"

(* Where a pass goes once the Kubernetes node is removed.  A deletion with *)
(* the abandon annotation leaves the machine and the rule alone.           *)
AfterUnlist ==
    CASE why = "fail"    -> "note"
      [] why = "replace" -> IF copy.id # NoMachine THEN "delete" ELSE AfterDelete
      [] why = "delete"  -> IF copy.abandon THEN "letGo"
                            ELSE IF copy.id # NoMachine THEN "delete"
                            ELSE IF copy.named THEN "find2" ELSE AfterDelete

(* A failed removal is only logged.                                        *)
removeKubernetesNode ==
    /\ pc = "unlist"
    /\ knode' \in {knode, [by |-> NoMachine, ready |-> FALSE]}
    /\ pc' = AfterUnlist
    /\ inst' = copy.id
    /\ att' = copy.attempt
    /\ UNCHANGED <<apiVars, copy, fresh, state, why, cloudVars, agents, cluster>>

(* The machine of a node that is deleted, whose id was never written down. *)
(* It is looked for by the cluster's labels: without the cluster there is  *)
(* no owner to look for, and nothing is found.                             *)
findMachineToDelete ==
    /\ pc = "find2"
    /\ \/ /\ cluster => Listed(copy.attempt) = {}
          /\ pc' = AfterDelete
          /\ UNCHANGED inst
       \/ /\ cluster
          /\ \E m \in Listed(copy.attempt) : inst' = m
          /\ pc' = "delete"
    /\ UNCHANGED <<apiVars, copy, fresh, state, att, why, cloudVars, kubeVars, cluster>>

(* provider.Delete.  A machine the provider does not show is "not found",  *)
(* which counts as deleted.  A deletion of the node then waits until the   *)
(* provider no longer lists the machine as alive (or cannot be asked).     *)
deleteMachine(answered) ==
    /\ pc = "delete"
    /\ machine' = IF machine[inst].shown /\ inst \in Kept
                  THEN [machine EXCEPT ![inst].st = "doomed"] ELSE machine
    /\ pc' = IF answered THEN AfterDelete ELSE "idle"
    /\ UNCHANGED <<apiVars, copy, fresh, inst, state, att, why, rules, kubeVars, cluster>>

closeControlPlane(answered) ==
    /\ pc = "close"
    /\ rules' = rules \ {copy.access}
    /\ pc' = IF answered THEN "unnote" ELSE "idle"
    /\ UNCHANGED <<apiVars, copy, fresh, inst, state, att, why, machine, kubeVars, cluster>>

(* The note of the rule is cleared once the provider has said it is gone.  *)
noteClosed ==
    /\ pc = "unnote"
    /\ PatchStatus(ClosedStatus(copy))
    /\ pc' = AfterClose
    /\ att' = copy'.attempt
    /\ UNCHANGED <<inst, state, why, cloudVars, kubeVars, cluster>>

(* The next attempt is written down: the end of cloudReplace, and of the   *)
(* clean-up in cloudFailed, which goes on to handleRetry.                  *)
noteGivenUp ==
    /\ pc = "note"
    /\ att < MaxAttempt
    /\ PatchStatus(GivenUpStatus(copy))
    /\ pc' = IF why = "fail" /\ copy'.retry THEN "retry" ELSE "idle"
    /\ UNCHANGED <<inst, state, att, why, cloudVars, kubeVars, cluster>>

handleRetry ==
    /\ pc = "retry"
    /\ PatchStatus(RetriedStatus(copy))
    /\ pc' = "retryDrop"
    /\ UNCHANGED <<inst, state, att, why, cloudVars, kubeVars, cluster>>

(* The annotation goes last, with a patch that carries no version.         *)
handleRetryDrop ==
    /\ pc = "retryDrop"
    /\ obj.here
    /\ IF obj.retry THEN Write([obj EXCEPT !.retry = FALSE]) ELSE UNCHANGED apiVars
    /\ pc' = "idle"
    /\ UNCHANGED <<copy, fresh, inst, state, att, why, cloudVars, kubeVars, cluster>>

(* A mutant: the finalizer is taken off without a version.                 *)
LetGoFromOldCopy ==
    /\ pc = "letGo"
    /\ obj.here
    /\ Write([obj EXCEPT !.finalizer = FALSE, !.here = FALSE])
    /\ pc' = "idle"
    /\ UNCHANGED <<copy, fresh, inst, state, att, why, cloudVars, kubeVars, cluster>>

(* The finalizer comes off, from the version the pass has, and the API     *)
(* server removes the node.                                                *)
letGo ==
    /\ pc = "letGo"
    /\ fresh
    /\ Write([copy EXCEPT !.finalizer = FALSE, !.here = FALSE])
    /\ pc' = "idle"
    /\ UNCHANGED <<copy, fresh, inst, state, att, why, cloudVars, kubeVars, cluster>>

-----------------------------------------------------------------------------
(* The rest of the world.                                                  *)

(* The operator process dies and a new one lists everything afresh.        *)
Crash ==
    /\ pc # "idle" \/ watch # <<>>
    /\ pc' = "idle"
    /\ cache' = obj
    /\ watch' = <<>>
    /\ UNCHANGED <<obj, copy, fresh, inst, state, att, why, cloudVars, kubeVars, cluster>>

(* Someone other than the pass writes to the node: a pass that is running  *)
(* has an old copy now.                                                    *)
UserWrite(n) ==
    /\ obj.here
    /\ n # obj
    /\ Write(n)
    /\ fresh' = FALSE
    /\ UNCHANGED <<pc, copy, inst, state, att, why, cloudVars, kubeVars, cluster>>

DeleteNode == /\ ~obj.deleting
              /\ UserWrite([obj EXCEPT !.deleting = TRUE, !.here = obj.finalizer])
AskRetry   == obj.phase = "Failed" /\ UserWrite([obj EXCEPT !.retry = TRUE])
AskAbandon == obj.deleting /\ UserWrite([obj EXCEPT !.abandon = TRUE])

(* What the provider and the machines do by themselves.                    *)
MachineStep(m, from, to) ==
    /\ machine[m].st \in from
    /\ machine' = [machine EXCEPT ![m].st = to]
    /\ UNCHANGED <<apiVars, passVars, rules, agents, cluster>>

(* A machine that is shown late is shown before it has booted.             *)
Boot(m)   == /\ machine[m].shown
             /\ MachineStep(m, {"pending"}, "running")
             /\ UNCHANGED knode
PowerOff(m) == /\ MachineStep(m, {"pending", "running"}, "stopped")
               /\ knode' = IF knode.by = m THEN [knode EXCEPT !.ready = FALSE] ELSE knode
(* A spot machine is taken back, or someone deletes the machine by hand.   *)
Vanish(m) == /\ pc \in {"record", "resume"} /\ inst = m /\ state = "stopped" => LostInResume
             /\ MachineStep(m, {"pending", "running", "stopped"}, "gone")
             /\ knode' = IF knode.by = m THEN [knode EXCEPT !.ready = FALSE] ELSE knode
Removed(m) == /\ MachineStep(m, {"doomed"}, "gone")
              /\ knode' = IF knode.by = m THEN [knode EXCEPT !.ready = FALSE] ELSE knode
Show(m)   == /\ ~machine[m].shown
             /\ machine' = [machine EXCEPT ![m].shown = TRUE]
             /\ UNCHANGED <<apiVars, passVars, rules, kubeVars, cluster>>

(* The agent of a machine registers the node; kubelet reports its health.  *)
Register(m) ==
    /\ m \in agents
    /\ machine[m].st \in {"running", "doomed"}
    /\ Firewall => m \in rules
    /\ agents' = agents \ {m}
    /\ knode' = [by |-> m, ready |-> TRUE]
    /\ UNCHANGED <<apiVars, passVars, cloudVars, cluster>>

Health ==
    /\ knode.by # NoMachine
    /\ ~knode.ready => machine[knode.by].st \in {"running", "doomed"}
    /\ knode' = [knode EXCEPT !.ready = ~@]
    /\ UNCHANGED <<apiVars, passVars, cloudVars, agents, cluster>>

RemovedByHand ==
    /\ knode.by # NoMachine
    /\ knode' = [by |-> NoMachine, ready |-> FALSE]
    /\ UNCHANGED <<apiVars, passVars, cloudVars, agents, cluster>>

ClusterFlips ==
    /\ ClusterMayGo
    /\ cluster' = ~cluster
    /\ UNCHANGED <<apiVars, passVars, cloudVars, kubeVars>>

-----------------------------------------------------------------------------
PassStep ==
    \/ AddFinalizer \/ Reconcile \/ dropRetryAnnotation \/ handleDeletion
    \/ Conflict \/ setFailed
    \/ cloudStart \/ findMachine \/ createMachine(TRUE) \/ cloudCreateFailed
    \/ waitCloudProblem \/ recordMachine \/ getMachine \/ resumeMachine
    \/ noteState \/ openControlPlane(TRUE) \/ openControlPlaneFailed \/ noteOpen
    \/ claimJoin \/ cloudJoinRefused \/ cloudJoin \/ setJoining
    \/ cloudJoining \/ markNodeReady \/ cloudReady \/ rejoin
    \/ drain \/ removeKubernetesNode \/ findMachineToDelete \/ deleteMachine(TRUE)
    \/ closeControlPlane(TRUE) \/ noteClosed \/ noteGivenUp
    \/ handleRetry \/ handleRetryDrop \/ letGo

Fault ==
    \/ Return \/ Crash
    \/ createMachine(FALSE) \/ openControlPlane(FALSE)
    \/ deleteMachine(FALSE) \/ closeControlPlane(FALSE)

World ==
    \/ Sync \/ DeleteNode \/ AskRetry \/ AskAbandon
    \/ \E m \in Machine : Boot(m) \/ PowerOff(m) \/ Vanish(m) \/ Removed(m)
                          \/ Show(m) \/ Register(m)
    \/ Health \/ RemovedByHand \/ ClusterFlips

Next == PassStep \/ Fault \/ World

Spec == Init /\ [][Next]_vars

-----------------------------------------------------------------------------
(* Properties.                                                             *)

TypeOK ==
    /\ obj \in Node /\ cache \in Node /\ copy \in Node
    /\ watch \in Seq(Node) /\ Len(watch) <= Lag
    /\ pc \in Pcs
    /\ fresh \in BOOLEAN
    /\ inst \in MachineOrNone
    /\ state \in {"", "pending", "running", "stopped"}
    /\ att \in Attempts
    /\ why \in {"", "replace", "fail", "delete"}
    /\ machine \in [Machine -> [st : MachineState, name : Attempts, shown : BOOLEAN]]
    /\ rules \subseteq Machine
    /\ agents \subseteq Machine
    /\ knode \in [by : MachineOrNone, ready : BOOLEAN]
    /\ cluster \in BOOLEAN

(* A node never pays for two machines: at any moment at most one machine   *)
(* exists that the provider was not asked to remove.                       *)
AtMostOneKept == \A m, n \in Kept : m = n

(* The node's status leads to the machine m: by the id in it or, before    *)
(* there is one, by the name that was written down before m was made.      *)
Leads(m) ==
    \/ obj.id = m
    \/ obj.id = NoMachine /\ obj.named /\ obj.attempt = machine[m].name

(* No machine is left running that nothing knows about: a node leads to    *)
(* every machine that is kept for it, and is gone only if there is none    *)
(* or the user abandoned it.                                               *)
Accounted == \A m \in Kept : IF obj.here THEN Leads(m) ELSE obj.abandon

(* A node that is up can reach the control plane: while a node is Joining  *)
(* or Ready and nobody is removing it, its machine's address is let        *)
(* through the control plane's firewall.                                   *)
JoinedThroughFirewall ==
    /\ Firewall
    /\ obj.here /\ ~obj.deleting
    /\ obj.phase \in {"Joining", "Ready"}
    /\ obj.id \in Kept
    => obj.id \in rules

(* The name of a machine is used for one machine only as long as that      *)
(* machine may exist: when the node goes on to its next attempt, no        *)
(* machine of the attempt it leaves is kept.                               *)
LeavesNothingBehind ==
    [][obj'.attempt # obj.attempt =>
         /\ obj'.attempt = obj.attempt + 1
         /\ \A m \in Kept' : machine'[m].name # obj.attempt]_vars

(* A node that holds data keeps its machine: while such a node is Ready,   *)
(* its machine is only deleted because the node itself is being deleted.   *)
DataKeepsItsMachine ==
    [][\A m \in Kept :
         /\ ~Ephemeral
         /\ obj.phase = "Ready" /\ obj.id = m
         /\ machine'[m].st = "doomed"
         => obj.deleting]_vars

(* The node is only let go once its machine is: when the API server        *)
(* removes the node, the provider has been asked to remove the machine     *)
(* that the node's status leads to, or the user said to leave it.          *)
LetGoAfterItsMachine ==
    [][obj.here /\ ~obj'.here /\ ~obj.abandon =>
         \A m \in Kept : ~Leads(m)]_vars

(* A pass that works from an old copy does not install K3s a second time   *)
(* on a machine that another pass has set up (claimJoin).                  *)
InstallsOnce ==
    [][agents' \ agents # {} => obj.phase \notin {"Joining", "Ready"}]_vars

(* The control plane's firewall is closed again when the machine goes: a   *)
(* node that is gone, and was not abandoned, leaves no rule behind.        *)
RulesClosed == ~obj.here /\ ~obj.abandon => rules = {}

(* Seen from what it pays for, the node is a MachineLease.                 *)
Lease == INSTANCE MachineLease WITH held <- Kept, here <- obj.here, left <- obj.abandon

ImplementsLease == Lease!Spec

-----------------------------------------------------------------------------
(* Fairness: the work queue keeps running passes while there is something  *)
(* to do, no call of a pass hangs for ever (they all have deadlines), and  *)
(* a call that is made again and again is answered in the end.             *)
Fairness ==
    /\ WF_vars(pc # "idle" /\ (PassStep \/ Fault))
    /\ WF_vars(Sync)
    /\ SF_vars(Reconcile) /\ SF_vars(handleDeletion)
    /\ SF_vars(drain) /\ SF_vars(removeKubernetesNode)
    /\ SF_vars(findMachineToDelete) /\ SF_vars(deleteMachine(TRUE))
    /\ SF_vars(closeControlPlane(TRUE)) /\ SF_vars(noteClosed) /\ SF_vars(letGo)

FairSpec == Spec /\ Fairness

(* Deleting a node ends: whatever it was doing, it is gone in the end.     *)
DeletionEnds == obj.deleting ~> ~obj.here

(* cloudFailed stops the billing of a node that failed: the machine in its *)
(* status is deleted in the end, unless the user abandons it.              *)
FailedStopsBilling ==
    \A m \in Machine :
        (obj.here /\ obj.phase = "Failed" /\ obj.id = m) ~> (m \notin Kept \/ obj.abandon)

(* Both ends of a cloud node (handleCloudDeletion, cloudFailed) are met.   *)
NodeEnds == DeletionEnds /\ FailedStopsBilling
=============================================================================
