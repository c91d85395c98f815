----------------------------- MODULE K3sUpgrade -----------------------------
(***************************************************************************)
(* How the operator brings the workers to the K3s release of               *)
(* spec.k3s.version, one at a time (internal/controller/                   *)
(* geasscluster_k3supgrade.go).  A pass reads the cluster object and the   *)
(* Kubernetes nodes, decides, and then makes the calls in `calls`; between *)
(* two calls anything else may happen, and any call may fail or the        *)
(* operator restart, which ends the pass.                                  *)
(*                                                                         *)
(* Releases are numbers, 0 is none.  Whether nodes are ready and volumes   *)
(* whole is any answer at the moment it is asked; a node reports the       *)
(* release that is installed, or nothing or an older one as it comes back. *)
(***************************************************************************)
EXTENDS Naturals, Sequences, FiniteSets

CONSTANTS
    Worker,       \* the workers, numbered in the order of their names
    MaxRelease,   \* releases are 1 .. MaxRelease
    Requests,     \* what spec.k3s.version may be set to
    UpgradeHappens

(* race: somebody cordons a node between the pass's look and its patch;    *)
(* override: somebody uncordons the node that is being upgraded; behind:   *)
(* the operator's cache of nodes misses its own last cordon.               *)
UpgradeIncidents == {"race", "override", "behind"}

ASSUME UpgradeAssumption ==
    /\ Worker \subseteq Nat \ {0} /\ IsFiniteSet(Worker)
    /\ MaxRelease \in Nat \ {0}
    /\ Requests \subseteq 0 .. MaxRelease + 1
    /\ UpgradeHappens \subseteq UpgradeIncidents

Release == 1 .. MaxRelease
NotARelease == MaxRelease + 1
Wanted == 0 .. NotARelease

VARIABLES
    want,       \* spec.k3s.version
    retry,      \* geass.dev/retry-k3s-upgrade is on the cluster
    going,      \* the cluster object is being deleted
    control,    \* the oldest release of a control plane server
    managed,    \* workers with a GeassNode that stays
    present,    \* workers that are Kubernetes nodes
    installed,  \* the K3s on each machine
    unschedulable, \* cordoned nodes
    marked,     \* nodes with geass.dev/k3s-upgrade-cordon
    known,      \* the cache of nodes has unschedulable and marked as they are
    theirs,     \* cordoned by somebody else, who wants them so
    ours,       \* cordoned by the upgrade and not uncordoned since
    upgrade,    \* status.k3s.upgrade
    overdue,    \* k3sUpgradeNodeTimeout has passed since startedAt
    calls,      \* what the pass has still to do
    seen,       \* what it read
    work        \* the status it is to write

nodeState == <<managed, present, installed>>
cordons == <<unschedulable, marked, known, theirs, ours>>
request == <<want, retry, going>>
upgradePass == <<calls, seen, work>>
upgradeVars == <<request, control, nodeState, cordons, upgrade, overdue, upgradePass>>

NoUpgrade == [phase |-> "none", target |-> 0, node |-> 0, step |-> ""]
Phases == {"none", "", "WaitingForControlPlane", "Waiting", "Upgrading", "Complete", "Failed"}
Upgrades == [phase : Phases, target : Wanted, node : Worker \union {0},
             step : {"", "Cordoned", "Installed"}]
NothingSeen == [want |-> 0, cordoned |-> FALSE, marked |-> FALSE]
Calls == {"release", "uncordon", "forget", "cordon", "ssh", "start", "write", "drop", "advance"}

UpgradeInit ==
    /\ want = 0 /\ retry = FALSE /\ going = FALSE
    /\ control = 1 /\ managed = Worker /\ present = Worker
    /\ installed = [n \in Worker |-> 1]
    /\ unschedulable = {} /\ marked = {} /\ known = TRUE /\ theirs = {} /\ ours = {}
    /\ upgrade = NoUpgrade /\ overdue = FALSE
    /\ calls = <<>> /\ seen = NothingSeen /\ work = NoUpgrade

-----------------------------------------------------------------------------
(* The users, the control plane and the nodes.                             *)

AskUpgrade ==
    /\ \/ want' \in Requests \ {want} /\ UNCHANGED <<retry, going>>
       \/ ~retry /\ retry' = TRUE /\ UNCHANGED <<want, going>>
       \/ ~going /\ going' = TRUE /\ UNCHANGED <<want, retry>>
    /\ UNCHANGED <<control, nodeState, cordons, upgrade, overdue, upgradePass>>

ControlMoves ==
    /\ control' \in control + 1 .. MaxRelease
    /\ UNCHANGED <<request, nodeState, cordons, upgrade, overdue, upgradePass>>

(* A worker is taken out: first its GeassNode, then its Kubernetes node.   *)
WorkerLeaves(n) ==
    /\ \/ n \in managed /\ managed' = managed \ {n} /\ UNCHANGED <<present, installed, cordons>>
       \/ /\ n \in present \ managed
          /\ present' = present \ {n}
          /\ unschedulable' = unschedulable \ {n} /\ marked' = marked \ {n}
          /\ theirs' = theirs \ {n} /\ ours' = ours \ {n}
          /\ installed' = [installed EXCEPT ![n] = 1]
          /\ UNCHANGED <<managed, known>>
    /\ UNCHANGED <<request, control, upgrade, overdue, upgradePass>>

(* kubectl cordon and uncordon, or a pool that empties the node; they know *)
(* nothing of the upgrade's mark.                                          *)
WorkedOn(n) == upgrade.node = n \/ (calls # <<>> /\ work.node = n)

SomeoneCordons(n) ==
    /\ n \in present \ unschedulable
    /\ (calls # <<>> /\ WorkedOn(n)) => "race" \in UpgradeHappens
    /\ unschedulable' = unschedulable \union {n} /\ theirs' = theirs \union {n}
    /\ UNCHANGED <<request, control, nodeState, marked, known, ours, upgrade, overdue, upgradePass>>

SomeoneUncordons(n) ==
    /\ n \in unschedulable
    /\ (n \in marked /\ WorkedOn(n)) => "override" \in UpgradeHappens
    /\ unschedulable' = unschedulable \ {n}
    /\ theirs' = theirs \ {n} /\ ours' = ours \ {n}
    /\ UNCHANGED <<request, control, nodeState, marked, known, upgrade, overdue, upgradePass>>

CacheCatchesUp ==
    /\ ~known /\ known' = TRUE
    /\ UNCHANGED <<request, control, nodeState, unschedulable, marked, theirs, ours, upgrade, overdue, upgradePass>>

TimeLimit ==
    /\ upgrade.node # 0 /\ ~overdue /\ overdue' = TRUE
    /\ UNCHANGED <<request, control, nodeState, cordons, upgrade, upgradePass>>

-----------------------------------------------------------------------------
(* The pass.                                                               *)

world == <<request, control, nodeState>>

(* What the cache of nodes says of a node: the cordon that the pass before *)
(* made may be missing.                                                    *)
Saw(n) == [want |-> seen.want,
           cordoned |-> n \in unschedulable /\ (known \/ n # upgrade.node),
           marked |-> n \in marked /\ (known \/ n # upgrade.node)]

(* The call is made; with the last one the pass is over.                   *)
NextCall ==
    /\ calls' = Tail(calls)
    /\ IF Len(calls) = 1 THEN seen' = NothingSeen /\ work' = NoUpgrade
       ELSE UNCHANGED <<seen, work>>

Started(v) == [NoUpgrade EXCEPT !.phase = "", !.target = v]

(* The node of the status is one the request no longer is about.           *)
Abandoned == upgrade.node # 0 /\ (going \/ want \notin Release \/ upgrade.target # want)

(* Reconcile up to its call of advance: the cluster, the nodes and what is *)
(* asked for are read once.                                                *)
Reconcile ==
    LET kept == upgrade.target = want /\ upgrade # NoUpgrade
        failed == kept /\ upgrade.phase = "Failed"
    IN
    /\ calls = <<>>
    /\ seen' = [NothingSeen EXCEPT !.want = want]
    /\ work' = CASE going -> upgrade
                 [] ~going /\ want = 0 -> NoUpgrade
                 [] ~going /\ want = NotARelease -> [Started(want) EXCEPT !.phase = "Failed"]
                 [] ~going /\ want \in Release /\ failed /\ retry -> [upgrade EXCEPT !.phase = "", !.step = ""]
                 [] ~going /\ want \in Release /\ kept /\ ~(failed /\ retry) -> upgrade
                 [] OTHER -> Started(want)
    /\ calls' = (IF Abandoned THEN <<"release">> ELSE <<>>) \o
                CASE going -> <<>>
                  [] ~going /\ (want \notin Release \/ (failed /\ ~retry)) -> <<"write">>
                  [] ~going /\ want \in Release /\ failed /\ retry -> <<"start", "drop", "advance">>
                  [] ~going /\ want \in Release /\ ~failed /\ retry -> <<"drop", "advance">>
                  [] OTHER -> <<"advance">>
    /\ UNCHANGED <<world, cordons, upgrade, overdue>>

(* releaseNode: the node of the status on the server, read again.          *)
releaseNode ==
    /\ calls # <<>> /\ Head(calls) = "release"
    /\ seen' = Saw(upgrade.node)
    /\ calls' = <<"uncordon">> \o Tail(calls)
    /\ UNCHANGED <<world, cordons, upgrade, overdue, work>>

(* uncordon's patch: what differed from the node that was read.            *)
uncordon ==
    LET n == upgrade.node
    IN
    /\ calls # <<>> /\ Head(calls) = "uncordon"
    /\ IF seen.marked
       THEN /\ unschedulable' = IF seen.cordoned THEN unschedulable \ {n} ELSE unschedulable
            /\ ours' = IF seen.cordoned THEN ours \ {n} ELSE ours
            /\ marked' = marked \ {n}
       ELSE UNCHANGED <<unschedulable, ours, marked>>
    /\ NextCall
    /\ UNCHANGED <<world, known, theirs, upgrade, overdue>>

(* A mark from an earlier upgrade is on the node that is picked.           *)
OldMark == seen.marked

forgetCordon ==
    /\ calls # <<>> /\ Head(calls) = "forget"
    /\ marked' = IF OldMark THEN marked \ {work.node} ELSE marked
    /\ NextCall
    /\ UNCHANGED <<world, unschedulable, known, theirs, ours, upgrade, overdue>>

(* A mutant: a node that somebody cordoned is marked too.                  *)
MarksAnyway == TRUE

(* A node that is cordoned already is left as it is, without the mark.     *)
NotCordoned == ~seen.cordoned

cordon ==
    LET n == work.node
        patch == NotCordoned /\ n \in present
    IN
    /\ calls # <<>> /\ Head(calls) = "cordon"
    /\ IF patch
       THEN /\ unschedulable' = unschedulable \union {n} /\ marked' = marked \union {n}
            /\ ours' = IF n \in unschedulable THEN ours ELSE ours \union {n}
            /\ known' \in {TRUE, "behind" \notin UpgradeHappens}
       ELSE UNCHANGED <<unschedulable, marked, ours, known>>
    /\ NextCall
    /\ UNCHANGED <<world, theirs, upgrade, overdue>>

(* upgradeOverSSH, which may fail before or after K3s was replaced.        *)
upgradeOverSSH ==
    /\ calls # <<>> /\ Head(calls) = "ssh"
    /\ \/ /\ installed' = [installed EXCEPT ![work.node] = seen.want]
          /\ work' \in {[work EXCEPT !.step = "Installed"], [work EXCEPT !.phase = "Failed"]}
       \/ installed' = installed /\ work' = [work EXCEPT !.phase = "Failed"]
    /\ calls' = Tail(calls)
    /\ UNCHANGED <<request, control, managed, present, cordons, upgrade, overdue, seen>>

(* writeStatus; "start" is a write with a new startedAt.                   *)
writeStatus ==
    /\ calls # <<>> /\ Head(calls) \in {"start", "write"}
    /\ upgrade' = work
    /\ overdue' = (overdue /\ work.node # 0 /\ Head(calls) = "write")
    /\ NextCall
    /\ UNCHANGED <<world, cordons>>

dropRetryAnnotation ==
    /\ calls # <<>> /\ Head(calls) = "drop"
    /\ retry' = FALSE
    /\ NextCall
    /\ UNCHANGED <<want, going, control, nodeState, cordons, upgrade, overdue>>

First(s) == CHOOSE n \in s : \A m \in s : n <= m

(* The workers, of which `old` report an older release and `silent` none.  *)
Workers == managed \intersect present
behind(old, silent) == {n \in Workers : installed[n] < seen.want} \subseteq old \union silent

(* What advance and continueNode decide to do next: the calls, and the     *)
(* status as it is to be written.                                          *)
Then(cs, w) == calls' = cs /\ work' = w /\ seen' = Saw(IF work.node = 0 THEN w.node ELSE work.node)

NodeDone(w) == [w EXCEPT !.node = 0, !.step = ""]

(* A mutant: a node that does not come back is waited for for ever.        *)
NoLimit == FALSE

OutOfTime == overdue

continueNode(current) ==
    LET n == work.node
        w == [work EXCEPT !.phase = "Upgrading"]
        done == NodeDone(w)
        late == Then(<<"write">>, [work EXCEPT !.phase = "Failed"])
    IN
    IF n \notin Workers
    THEN Then(<<"release", "write">>, done)
    ELSE \/ /\ work.step = ""
            /\ Then(<<"cordon", "start">>, [w EXCEPT !.step = "Cordoned"])
         \/ /\ work.step = "Cordoned"
            /\ IF current THEN Then(<<"write">>, [w EXCEPT !.step = "Installed"])
               ELSE IF OutOfTime THEN late ELSE Then(<<"ssh", "write">>, w)
         \/ /\ work.step = "Installed"
            /\ IF current THEN Then(<<"uncordon", "write">>, done)
               ELSE IF OutOfTime THEN late ELSE Then(<<"write">>, w)

ControlBehind == control < seen.want

(* gateReason: another node is not ready or a volume is not whole; for a   *)
(* node that was touched `held` says that it is not ready itself.          *)
advance ==
    /\ calls # <<>> /\ Head(calls) = "advance"
    /\ \E held \in BOOLEAN : \E old \in SUBSET Workers : \E silent \in SUBSET (Workers \ old) :
       /\ behind(old, silent)
       /\ \/ ControlBehind /\ Then(<<"write">>, [work EXCEPT !.phase = "WaitingForControlPlane"])
          \/ /\ ~ControlBehind /\ work.node # 0
             /\ IF work.step = "" /\ held THEN Then(<<"write">>, [work EXCEPT !.phase = "Waiting"])
                ELSE continueNode(~held /\ work.node \notin old \union silent)
          \/ /\ ~ControlBehind /\ work.node = 0 /\ old = {}
             /\ Then(<<"write">>, [work EXCEPT !.phase = IF silent = {} THEN "Complete" ELSE "Waiting"])
          \/ /\ ~ControlBehind /\ work.node = 0 /\ old # {}
             /\ IF held THEN Then(<<"write">>, [work EXCEPT !.phase = "Waiting"])
                ELSE Then(<<"forget", "start">>,
                          [work EXCEPT !.phase = "Upgrading", !.node = First(old), !.step = ""])
    /\ UNCHANGED <<world, cordons, upgrade, overdue>>

(* An error of any call, or a restart of the operator.                     *)
UpgradeReturns ==
    /\ calls # <<>>
    /\ calls' = <<>> /\ seen' = NothingSeen /\ work' = NoUpgrade
    /\ UNCHANGED <<world, cordons, upgrade, overdue>>

UpgradeCall == \/ releaseNode \/ uncordon \/ forgetCordon \/ cordon \/ upgradeOverSSH
               \/ writeStatus \/ dropRetryAnnotation \/ advance

UpgradeNext ==
    \/ AskUpgrade \/ ControlMoves \/ CacheCatchesUp \/ TimeLimit
    \/ \E n \in Worker : WorkerLeaves(n) \/ SomeoneCordons(n) \/ SomeoneUncordons(n)
    \/ Reconcile \/ UpgradeCall \/ UpgradeReturns

UpgradeSpec == UpgradeInit /\ [][UpgradeNext]_upgradeVars

(* A pass is always followed by another (a requeue, or the watches), every *)
(* call ends, time passes, and calls stop failing at some point.           *)
UpgradeFair ==
    /\ WF_upgradeVars(Reconcile) /\ WF_upgradeVars(UpgradeCall) /\ WF_upgradeVars(TimeLimit)
    /\ <>[][UpgradeReturns => UpgradeCall]_upgradeVars

-----------------------------------------------------------------------------
UpgradeTypeOK ==
    /\ want \in Wanted /\ retry \in BOOLEAN /\ going \in BOOLEAN
    /\ control \in Release /\ managed \subseteq present /\ present \subseteq Worker
    /\ installed \in [Worker -> Release]
    /\ unschedulable \subseteq present /\ marked \subseteq present /\ known \in BOOLEAN
    /\ theirs \subseteq present /\ ours \subseteq present
    /\ upgrade \in Upgrades /\ work \in Upgrades /\ overdue \in BOOLEAN
    /\ upgrade.node = 0 => upgrade.step = ""
    /\ calls \in Seq(Calls)
    /\ seen \in [want : Wanted, cordoned : BOOLEAN, marked : BOOLEAN]

(* The upgrade holds at most one node cordoned, over changes of the        *)
(* target, retries, nodes that leave and passes that end half way ("One    *)
(* node at a time", geasscluster_k3supgrade.go:60).                        *)
UpgradeOneAtATime == Cardinality(ours) <= 1

(* What somebody else cordoned stays cordoned, although marks of earlier   *)
(* upgrades are left on nodes (forgetCordon, cordon, uncordon).            *)
UpgradeKeepsTheirs == theirs \subseteq unschedulable

(* No machine gets a K3s newer than the control plane's (advance).         *)
NoAgentAhead == \A n \in present : installed[n] <= control

(* What an upgrade keeps (advance, cordon, uncordon, releaseNode) wherever *)
(* a pass is cut off: one node out of service at a time, the cordons of    *)
(* others, and workers no newer than the control plane.                    *)
UpgradeSafe == UpgradeTypeOK /\ UpgradeOneAtATime /\ UpgradeKeepsTheirs /\ NoAgentAhead

(* A node that the upgrade cordoned is uncordoned or gone in the end, or   *)
(* the status says why it is not.                                          *)
UpgradeLetsGo ==
    UpgradeFair => \A n \in Worker :
        (n \in ours) ~> (n \notin ours \/ upgrade.phase \in {"Failed", "Waiting"})
=============================================================================
