------------------------------ MODULE LostNode ------------------------------
(***************************************************************************)
(* What the operator does for the instances of one database on machines    *)
(* that are gone (internal/controller/lost_node.go): pods that cannot be   *)
(* reached are removed so that they start elsewhere, and an instance whose *)
(* volume went with its machine is given up, volume first and pod after,   *)
(* so that CloudNativePG builds another from the primary.  A pass reads    *)
(* once and then acts call by call, while machines, Kubernetes and         *)
(* CloudNativePG (external, modelled from what the pass expects of them)   *)
(* go on.                                                                  *)
(*                                                                         *)
(* The volumes of a database are "single" (one copy, on one machine) or    *)
(* "replicated" (usable from any machine).  An instance that is built anew *)
(* takes the place of the one given up; CloudNativePG gives it a new name. *)
(***************************************************************************)
EXTENDS Naturals, FiniteSets

CONSTANTS
    Machine,    \* the machines of the cluster, numbered
    Instance,   \* the instances of the database (spec.instances of them)
    VolumeKinds,\* the kinds of volume it may have been given
    LostHappens \* midway: machines and disks may also change in the middle of
                \* a pass; return: a machine that was away may come back

ASSUME LostNodeAssumption ==
    /\ Machine \subseteq Nat \ {0} /\ IsFiniteSet(Machine) /\ Machine # {}
    /\ IsFiniteSet(Instance) /\ Instance # {}
    /\ VolumeKinds \subseteq {"single", "replicated"} /\ VolumeKinds # {}
    /\ LostHappens \subseteq {"midway", "return"}

Nowhere == 0

VARIABLES
    kind,     \* the storage class of the volumes
    machine,  \* each machine: up, away (not ready), lost (away for lostNodeAfter), removed
    pod,      \* each instance's pod: none, pending, ready, unready, terminating
    on,       \* the machine of a pod that was placed
    waited,   \* since the pod is not ready: 0, 1 (strandedVolumeAfter), 2 (lostNodeAfter)
    volume,   \* each instance's volume: none, fresh (to be filled), full, faulted
    deleted,  \* the claims that are deleted and not gone yet
    home,     \* the machine a single volume is on
    primary,  \* status.currentPrimary
    pass,     \* idle, orphans, instances
    plan,     \* what the pass will do with each pod, from what it read
    same,     \* pods that are still the ones it read (their UID)
    primaryUp,\* it saw the primary up
    moved     \* since then a machine came back or left, or a volume was lost

database == <<pod, on, waited, volume, deleted, home, primary>>
recovery == <<pass, plan, same, primaryUp, moved>>
lostVars == <<kind, machine, database, recovery>>

LostInit ==
    /\ kind \in VolumeKinds
    /\ machine = [m \in Machine |-> "up"]
    /\ on \in [Instance -> Machine]
    /\ home = [i \in Instance |-> IF kind = "single" THEN on[i] ELSE Nowhere]
    /\ pod = [i \in Instance |-> "ready"] /\ waited = [i \in Instance |-> 0]
    /\ volume = [i \in Instance |-> "full"] /\ deleted = {}
    /\ primary = CHOOSE i \in Instance : TRUE
    /\ pass = "idle" /\ plan = [i \in Instance |-> "leave"] /\ same = {}
    /\ primaryUp = FALSE /\ moved = FALSE

-----------------------------------------------------------------------------
(* Machines, Kubernetes and CloudNativePG.                                 *)

(* A pass takes 30 seconds at most (volumeReplicaPassTimeout), less than   *)
(* any of the waits: what goes past one during a pass does so before or    *)
(* after it.  In the middle of passes machines move at most once.          *)
BetweenPasses == pass = "idle"
Moves == (BetweenPasses /\ moved' = moved) \/ (~BetweenPasses /\ "midway" \in LostHappens /\ ~moved /\ moved' = TRUE)

(* The pods of ends are no more.                                           *)
PodsEnd(ends) ==
    /\ on' = [i \in Instance |-> IF i \in ends THEN Nowhere ELSE on[i]]
    /\ same' = same \ ends

MachineGoes(m) ==
    /\ machine[m] = "up" /\ machine' = [machine EXCEPT ![m] = "away"]
    /\ pod' = [i \in Instance |-> IF on[i] = m /\ pod[i] = "ready" THEN "unready" ELSE pod[i]]
    /\ UNCHANGED <<kind, on, waited, volume, deleted, home, primary, recovery>>

MachineLost(m) ==
    /\ BetweenPasses /\ machine[m] = "away" /\ machine' = [machine EXCEPT ![m] = "lost"]
    /\ UNCHANGED <<kind, database, recovery>>

(* The kubelet is back: what it was told to stop stops, the rest goes on.  *)
MachineReturns(m) ==
    /\ "return" \in LostHappens /\ machine[m] \in {"away", "lost"}
    /\ machine' = [machine EXCEPT ![m] = "up"]
    /\ pod' = [i \in Instance |-> IF on[i] # m THEN pod[i]
                                  ELSE IF pod[i] = "terminating" THEN "none"
                                  ELSE IF volume[i] = "full" THEN "ready" ELSE pod[i]]
    /\ PodsEnd({i \in Instance : on[i] = m /\ pod[i] = "terminating"})
    /\ waited' = [i \in Instance |-> IF on[i] = m THEN 0 ELSE waited[i]]
    /\ Moves
    /\ UNCHANGED <<kind, volume, deleted, home, primary, pass, plan, primaryUp>>

(* Taken out of the cluster; another machine is up.                        *)
MachineRemoved(m) ==
    LET ends == {i \in Instance : on[i] = m}
    IN
    /\ machine[m] # "removed" /\ \E o \in Machine \ {m} : machine[o] = "up"
    /\ machine' = [machine EXCEPT ![m] = "removed"]
    /\ pod' = [i \in Instance |-> IF i \in ends THEN "none" ELSE pod[i]]
    /\ PodsEnd(ends)
    /\ waited' = [i \in Instance |-> IF i \in ends THEN 0 ELSE waited[i]]
    /\ Moves
    /\ UNCHANGED <<kind, volume, deleted, home, primary, pass, plan, primaryUp>>

(* A disk is replaced: Longhorn has no copy of the volume left.            *)
VolumeLost(i) ==
    /\ kind = "single" /\ volume[i] = "full" /\ machine[home[i]] = "up"
    /\ volume' = [volume EXCEPT ![i] = "faulted"]
    /\ pod' = [pod EXCEPT ![i] = IF @ = "ready" THEN "unready" ELSE @]
    /\ Moves
    /\ UNCHANGED <<kind, machine, on, waited, deleted, home, primary, pass, plan, same, primaryUp>>

TimePasses(i) ==
    /\ BetweenPasses /\ pod[i] \in {"pending", "unready"} /\ waited[i] < 2
    /\ waited' = [waited EXCEPT ![i] = @ + 1]
    /\ UNCHANGED <<kind, machine, pod, on, volume, deleted, home, primary, recovery>>

(* The node controller marks the pods of a machine that is away.           *)
Marked(i) ==
    /\ on[i] # Nowhere /\ machine[on[i]] \in {"away", "lost"} /\ pod[i] = "unready"
    /\ pod' = [pod EXCEPT ![i] = "terminating"]
    /\ UNCHANGED <<kind, machine, on, waited, volume, deleted, home, primary, recovery>>

(* A claim that is deleted goes when no pod uses it.                       *)
ClaimGoes(i) ==
    /\ i \in deleted /\ pod[i] = "none"
    /\ volume' = [volume EXCEPT ![i] = "none"] /\ home' = [home EXCEPT ![i] = Nowhere]
    /\ deleted' = deleted \ {i}
    /\ UNCHANGED <<kind, machine, pod, on, waited, primary, recovery>>

PrimaryReady == pod[primary] = "ready"

Promotes(i) ==
    /\ ~PrimaryReady /\ pod[i] = "ready"
    /\ primary' = i
    /\ UNCHANGED <<kind, machine, pod, on, waited, volume, deleted, home, recovery>>

(* CloudNativePG makes a pod for a volume that is there, also for one that *)
(* is being removed, and a new instance where there is none.               *)
MakesPod(i) ==
    /\ pod[i] = "none" /\ pod' = [pod EXCEPT ![i] = "pending"]
    /\ waited' = [waited EXCEPT ![i] = 0] /\ same' = same \ {i}
    /\ \/ volume[i] # "none" /\ UNCHANGED <<volume, home>>
       \/ /\ volume[i] = "none" /\ PrimaryReady
          /\ volume' = [volume EXCEPT ![i] = "fresh"]
          /\ \E m \in Machine : machine[m] = "up" /\ home' = [home EXCEPT ![i] = IF kind = "single" THEN m ELSE Nowhere]
    /\ UNCHANGED <<kind, machine, on, deleted, primary, pass, plan, primaryUp, moved>>

UsableOn(i, m) == machine[m] = "up" /\ (kind = "single" => home[i] = m)

Starts(i) ==
    /\ pod[i] = "pending" /\ i \notin deleted
    /\ volume[i] = "full" \/ (volume[i] = "fresh" /\ PrimaryReady)
    /\ \E m \in Machine : UsableOn(i, m) /\ on' = [on EXCEPT ![i] = m]
    /\ pod' = [pod EXCEPT ![i] = "ready"] /\ waited' = [waited EXCEPT ![i] = 0]
    /\ volume' = [volume EXCEPT ![i] = "full"]
    /\ UNCHANGED <<kind, machine, deleted, home, primary, recovery>>

World(i) == TimePasses(i) \/ Marked(i) \/ ClaimGoes(i) \/ Promotes(i) \/ MakesPod(i) \/ Starts(i)

-----------------------------------------------------------------------------
(* The pass.                                                               *)

NodeLost(m) == m # Nowhere /\ machine[m] = "lost"
Replicated == Cardinality(Instance) > 1

(* A mutant: an instance is given up whether or not the primary is up.     *)
SeenAnyhow == TRUE

(* The primary's pod is not marked, not on a lost machine and ready.       *)
SeenUp == PrimaryReady /\ ~NodeLost(on[primary])

(* recoverPostgresDatabase's choice for one pod, and recoverServers-       *)
(* OnLostNodes', which is the one for a database of one instance.          *)
Choose(i, up) ==
    CASE pod[i] = "terminating" /\ NodeLost(on[i]) /\ (Replicated => i # primary) -> "lost"
      [] pod[i] \in {"pending", "unready"} /\ Replicated /\ up /\ i # primary /\ waited[i] > 0 -> "stuck"
      [] OTHER -> "leave"

(* A mutant: pods whose volume is going are left.                          *)
NoOrphan(i) == FALSE

(* Waiting to start, with no volume or one that is being removed.  The     *)
(* code waits one minute for that; here it waits as long as for a stuck    *)
(* pod, three, and so finds an orphan later than the code may.             *)
Orphan(i) == pod[i] = "pending" /\ (volume[i] = "none" \/ i \in deleted) /\ waited[i] > 0

(* reconcileLostNodes, recoverPostgres and recoverPostgresDatabase read    *)
(* the nodes, the database and its pods.                                   *)
reconcileLostNodes ==
    /\ pass = "idle" /\ pass' = "orphans"
    /\ plan' = [i \in Instance |-> Choose(i, SeenUp)]
    /\ primaryUp' = SeenUp
    /\ same' = {i \in Instance : pod[i] # "none"}
    /\ UNCHANGED <<kind, machine, database, moved>>

(* forceDeletePod names the pod that was read.                             *)
ThePodRead(i) == i \in same

forceDeletePod(i) ==
    IF ThePodRead(i)
    THEN /\ pod' = [pod EXCEPT ![i] = "none"] /\ PodsEnd({i})
         /\ waited' = [waited EXCEPT ![i] = 0]
    ELSE UNCHANGED <<pod, on, waited, same>>

(* One list of the claims, and then the pods that have none; calls of it   *)
(* may fail.                                                               *)
RemovesOrphans(ends) ==
    /\ pass = "orphans" /\ pass' = "instances"
    /\ pod' = [i \in Instance |-> IF i \in ends THEN "none" ELSE pod[i]] /\ PodsEnd(ends)
    /\ waited' = [i \in Instance |-> IF i \in ends THEN 0 ELSE waited[i]]
    /\ UNCHANGED <<kind, machine, volume, deleted, home, primary, plan, primaryUp, moved>>

removeInstancesWithoutVolume == RemovesOrphans({i \in same : Orphan(i)})

claimsReplicated == kind = "replicated"
Stranded(i) == kind = "single" /\ home[i] # Nowhere /\ machine[home[i]] = "removed"

(* hasLostItsVolume, from the volume as it is now and the time as read.    *)
LostItsVolume(i) == Stranded(i) \/ (waited[i] = 2 /\ volume[i] = "faulted")

(* recoverInstanceOnLostNode and replaceIfVolumeLost up to the first call  *)
(* that changes something: the claims are read now.  Without claims        *)
(* nothing is done.                                                        *)
ReplaceNow(i) ==
    /\ volume[i] # "none"
    /\ \/ plan[i] = "lost" /\ ~claimsReplicated /\ Replicated /\ primaryUp
       \/ plan[i] = "stuck" /\ LostItsVolume(i)

StartElsewhere(i) == plan[i] = "lost" /\ volume[i] # "none" /\ claimsReplicated

recoverInstance(i) ==
    /\ pass = "instances" /\ plan[i] \in {"lost", "stuck"}
    /\ deleted' = IF ReplaceNow(i) THEN deleted \union {i} ELSE deleted
    /\ plan' = [plan EXCEPT ![i] = IF ReplaceNow(i) THEN "delete" ELSE "leave"]
    /\ IF StartElsewhere(i) THEN forceDeletePod(i) ELSE UNCHANGED <<pod, on, waited, same>>
    /\ UNCHANGED <<kind, machine, volume, home, primary, pass, primaryUp, moved>>

(* The second call of replacePostgresInstance.                             *)
replacePostgresInstance(i) ==
    /\ pass = "instances" /\ plan[i] = "delete"
    /\ forceDeletePod(i) /\ plan' = [plan EXCEPT ![i] = "leave"]
    /\ UNCHANGED <<kind, machine, volume, deleted, home, primary, pass, primaryUp, moved>>

(* A call for a pod fails, and the pass goes on with the others.           *)
CallFails(i) ==
    /\ pass = "instances" /\ plan[i] # "leave"
    /\ plan' = [plan EXCEPT ![i] = "leave"]
    /\ UNCHANGED <<kind, machine, database, pass, same, primaryUp, moved>>

(* All pods were looked at, the time of the pass is over, or the operator  *)
(* restarts.                                                               *)
PassEnds ==
    /\ pass' = "idle" /\ plan' = [i \in Instance |-> "leave"] /\ same' = {}
    /\ primaryUp' = FALSE
    /\ UNCHANGED <<kind, machine, database, moved>>

Finished == pass = "instances" /\ (\A i \in Instance : plan[i] = "leave") /\ PassEnds
CutOff == pass # "idle" /\ PassEnds
PassFails == CutOff \/ (\E i \in Instance : CallFails(i)) \/ (\E ends \in SUBSET same : RemovesOrphans(ends \intersect {i \in same : Orphan(i)}))

PassStep(i) == recoverInstance(i) \/ replacePostgresInstance(i)
LostPass == reconcileLostNodes \/ removeInstancesWithoutVolume \/ (\E i \in Instance : PassStep(i)) \/ Finished

LostNext ==
    \/ \E m \in Machine : MachineGoes(m) \/ MachineLost(m) \/ MachineReturns(m) \/ MachineRemoved(m)
    \/ \E i \in Instance : VolumeLost(i) \/ World(i)
    \/ LostPass \/ PassFails

LostSpec == LostInit /\ [][LostNext]_lostVars

-----------------------------------------------------------------------------
LostTypeOK ==
    /\ kind \in VolumeKinds
    /\ machine \in [Machine -> {"up", "away", "lost", "removed"}]
    /\ pod \in [Instance -> {"none", "pending", "ready", "unready", "terminating"}]
    /\ on \in [Instance -> Machine \union {Nowhere}] /\ waited \in [Instance -> 0 .. 2]
    /\ volume \in [Instance -> {"none", "fresh", "full", "faulted"}]
    /\ deleted \subseteq Instance /\ home \in [Instance -> Machine \union {Nowhere}]
    /\ primary \in Instance /\ pass \in {"idle", "orphans", "instances"}
    /\ plan \in [Instance -> {"leave", "lost", "stuck", "delete"}]
    /\ same \subseteq Instance /\ primaryUp \in BOOLEAN /\ moved \in BOOLEAN

(* The instances whose data is still to be found, on machines that are     *)
(* away too.                                                               *)
Copies == {i \in Instance : /\ volume[i] = "full" /\ i \notin deleted
                            /\ kind = "single" => machine[home[i]] # "removed"}

(* The pass never gives up the last copy of the data, however the calls of *)
(* Kubernetes and CloudNativePG fall between its own, and whichever        *)
(* machines go away in between ("an instance is never replaced unless the  *)
(* primary is up", lost_node.go:43); a machine that comes back or is       *)
(* removed, or a disk that fails, in the middle of the pass is excepted.   *)
LastCopyKept ==
    ~moved /\ Copies # {} /\ Copies' = {} => \A i \in Instance : ~PassStep(i)

(* A pod that runs is never removed, also when it was made again under the *)
(* name of one the pass has seen on a lost machine (forceDeletePod).       *)
RunningPodKept == (\E i \in Instance : pod[i] = "ready" /\ pod'[i] # "ready") => ~LostPass

(* No step of a recovery (recoverInstanceOnLostNode, replaceIfVolumeLost,  *)
(* removeInstancesWithoutVolume) costs the database its last copy or a pod *)
(* that runs.                                                              *)
LostSafe == [][lostVars' # lostVars => LostTypeOK' /\ LastCopyKept /\ RunningPodKept]_lostVars

(* The pass runs again and again, Kubernetes and CloudNativePG do their    *)
(* part, and at last machines and disks stay as they are and no call fails.*)
LostFair ==
    /\ WF_lostVars(LostPass)
    /\ \A i \in Instance : SF_lostVars(TimePasses(i)) /\ WF_lostVars(Marked(i)) /\ SF_lostVars(ClaimGoes(i))
    /\ \A i \in Instance : WF_lostVars(MakesPod(i)) /\ WF_lostVars(Starts(i)) /\ WF_lostVars(Promotes(i))
    /\ \A m \in Machine : SF_lostVars(MachineLost(m))
    /\ <>[][/\ \A m \in Machine : (machine'[m] # machine[m]) => machine'[m] = "lost"
            /\ \A i \in Instance : volume[i] = "full" => volume'[i] # "faulted"
            /\ PassFails => LostPass]_lostVars

(* An instance that was being made again when the machine of its volume    *)
(* went away: it is on no lost machine, and its volume is not stranded.    *)
Forgotten(i) == kind = "single" /\ i \notin deleted /\ pod[i] = "pending" /\ home[i] # Nowhere /\ machine[home[i]] \in {"away", "lost"}

(* Once machines and disks stay as they are and the primary is up, every   *)
(* instance runs again without anybody's help (recoverPostgresDatabase),   *)
(* when no instance is Forgotten for good.                                 *)
WholeAgain ==
    LostFair => (<>[](PrimaryReady /\ \A i \in Instance : ~Forgotten(i)) => <>[](\A i \in Instance : pod[i] = "ready"))

(* The same of every instance, a Forgotten one too, as the head of         *)
(* lost_node.go promises: TLC finds it forgotten for ever.                 *)
WholeAgainAlways ==
    LostFair => (<>[]PrimaryReady => <>[](\A i \in Instance : pod[i] = "ready"))
=============================================================================
