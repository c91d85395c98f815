--------------------------- MODULE CloudNodeLease ---------------------------
(***************************************************************************)
(* Proofs about what a node pays for: with a cache that keeps up and a     *)
(* provider that shows the machines it has, a node is a MachineLease, it   *)
(* leads to every machine it pays for, reaches the control plane while it  *)
(* is up, and keeps its machine if it holds data.  Writes of the user in   *)
(* the middle of a pass, crashes between any two calls, lost answers and   *)
(* machines that vanish are all in.                                        *)
(***************************************************************************)
EXTENDS CloudNodeProofs

(* The assumptions of the proofs: a cache that keeps up, a provider that   *)
(* shows what it has, no machine that vanishes in the moment between being *)
(* seen stopped and being created again, and a cluster that is not deleted *)
(* under its nodes.  The last three are needed: the README has the         *)
(* behaviours that TLC finds without them.                                 *)
Quiet == Lag = 0 /\ ~ShowsLate /\ ~LostInResume /\ ~ClusterMayGo

(* The calls a pass makes before the machine's id is written down, and     *)
(* those it makes about the machine after that.                            *)
Nameless == {"find", "create", "record", "noteProblem", "find2"}
Working  == {"resume", "state", "open", "noteOpen", "claim", "install", "setJoining"}

(* The cache has what the API server has.                                  *)
Synced == watch = <<>> /\ cache = obj

AllShown == \A m \in Machine : machine[m].shown

(* Creating is idempotent by name, so a name is never that of two machines *)
(* the provider reports as alive.                                          *)
OneAlivePerName ==
    \A m, n \in Machine : Alive(m) /\ Alive(n) /\ machine[m].name = machine[n].name => m = n

(* The phase of a node says whether it can have a machine's id.            *)
StatusOK ==
    /\ obj.phase = "Pending" => obj.id = NoMachine
    /\ obj.phase \in {"Joining", "Ready"} => obj.id # NoMachine
    /\ obj.id # NoMachine => obj.named
    /\ obj.here /\ ~obj.finalizer => ~obj.named

(* m was made for attempt a, and so has its name.                          *)
MadeFor(m, a) == machine[m].st # "unused" /\ machine[m].name = a

(* The machine in the status, and the one a pass is about to write down or *)
(* to start, is that of the attempt.                                       *)
NamesOK ==
    /\ obj.id # NoMachine => MadeFor(obj.id, obj.attempt)
    /\ pc = "record" => MadeFor(inst, obj.attempt)
    /\ pc = "resume" \/ (pc = "record" /\ state = "stopped") => inst \in Kept
    /\ pc = "resume" => state = "stopped"

(* Only the user writes to the node while a pass runs, and never to its    *)
(* status: what the pass decided from is still so.                         *)
CopyOK ==
    pc # "idle" =>
        /\ obj.here /\ obj.finalizer
        /\ copy.phase = obj.phase /\ copy.attempt = obj.attempt
        /\ copy.named = obj.named /\ copy.id = obj.id
        /\ copy.abandon => obj.abandon
        /\ fresh => copy = obj

(* What a pass has established when it gets to a call.                     *)
CallsOK ==
    /\ pc \in Nameless => obj.id = NoMachine /\ obj.named
    /\ pc \in {"find", "create", "record", "noteProblem"} => obj.phase = "Creating"
    /\ pc \in {"start", "retry"} => obj.id = NoMachine
    /\ pc \in {"get", "joining", "markReady", "ready", "rejoin"} => obj.id # NoMachine
    /\ pc \in Working => obj.id = inst
    /\ pc \in {"record", "delete"} => Kept \subseteq {inst}
    /\ pc \in {"close", "unnote", "note"} => Kept = {}
    /\ pc = "unlist" => \/ why = "replace" /\ obj.id # NoMachine
                        \/ why = "fail" /\ Kept = {}
                        \/ why = "delete"
    /\ pc \in {"find2", "drain", "letGo"} => why = "delete"
    /\ pc = "note" => why # "delete"
    /\ pc \in {"unlist", "delete", "close", "unnote", "note"} /\ why = "fail" =>
           obj.phase = "Failed"
    /\ pc = "letGo" => Kept = {} \/ copy.abandon
    /\ pc \notin {"idle", "retry", "retryDrop"} => att = obj.attempt

(* The inductive invariant.  Neither AtMostOneKept nor Accounted is        *)
(* inductive: both rest on what a pass still holds true in the middle.     *)
(* It is kept as long as the cluster is there (QuietInv).                  *)
LeaseInv ==
    /\ TypeInv
    /\ Synced
    /\ AllShown
    /\ OneAlivePerName
    /\ AtMostOneKept
    /\ Accounted
    /\ StatusOK
    /\ NamesOK
    /\ CopyOK
    /\ CallsOK
-----------------------------------------------------------------------------
(* What a write does when the cache keeps up.                              *)
LEMMA QuietWrite ==
    ASSUME Quiet, watch = <<>>, NEW o, Write(o)
    PROVE  obj' = o /\ cache' = o /\ watch' = <<>>
<1>1. ~(Len(watch) < Lag)
  BY DEF Quiet
<1>2. Append(watch, o) = <<o>>
  OBVIOUS
<1>3. watch' = Tail(<<o>>) /\ cache' = Head(<<o>>)
  BY <1>1, <1>2 DEF Write
<1>4. Tail(<<o>>) = <<>> /\ Head(<<o>>) = o
  OBVIOUS
<1> QED
  BY <1>3, <1>4 DEF Write

(* r is the node n with another phase, attempt, name and id in its status. *)
Becomes(r, n, phase, attempt, named, id) ==
    /\ r.here = n.here /\ r.finalizer = n.finalizer /\ r.abandon = n.abandon
    /\ r.phase = phase /\ r.attempt = attempt /\ r.named = named /\ r.id = id

(* What the status writes of a pass make of a node.                        *)
LEMMA StatusFields ==
    ASSUME NEW n \in Node
    PROVE  /\ Becomes(StartedStatus(n), n, "Creating", att, TRUE, NoMachine)
           /\ Becomes(ProblemStatus(n), n, n.phase, n.attempt, n.named, n.id)
           /\ Becomes(RecordedStatus(n), n, n.phase, n.attempt, n.named, inst)
           /\ Becomes(SeenStatus(n), n, n.phase, n.attempt, n.named, n.id)
           /\ Becomes(OpenedStatus(n), n, n.phase, n.attempt, n.named, n.id)
           /\ Becomes(ClosedStatus(n), n, n.phase, n.attempt, n.named, n.id)
           /\ Becomes(JoiningStatus(n), n, "Joining", n.attempt, n.named, n.id)
           /\ Becomes(ReadyStatus(n), n, "Ready", n.attempt, n.named, n.id)
           /\ Becomes(RejoinStatus(n), n, "Creating", n.attempt, n.named, n.id)
           /\ Becomes(RetriedStatus(n), n, "Pending", n.attempt, n.named, n.id)
           /\ Becomes(GivenUpStatus(n), n, (IF why = "replace" THEN "Pending" ELSE n.phase), att + 1, FALSE, NoMachine)
<1>1. Becomes(StartedStatus(n), n, "Creating", att, TRUE, NoMachine)
  BY Zenon DEF Becomes, Node, StartedStatus
<1>2. Becomes(ProblemStatus(n), n, n.phase, n.attempt, n.named, n.id)
  BY Zenon DEF Becomes, Node, ProblemStatus
<1>3. Becomes(RecordedStatus(n), n, n.phase, n.attempt, n.named, inst)
  BY Zenon DEF Becomes, Node, RecordedStatus
<1>4. Becomes(SeenStatus(n), n, n.phase, n.attempt, n.named, n.id)
  BY Zenon DEF Becomes, Node, SeenStatus
<1>5. Becomes(OpenedStatus(n), n, n.phase, n.attempt, n.named, n.id)
  BY Zenon DEF Becomes, Node, OpenedStatus
<1>6. Becomes(ClosedStatus(n), n, n.phase, n.attempt, n.named, n.id)
  BY Zenon DEF Becomes, Node, ClosedStatus
<1>7. Becomes(JoiningStatus(n), n, "Joining", n.attempt, n.named, n.id)
  BY Zenon DEF Becomes, Node, JoiningStatus
<1>8. Becomes(ReadyStatus(n), n, "Ready", n.attempt, n.named, n.id)
  BY Zenon DEF Becomes, Node, ReadyStatus
<1>9. Becomes(RejoinStatus(n), n, "Creating", n.attempt, n.named, n.id)
  BY Zenon DEF Becomes, Node, RejoinStatus
<1>10. Becomes(RetriedStatus(n), n, "Pending", n.attempt, n.named, n.id)
  BY Zenon DEF Becomes, Node, RetriedStatus
<1>11. Becomes(GivenUpStatus(n), n, (IF why = "replace" THEN "Pending" ELSE n.phase), att + 1, FALSE, NoMachine)
  BY Zenon DEF Becomes, Node, GivenUpStatus
<1> QED
  BY <1>1, <1>2, <1>3, <1>4, <1>5, <1>6, <1>7, <1>8, <1>9, <1>10, <1>11

(* A status patch of a pass, when the cache keeps up: the node has the     *)
(* status n, whether or not that was news.                                 *)
LEMMA QuietPatch ==
    ASSUME Quiet, Synced, CopyOK, pc # "idle",
           NEW n, PatchStatus(n),
           n.here = copy.here, n.finalizer = copy.finalizer, n.abandon = copy.abandon
    PROVE  /\ Synced'
           /\ obj'.here /\ obj'.finalizer
           /\ obj'.phase = n.phase /\ obj'.attempt = n.attempt
           /\ obj'.named = n.named /\ obj'.id = n.id
           /\ copy' = n
           /\ copy'.abandon => obj'.abandon
           /\ fresh' => copy' = obj'
<1>1. CASE n = copy
  BY <1>1 DEF PatchStatus, Synced, CopyOK, apiVars
<1>2. CASE n # copy
  <2>1. fresh /\ Write(n) /\ copy' = n /\ copy = obj
    BY <1>2 DEF PatchStatus, CopyOK
  <2>2. obj' = n /\ cache' = n /\ watch' = <<>>
    BY <2>1, QuietWrite DEF Synced
  <2> QED
    BY <2>1, <2>2 DEF Synced, CopyOK
<1> QED
  BY <1>1, <1>2

(* The machines are as they were: so is what the provider has.             *)
MachinesOK == AllShown /\ OneAlivePerName /\ AtMostOneKept

LEMMA SameMachines ==
    ASSUME UNCHANGED machine
    PROVE  /\ Kept' = Kept
           /\ MachinesOK => MachinesOK'
  BY DEF Kept, MachinesOK, AllShown, OneAlivePerName, Alive, AtMostOneKept

(* A machine that is being removed, or gone, does not come back.           *)
LEMMA FewerMachines ==
    ASSUME MachinesOK, Accounted, UNCHANGED obj,
           \A m \in Machine : /\ machine'[m].name = machine[m].name
                              /\ machine'[m].shown = machine[m].shown
                              /\ Alive(m)' => Alive(m),
           Kept' \subseteq Kept
    PROVE  MachinesOK' /\ Accounted'
<1>1. AllShown' /\ OneAlivePerName'
  BY DEF MachinesOK, AllShown, OneAlivePerName
<1>2. AtMostOneKept'
  BY DEF MachinesOK, AtMostOneKept
<1>3. Kept \subseteq Machine
  BY DEF Kept
<1>4. Accounted'
  BY <1>3 DEF Accounted, Leads
<1> QED
  BY <1>1, <1>2, <1>4 DEF MachinesOK

LEMMA LeaseParts ==
    /\ LeaseInv <=> /\ TypeInv /\ Synced /\ MachinesOK /\ Accounted
                    /\ StatusOK /\ NamesOK /\ CopyOK /\ CallsOK
    /\ LeaseInv' <=> /\ TypeInv' /\ Synced' /\ MachinesOK' /\ Accounted'
                     /\ StatusOK' /\ NamesOK' /\ CopyOK' /\ CallsOK'
  BY DEF LeaseInv, MachinesOK

(* The names stay right in a step that is not about to use one.            *)
LEMMA NamesKeep ==
    ASSUME NamesOK, UNCHANGED machine, obj'.id = obj.id, obj'.attempt = obj.attempt,
           pc' \notin {"record", "resume"} \/ UNCHANGED <<pc, inst, state>>
    PROVE  NamesOK'
<1>1. Kept' = Kept
  BY SameMachines
<1> QED
  BY <1>1 DEF NamesOK, MadeFor

(* What a step of the node does to the number of its attempt: nothing, or  *)
(* the next attempt begins with nothing to pay for.                        *)
AttemptStep ==
    \/ obj'.attempt = obj.attempt
    \/ obj'.attempt = obj.attempt + 1 /\ Kept' = {}

(* What a step does to what the node pays for.                             *)
PayStep ==
    \/ Kept' \subseteq Kept /\ obj'.here = obj.here /\ obj'.abandon = obj.abandon
    \/ /\ obj.here /\ Kept = {} /\ (\E m \in Machine : Kept' = {m})
       /\ obj'.here = obj.here /\ obj'.abandon = obj.abandon
    \/ obj.here /\ obj'.abandon /\ Kept' = Kept /\ obj'.here = obj.here
    \/ /\ obj.here /\ (Kept = {} \/ obj.abandon)
       /\ ~obj'.here /\ Kept' = Kept /\ obj'.abandon = obj.abandon

LeaseStep == LeaseInv' /\ AttemptStep /\ PayStep

-----------------------------------------------------------------------------
(* A status patch that leaves name, id and attempt alone.                  *)
LEMMA PatchKeeps ==
    ASSUME Quiet, LeaseInv, pc # "idle", UNCHANGED machine,
           pc' \notin {"record", "resume"},
           NEW r, NEW ph, PatchStatus(r),
           Becomes(r, copy, ph, copy.attempt, copy.named, copy.id)
    PROVE  /\ Synced' /\ MachinesOK' /\ Kept' = Kept /\ Accounted' /\ NamesOK' /\ CopyOK'
           /\ obj'.here /\ obj'.finalizer /\ obj'.phase = ph
           /\ obj'.attempt = obj.attempt /\ obj'.named = obj.named /\ obj'.id = obj.id
           /\ copy'.attempt = obj.attempt
           /\ AttemptStep /\ PayStep
<1>1. Synced /\ MachinesOK /\ Accounted /\ NamesOK /\ CopyOK
  BY LeaseParts
<1>2. /\ obj.here /\ copy.attempt = obj.attempt /\ copy.named = obj.named /\ copy.id = obj.id
      /\ fresh => copy = obj
  BY <1>1 DEF CopyOK
<1>3. /\ Synced' /\ obj'.here /\ obj'.finalizer
      /\ obj'.phase = r.phase /\ obj'.attempt = r.attempt
      /\ obj'.named = r.named /\ obj'.id = r.id
      /\ copy' = r /\ (copy'.abandon => obj'.abandon) /\ (fresh' => copy' = obj')
  BY <1>1, QuietPatch DEF Becomes
<1>4. Kept' = Kept /\ MachinesOK'
  BY <1>1, SameMachines
<1>5. Accounted'
  BY <1>1, <1>2, <1>3, <1>4 DEF Accounted, Leads, Becomes
<1>6. CopyOK'
  BY <1>3 DEF CopyOK
<1>7. obj'.abandon = obj.abandon
  <2>1. CASE r = copy
    BY <2>1 DEF PatchStatus, apiVars
  <2>2. CASE r # copy
    BY <2>2, <1>2 DEF PatchStatus, Write, Becomes
  <2> QED
    BY <2>1, <2>2
<1>8. AttemptStep
  BY <1>2, <1>3 DEF AttemptStep, Becomes
<1>9. PayStep
  <2>1. obj'.here = obj.here
    <3>1. CASE r = copy
      BY <3>1 DEF PatchStatus, apiVars
    <3>2. CASE r # copy
      BY <3>2, <1>2 DEF PatchStatus, Write, Becomes
    <3> QED
      BY <3>1, <3>2
  <2> QED
    BY <2>1, <1>4, <1>7 DEF PayStep
<1>10. NamesOK'
  BY <1>1, <1>2, <1>3, NamesKeep DEF Becomes
<1> QED
  BY <1>2, <1>3, <1>4, <1>5, <1>6, <1>8, <1>9, <1>10 DEF Becomes

(* The steps of a pass that patch the status.                              *)
LEMMA PatchStepLease ==
    ASSUME Quiet, LeaseInv, TypeInv',
           \/ cloudStart \/ waitCloudProblem \/ recordMachine \/ noteState
           \/ noteOpen \/ setJoining \/ markNodeReady \/ rejoin
           \/ noteClosed \/ noteGivenUp \/ handleRetry
    PROVE  LeaseStep
<1>1. TypeInv /\ Synced /\ MachinesOK /\ Accounted /\ StatusOK /\ NamesOK /\ CopyOK /\ CallsOK
  BY LeaseParts
<1>2. copy \in Node /\ PassOK
  BY <1>1 DEF TypeInv, TypeOK
<1>3. UNCHANGED machine
  BY DEF cloudStart, waitCloudProblem, recordMachine, noteState, noteOpen, setJoining,
     markNodeReady, rejoin, noteClosed, noteGivenUp, handleRetry, cloudVars
<1>4. Kept' = Kept /\ MachinesOK'
  BY <1>1, <1>3, SameMachines
<1>5. CASE waitCloudProblem
  <2>1. pc = "noteProblem" /\ PatchStatus(ProblemStatus(copy)) /\ copy.phase = obj.phase
    BY <1>1, <1>5 DEF waitCloudProblem, CopyOK
  <2>7. pc' \notin {"record", "resume"}
    BY <1>1, <1>5 DEF waitCloudProblem
  <2>2. Becomes(ProblemStatus(copy), copy, copy.phase, copy.attempt, copy.named, copy.id)
    BY <1>2, StatusFields
  <2>3. /\ Synced' /\ MachinesOK' /\ Accounted' /\ NamesOK' /\ CopyOK' /\ AttemptStep /\ PayStep
        /\ obj'.here /\ obj'.finalizer /\ obj'.phase = copy.phase
        /\ obj'.attempt = obj.attempt /\ obj'.named = obj.named /\ obj'.id = obj.id
        /\ copy'.attempt = obj.attempt
    BY <1>3, <2>1, <2>2, <2>7, PatchKeeps
  <2>5. StatusOK'
    BY <1>1, <2>1, <2>3 DEF StatusOK, CallsOK
  <2>6. CallsOK'
    BY <1>1, <1>4, <1>5, <2>1, <2>3 DEF waitCloudProblem, CallsOK, Nameless, Working
  <2> QED
    BY <2>3, <2>5, <2>6, LeaseParts DEF LeaseStep
<1>6. CASE noteState
  <2>1. pc = "state" /\ PatchStatus(SeenStatus(copy)) /\ copy.phase = obj.phase
    BY <1>1, <1>6 DEF noteState, CopyOK
  <2>7. pc' \notin {"record", "resume"}
    BY <1>1, <1>6 DEF noteState
  <2>2. Becomes(SeenStatus(copy), copy, copy.phase, copy.attempt, copy.named, copy.id)
    BY <1>2, StatusFields
  <2>3. /\ Synced' /\ MachinesOK' /\ Accounted' /\ NamesOK' /\ CopyOK' /\ AttemptStep /\ PayStep
        /\ obj'.here /\ obj'.finalizer /\ obj'.phase = copy.phase
        /\ obj'.attempt = obj.attempt /\ obj'.named = obj.named /\ obj'.id = obj.id
        /\ copy'.attempt = obj.attempt
    BY <1>3, <2>1, <2>2, <2>7, PatchKeeps
  <2>5. StatusOK'
    BY <1>1, <2>1, <2>3 DEF StatusOK, CallsOK
  <2>6. CallsOK'
    BY <1>1, <1>4, <1>6, <2>1, <2>3 DEF noteState, CallsOK, Nameless, Working
  <2> QED
    BY <2>3, <2>5, <2>6, LeaseParts DEF LeaseStep
<1>7. CASE noteOpen
  <2>1. pc = "noteOpen" /\ PatchStatus(OpenedStatus(copy)) /\ copy.phase = obj.phase
    BY <1>1, <1>7 DEF noteOpen, CopyOK
  <2>7. pc' \notin {"record", "resume"}
    BY <1>1, <1>7 DEF noteOpen
  <2>2. Becomes(OpenedStatus(copy), copy, copy.phase, copy.attempt, copy.named, copy.id)
    BY <1>2, StatusFields
  <2>3. /\ Synced' /\ MachinesOK' /\ Accounted' /\ NamesOK' /\ CopyOK' /\ AttemptStep /\ PayStep
        /\ obj'.here /\ obj'.finalizer /\ obj'.phase = copy.phase
        /\ obj'.attempt = obj.attempt /\ obj'.named = obj.named /\ obj'.id = obj.id
        /\ copy'.attempt = obj.attempt
    BY <1>3, <2>1, <2>2, <2>7, PatchKeeps
  <2>5. StatusOK'
    BY <1>1, <2>1, <2>3 DEF StatusOK, CallsOK
  <2>6. CallsOK'
    BY <1>1, <1>4, <1>7, <2>1, <2>3 DEF noteOpen, CallsOK, Nameless, Working
  <2> QED
    BY <2>3, <2>5, <2>6, LeaseParts DEF LeaseStep
<1>8. CASE setJoining
  <2>1. pc = "setJoining" /\ PatchStatus(JoiningStatus(copy)) /\ copy.phase = obj.phase
    BY <1>1, <1>8 DEF setJoining, CopyOK
  <2>7. pc' \notin {"record", "resume"}
    BY <1>1, <1>8 DEF setJoining
  <2>2. Becomes(JoiningStatus(copy), copy, "Joining", copy.attempt, copy.named, copy.id)
    BY <1>2, StatusFields
  <2>3. /\ Synced' /\ MachinesOK' /\ Accounted' /\ NamesOK' /\ CopyOK' /\ AttemptStep /\ PayStep
        /\ obj'.here /\ obj'.finalizer /\ obj'.phase = "Joining"
        /\ obj'.attempt = obj.attempt /\ obj'.named = obj.named /\ obj'.id = obj.id
        /\ copy'.attempt = obj.attempt
    BY <1>3, <2>1, <2>2, <2>7, PatchKeeps
  <2>4. obj.id # NoMachine
    BY <1>1, <1>2, <2>1, ConstantsAssumption DEF CallsOK, Working, PassOK, HasInst
  <2>5. StatusOK'
    BY <1>1, <2>1, <2>3, <2>4 DEF StatusOK, CallsOK
  <2>6. CallsOK'
    BY <1>1, <1>4, <1>8, <2>1, <2>3, <2>4 DEF setJoining, CallsOK, Nameless, Working
  <2> QED
    BY <2>3, <2>5, <2>6, LeaseParts DEF LeaseStep
<1>9. CASE markNodeReady
  <2>1. pc = "markReady" /\ PatchStatus(ReadyStatus(copy)) /\ copy.phase = obj.phase
    BY <1>1, <1>9 DEF markNodeReady, CopyOK
  <2>7. pc' \notin {"record", "resume"}
    BY <1>1, <1>9 DEF markNodeReady
  <2>2. Becomes(ReadyStatus(copy), copy, "Ready", copy.attempt, copy.named, copy.id)
    BY <1>2, StatusFields
  <2>3. /\ Synced' /\ MachinesOK' /\ Accounted' /\ NamesOK' /\ CopyOK' /\ AttemptStep /\ PayStep
        /\ obj'.here /\ obj'.finalizer /\ obj'.phase = "Ready"
        /\ obj'.attempt = obj.attempt /\ obj'.named = obj.named /\ obj'.id = obj.id
        /\ copy'.attempt = obj.attempt
    BY <1>3, <2>1, <2>2, <2>7, PatchKeeps
  <2>5. StatusOK'
    BY <1>1, <2>1, <2>3 DEF StatusOK, CallsOK
  <2>6. CallsOK'
    BY <1>1, <1>4, <1>9, <2>1, <2>3 DEF markNodeReady, CallsOK, Nameless, Working
  <2> QED
    BY <2>3, <2>5, <2>6, LeaseParts DEF LeaseStep
<1>10. CASE rejoin
  <2>1. pc = "rejoin" /\ PatchStatus(RejoinStatus(copy)) /\ copy.phase = obj.phase
    BY <1>1, <1>10 DEF rejoin, CopyOK
  <2>7. pc' \notin {"record", "resume"}
    BY <1>1, <1>10 DEF rejoin
  <2>2. Becomes(RejoinStatus(copy), copy, "Creating", copy.attempt, copy.named, copy.id)
    BY <1>2, StatusFields
  <2>3. /\ Synced' /\ MachinesOK' /\ Accounted' /\ NamesOK' /\ CopyOK' /\ AttemptStep /\ PayStep
        /\ obj'.here /\ obj'.finalizer /\ obj'.phase = "Creating"
        /\ obj'.attempt = obj.attempt /\ obj'.named = obj.named /\ obj'.id = obj.id
        /\ copy'.attempt = obj.attempt
    BY <1>3, <2>1, <2>2, <2>7, PatchKeeps
  <2>5. StatusOK'
    BY <1>1, <2>1, <2>3 DEF StatusOK, CallsOK
  <2>6. CallsOK'
    BY <1>1, <1>4, <1>10, <2>1, <2>3 DEF rejoin, CallsOK, Nameless, Working
  <2> QED
    BY <2>3, <2>5, <2>6, LeaseParts DEF LeaseStep
<1>11. CASE noteClosed
  <2>1. pc = "unnote" /\ PatchStatus(ClosedStatus(copy)) /\ copy.phase = obj.phase
    BY <1>1, <1>11 DEF noteClosed, CopyOK
  <2>4. why \in {"replace", "fail", "delete"}
    BY <1>2, <2>1 DEF PassOK, GivingUp
  <2>7. pc' \notin {"record", "resume"}
    BY <1>1, <1>11, <2>4 DEF noteClosed, AfterClose
  <2>2. Becomes(ClosedStatus(copy), copy, copy.phase, copy.attempt, copy.named, copy.id)
    BY <1>2, StatusFields
  <2>3. /\ Synced' /\ MachinesOK' /\ Accounted' /\ NamesOK' /\ CopyOK' /\ AttemptStep /\ PayStep
        /\ obj'.here /\ obj'.finalizer /\ obj'.phase = copy.phase
        /\ obj'.attempt = obj.attempt /\ obj'.named = obj.named /\ obj'.id = obj.id
        /\ copy'.attempt = obj.attempt
    BY <1>3, <2>1, <2>2, <2>7, PatchKeeps
  <2>5. StatusOK'
    BY <1>1, <2>1, <2>3, <2>4 DEF StatusOK, CallsOK
  <2>6. CallsOK'
    BY <1>1, <1>4, <1>11, <2>1, <2>3, <2>4 DEF noteClosed, CallsOK, Nameless, Working, AfterClose
  <2> QED
    BY <2>3, <2>5, <2>6, LeaseParts DEF LeaseStep
<1>12. CASE handleRetry
  <2>1. pc = "retry" /\ PatchStatus(RetriedStatus(copy)) /\ copy.phase = obj.phase
    BY <1>1, <1>12 DEF handleRetry, CopyOK
  <2>7. pc' \notin {"record", "resume"}
    BY <1>1, <1>12 DEF handleRetry
  <2>2. Becomes(RetriedStatus(copy), copy, "Pending", copy.attempt, copy.named, copy.id)
    BY <1>2, StatusFields
  <2>3. /\ Synced' /\ MachinesOK' /\ Accounted' /\ NamesOK' /\ CopyOK' /\ AttemptStep /\ PayStep
        /\ obj'.here /\ obj'.finalizer /\ obj'.phase = "Pending"
        /\ obj'.attempt = obj.attempt /\ obj'.named = obj.named /\ obj'.id = obj.id
        /\ copy'.attempt = obj.attempt
    BY <1>3, <2>1, <2>2, <2>7, PatchKeeps
  <2>5. StatusOK'
    BY <1>1, <2>1, <2>3 DEF StatusOK, CallsOK
  <2>6. CallsOK'
    BY <1>1, <1>4, <1>12, <2>1, <2>3 DEF handleRetry, CallsOK, Nameless, Working
  <2> QED
    BY <2>3, <2>5, <2>6, LeaseParts DEF LeaseStep
<1>13. CASE cloudStart
  <2> DEFINE r == StartedStatus(copy)
  <2>1. pc = "start" /\ PatchStatus(r) /\ obj.here /\ obj.attempt = att
        /\ copy.phase = obj.phase /\ copy.attempt = obj.attempt
        /\ copy.named = obj.named /\ copy.id = obj.id
    BY <1>1, <1>13 DEF cloudStart, CopyOK, CallsOK
  <2>2. /\ r.here = copy.here /\ r.finalizer = copy.finalizer /\ r.abandon = copy.abandon
        /\ r.phase = "Creating" /\ r.attempt = att /\ r.named = TRUE /\ r.id = NoMachine
    BY <1>2, StatusFields DEF Becomes
  <2> HIDE DEF r
  <2>3. /\ Synced' /\ obj'.here /\ obj'.finalizer
        /\ obj'.phase = r.phase /\ obj'.attempt = r.attempt
        /\ obj'.named = r.named /\ obj'.id = r.id
        /\ copy' = r /\ (copy'.abandon => obj'.abandon) /\ (fresh' => copy' = obj')
    BY <1>1, <2>1, <2>2, QuietPatch
  <2>4. obj'.here = obj.here /\ obj'.abandon = obj.abandon
    <3>1. CASE r = copy
      BY <3>1, <2>1 DEF PatchStatus, apiVars
    <3>2. CASE r # copy
      BY <3>2, <1>1, <2>1, <2>2 DEF PatchStatus, Write, CopyOK
    <3> QED
      BY <3>1, <3>2
  <2>5. Accounted'
    BY <1>1, <1>3, <1>4, <2>1, <2>2, <2>3 DEF Accounted, Leads, CallsOK
  <2>6. StatusOK'
    BY <2>2, <2>3 DEF StatusOK
  <2>7. CopyOK'
    BY <2>3 DEF CopyOK
  <2>8. CallsOK'
    BY <1>1, <1>4, <1>13, <2>1, <2>2, <2>3 DEF cloudStart, CallsOK, Nameless, Working
  <2>9. AttemptStep /\ PayStep
    BY <1>1, <1>4, <2>1, <2>2, <2>3, <2>4 DEF AttemptStep, PayStep, CallsOK
  <2>10. NamesOK'
    <3>1. pc' = "idle"
      BY <1>13 DEF cloudStart
    <3> QED
      BY <2>2, <2>3, <3>1 DEF NamesOK
  <2> QED
    BY <1>4, <2>3, <2>5, <2>6, <2>7, <2>8, <2>9, <2>10, LeaseParts DEF LeaseStep
<1>14. CASE recordMachine
  <2> DEFINE r == RecordedStatus(copy)
  <2>1. pc = "record" /\ PatchStatus(r) /\ obj.here /\ obj.attempt = att
        /\ copy.phase = obj.phase /\ copy.attempt = obj.attempt
        /\ copy.named = obj.named /\ copy.id = obj.id
    BY <1>1, <1>14 DEF recordMachine, CopyOK, CallsOK
  <2>2. /\ r.here = copy.here /\ r.finalizer = copy.finalizer /\ r.abandon = copy.abandon
        /\ r.phase = copy.phase /\ r.attempt = copy.attempt /\ r.named = copy.named /\ r.id = inst
    BY <1>2, StatusFields DEF Becomes
  <2> HIDE DEF r
  <2>3. /\ Synced' /\ obj'.here /\ obj'.finalizer
        /\ obj'.phase = r.phase /\ obj'.attempt = r.attempt
        /\ obj'.named = r.named /\ obj'.id = r.id
        /\ copy' = r /\ (copy'.abandon => obj'.abandon) /\ (fresh' => copy' = obj')
    BY <1>1, <2>1, <2>2, QuietPatch
  <2>4. obj'.here = obj.here /\ obj'.abandon = obj.abandon
    <3>1. CASE r = copy
      BY <3>1, <2>1 DEF PatchStatus, apiVars
    <3>2. CASE r # copy
      BY <3>2, <1>1, <2>1, <2>2 DEF PatchStatus, Write, CopyOK
    <3> QED
      BY <3>1, <3>2
  <2>5. Accounted'
    BY <1>1, <1>4, <2>1, <2>2, <2>3 DEF Accounted, Leads, CallsOK
  <2>6. StatusOK'
    <3>1. inst # NoMachine
      BY <1>2, <2>1, ConstantsAssumption DEF PassOK, HasInst
    <3>2. obj.named /\ obj.phase # "Pending"
      BY <1>1, <2>1 DEF CallsOK, Nameless
    <3> QED
      BY <1>1, <2>1, <2>2, <2>3, <3>1, <3>2 DEF StatusOK
  <2>7. CopyOK'
    BY <2>3 DEF CopyOK
  <2>8. CallsOK'
    BY <1>1, <1>4, <1>14, <2>1, <2>2, <2>3 DEF recordMachine, CallsOK, Nameless, Working
  <2>9. AttemptStep /\ PayStep
    BY <1>1, <1>4, <2>1, <2>2, <2>3, <2>4 DEF AttemptStep, PayStep, CallsOK
  <2>10. NamesOK'
    <3>1. /\ pc' = "resume" => pc = "record" /\ state = "stopped"
          /\ pc' # "record" /\ UNCHANGED <<inst, state>>
      BY <1>14 DEF recordMachine
    <3> QED
      BY <1>1, <1>3, <1>4, <2>1, <2>2, <2>3, <3>1 DEF NamesOK, MadeFor
  <2> QED
    BY <1>4, <2>3, <2>5, <2>6, <2>7, <2>8, <2>9, <2>10, LeaseParts DEF LeaseStep
<1>15. CASE noteGivenUp
  <2> DEFINE r == GivenUpStatus(copy)
  <2>1. pc = "note" /\ PatchStatus(r) /\ obj.here /\ obj.attempt = att
        /\ copy.phase = obj.phase /\ copy.attempt = obj.attempt
        /\ copy.named = obj.named /\ copy.id = obj.id
    BY <1>1, <1>15 DEF noteGivenUp, CopyOK, CallsOK
  <2>2. /\ r.here = copy.here /\ r.finalizer = copy.finalizer /\ r.abandon = copy.abandon
        /\ r.phase = (IF why = "replace" THEN "Pending" ELSE copy.phase)
        /\ r.attempt = att + 1 /\ r.named = FALSE /\ r.id = NoMachine
    BY <1>2, StatusFields DEF Becomes
  <2> HIDE DEF r
  <2>3. /\ Synced' /\ obj'.here /\ obj'.finalizer
        /\ obj'.phase = r.phase /\ obj'.attempt = r.attempt
        /\ obj'.named = r.named /\ obj'.id = r.id
        /\ copy' = r /\ (copy'.abandon => obj'.abandon) /\ (fresh' => copy' = obj')
    BY <1>1, <2>1, <2>2, QuietPatch
  <2>4. obj'.here = obj.here /\ obj'.abandon = obj.abandon
    <3>1. CASE r = copy
      BY <3>1, <2>1 DEF PatchStatus, apiVars
    <3>2. CASE r # copy
      BY <3>2, <1>1, <2>1, <2>2 DEF PatchStatus, Write, CopyOK
    <3> QED
      BY <3>1, <3>2
  <2>5. Accounted'
    BY <1>1, <1>4, <2>1 DEF Accounted, CallsOK
  <2>6. StatusOK'
    <3>1. why = "replace" \/ copy.phase = "Failed"
      BY <1>1, <1>2, <2>1 DEF CallsOK, PassOK, GivingUp
    <3> QED
      BY <2>2, <2>3, <3>1 DEF StatusOK
  <2>7. CopyOK'
    BY <2>3 DEF CopyOK
  <2>8. CallsOK'
    BY <1>1, <1>4, <1>15, <2>1, <2>2, <2>3 DEF noteGivenUp, CallsOK, Nameless, Working
  <2>9. AttemptStep /\ PayStep
    BY <1>1, <1>4, <2>1, <2>2, <2>3, <2>4 DEF AttemptStep, PayStep, CallsOK
  <2>10. NamesOK'
    <3>1. pc' \in {"retry", "idle"}
      BY <1>15 DEF noteGivenUp
    <3> QED
      BY <2>2, <2>3, <3>1 DEF NamesOK
  <2> QED
    BY <1>4, <2>3, <2>5, <2>6, <2>7, <2>8, <2>9, <2>10, LeaseParts DEF LeaseStep
<1> QED
  BY <1>5, <1>6, <1>7, <1>8, <1>9, <1>10, <1>11, <1>12, <1>13, <1>14, <1>15

-----------------------------------------------------------------------------
(* A call that writes nothing to the node.                                 *)
LEMMA CallKeeps ==
    ASSUME LeaseInv, pc # "idle", UNCHANGED <<obj, cache, watch, copy, fresh>>
    PROVE  Synced' /\ StatusOK' /\ CopyOK' /\ AttemptStep
  BY DEF LeaseInv, Synced, StatusOK, CopyOK, AttemptStep

(* The machine of an attempt is the one the provider shows by its name.    *)
LEMMA ShownByName ==
    ASSUME LeaseInv, pc # "idle", obj.id = NoMachine
    PROVE  /\ \A m \in Machine : Alive(m) /\ machine[m].name = obj.attempt => Kept \subseteq {m}
           /\ \A m \in Listed(obj.attempt) : m \in Machine /\ Kept \subseteq {m}
           /\ Listed(obj.attempt) = {} => Kept = {}
           /\ (\A m \in Machine : ~(Alive(m) /\ machine[m].name = obj.attempt)) => Kept = {}
           /\ ~obj.named => Kept = {}
<1>1. obj.here
  BY DEF LeaseInv, CopyOK
<1>2. \A m \in Kept : m \in Machine /\ m # NoMachine /\ Alive(m) /\ machine[m].shown
  BY ConstantsAssumption DEF LeaseInv, Kept, Alive, AllShown
<1>3. \A m \in Kept : obj.named /\ machine[m].name = obj.attempt
  BY <1>1, <1>2 DEF LeaseInv, Accounted, Leads
<1>4. OneAlivePerName
  BY DEF LeaseInv
<1>5. \A m \in Machine : Alive(m) /\ machine[m].name = obj.attempt => Kept \subseteq {m}
  BY <1>2, <1>3, <1>4 DEF OneAlivePerName
<1>6. \A m \in Listed(obj.attempt) : m \in Machine /\ Kept \subseteq {m}
  BY <1>5 DEF Listed
<1>7. Listed(obj.attempt) = {} => Kept = {}
  BY <1>2, <1>3 DEF Listed
<1> QED
  BY <1>2, <1>3, <1>5, <1>6, <1>7

(* A node whose status has an id pays for no other machine.                *)
LEMMA PaysById ==
    ASSUME LeaseInv, obj.here, obj.id # NoMachine
    PROVE  Kept \subseteq {obj.id}
  BY DEF LeaseInv, Accounted, Leads

(* The calls that leave the provider's machines alone.                     *)
LEMMA CallStepLease ==
    ASSUME LeaseInv, cluster, TypeInv', NEW ok \in BOOLEAN,
           \/ findMachine \/ cloudCreateFailed \/ getMachine
           \/ openControlPlane(ok) \/ openControlPlaneFailed
           \/ cloudJoinRefused \/ cloudJoin \/ cloudJoining \/ cloudReady \/ drain
           \/ removeKubernetesNode \/ findMachineToDelete
           \/ closeControlPlane(ok) \/ Return
    PROVE  LeaseStep
<1>1. TypeInv /\ Synced /\ MachinesOK /\ Accounted /\ StatusOK /\ NamesOK /\ CopyOK /\ CallsOK
  BY LeaseParts
<1>2. pc # "idle"
  BY DEF findMachine, cloudCreateFailed, getMachine, openControlPlane, openControlPlaneFailed,
     cloudJoinRefused, cloudJoin, cloudJoining, cloudReady, drain, removeKubernetesNode,
     findMachineToDelete, closeControlPlane, Return
<1>3. UNCHANGED <<obj, cache, watch, copy, fresh, machine>>
  BY DEF findMachine, cloudCreateFailed, getMachine, openControlPlane, openControlPlaneFailed,
     cloudJoinRefused, cloudJoin, cloudJoining, cloudReady, drain, removeKubernetesNode,
     findMachineToDelete, closeControlPlane, Return, Goto, apiVars, cloudVars
<1>4. Kept' = Kept /\ MachinesOK'
  BY <1>1, <1>3, SameMachines
<1>5. Accounted' /\ PayStep
  BY <1>1, <1>3, <1>4 DEF Accounted, Leads, PayStep
<1>6. Synced' /\ StatusOK' /\ CopyOK' /\ AttemptStep
  BY <1>2, <1>3, CallKeeps
<1>7. SUFFICES CallsOK' /\ NamesOK'
  BY <1>4, <1>5, <1>6, LeaseParts DEF LeaseStep
<1>8. /\ obj.here /\ copy.phase = obj.phase /\ copy.attempt = obj.attempt
      /\ copy.named = obj.named /\ copy.id = obj.id
  BY <1>1, <1>2 DEF CopyOK
<1>9. copy.named \in BOOLEAN /\ PassOK /\ copy.abandon \in BOOLEAN
  BY <1>1 DEF TypeInv, TypeOK, Node
<1>10. CASE findMachine
  <2>1. pc = "find" /\ obj.id = NoMachine /\ obj.named
    BY <1>1, <1>10 DEF findMachine, CallsOK, Nameless
  <2>2. CASE pc' = "create"
    <3>1. NamesOK'
      BY <1>1, <1>3, <2>2, NamesKeep
    <3>2. CallsOK'
      BY <1>1, <1>3, <1>10, <2>1, <2>2 DEF findMachine, CallsOK, Nameless, Working
    <3> QED
      BY <3>1, <3>2
  <2>3. CASE pc' # "create"
    <3>1. /\ inst' \in Listed(obj.attempt) /\ pc' = "record"
          /\ state' = "stopped" => machine[inst'].st = "stopped"
      BY <1>8, <1>10, <2>3 DEF findMachine, Take
    <3>2. Kept \subseteq {inst'}
      BY <1>2, <2>1, <3>1, ShownByName
    <3>3. CallsOK'
      BY <1>1, <1>3, <1>4, <1>10, <2>1, <3>1, <3>2 DEF findMachine, CallsOK, Nameless, Working
    <3>4. inst' \in Machine /\ Alive(inst') /\ machine[inst'].name = obj.attempt
      BY <3>1 DEF Listed
    <3>5. NamesOK'
      BY <1>1, <1>3, <1>4, <3>1, <3>4 DEF NamesOK, MadeFor, Alive, Kept
    <3> QED
      BY <3>3, <3>5
  <2> QED
    BY <2>2, <2>3
<1>11. CASE cloudCreateFailed
  <2>1. pc' \notin {"record", "resume"}
    BY <1>11 DEF cloudCreateFailed, Goto
  <2>2. NamesOK'
    BY <1>1, <1>3, <2>1, NamesKeep
  <2>3. CallsOK'
    BY <1>1, <1>3, <1>4, <1>8, <1>11 DEF cloudCreateFailed, Goto, CallsOK, Nameless, Working
  <2> QED
    BY <2>2, <2>3
<1>12. CASE getMachine
  <2>1. \/ /\ inst' = copy.id /\ pc' \in {"resume", "state"}
           /\ pc' = "resume" => machine[copy.id].st = "stopped" /\ state' = "stopped"
        \/ pc' = "setFailed"
    BY <1>12 DEF getMachine, Take
  <2>2. CallsOK'
    BY <1>1, <1>3, <1>4, <1>8, <1>12, <2>1 DEF getMachine, CallsOK, Nameless, Working
  <2>3. copy.id \in Machine
    BY <1>9, <1>12 DEF getMachine, PassOK
  <2>4. pc' = "resume" => inst' \in Kept
    BY <2>1, <2>3 DEF Kept
  <2>5. NamesOK'
    BY <1>1, <1>3, <1>4, <2>1, <2>4 DEF NamesOK, MadeFor
  <2> QED
    BY <2>2, <2>5
<1>13. CASE openControlPlane(ok)
  <2>1. pc' \notin {"record", "resume"}
    BY <1>13 DEF openControlPlane, Goto
  <2>2. NamesOK'
    BY <1>1, <1>3, <2>1, NamesKeep
  <2>3. CallsOK'
    BY <1>1, <1>3, <1>4, <1>8, <1>13 DEF openControlPlane, Goto, CallsOK, Nameless, Working
  <2> QED
    BY <2>2, <2>3
<1>14. CASE openControlPlaneFailed
  <2>1. pc' \notin {"record", "resume"}
    BY <1>14 DEF openControlPlaneFailed, Goto
  <2>2. NamesOK'
    BY <1>1, <1>3, <2>1, NamesKeep
  <2>3. CallsOK'
    BY <1>1, <1>3, <1>4, <1>8, <1>14 DEF openControlPlaneFailed, Goto, CallsOK, Nameless, Working
  <2> QED
    BY <2>2, <2>3
<1>15. CASE cloudJoinRefused
  <2>1. pc' \notin {"record", "resume"}
    BY <1>15 DEF cloudJoinRefused, Goto
  <2>2. NamesOK'
    BY <1>1, <1>3, <2>1, NamesKeep
  <2>3. CallsOK'
    BY <1>1, <1>3, <1>4, <1>8, <1>15 DEF cloudJoinRefused, Goto, CallsOK, Nameless, Working
  <2> QED
    BY <2>2, <2>3
<1>16. CASE cloudJoin
  <2>1. pc' \notin {"record", "resume"}
    BY <1>16 DEF cloudJoin, Goto
  <2>2. NamesOK'
    BY <1>1, <1>3, <2>1, NamesKeep
  <2>3. CallsOK'
    BY <1>1, <1>3, <1>4, <1>8, <1>16 DEF cloudJoin, Goto, CallsOK, Nameless, Working
  <2> QED
    BY <2>2, <2>3
<1>17. CASE cloudJoining
  <2>1. pc' \notin {"record", "resume"}
    BY <1>17 DEF cloudJoining, Goto
  <2>2. NamesOK'
    BY <1>1, <1>3, <2>1, NamesKeep
  <2>3. CallsOK'
    BY <1>1, <1>3, <1>4, <1>8, <1>17 DEF cloudJoining, Goto, CallsOK, Nameless, Working
  <2> QED
    BY <2>2, <2>3
<1>18. CASE cloudReady
  <2>1. pc' \notin {"record", "resume"}
    BY <1>18 DEF cloudReady, Goto
  <2>2. NamesOK'
    BY <1>1, <1>3, <2>1, NamesKeep
  <2>3. CallsOK'
    BY <1>1, <1>3, <1>4, <1>8, <1>18 DEF cloudReady, Goto, CallsOK, Nameless, Working
  <2> QED
    BY <2>2, <2>3
<1>19. CASE drain
  <2>1. pc' \notin {"record", "resume"}
    BY <1>19 DEF drain, Goto
  <2>2. NamesOK'
    BY <1>1, <1>3, <2>1, NamesKeep
  <2>3. CallsOK'
    BY <1>1, <1>3, <1>4, <1>8, <1>19 DEF drain, Goto, CallsOK, Nameless, Working
  <2> QED
    BY <2>2, <2>3
<1>20. CASE removeKubernetesNode
  <2>1. /\ pc = "unlist" /\ pc' = AfterUnlist /\ inst' = copy.id /\ att' = copy.attempt
        /\ UNCHANGED why
    BY <1>20 DEF removeKubernetesNode
  <2>2. why \in {"replace", "fail", "delete"}
    BY <1>9, <2>1 DEF PassOK, GivingUp
  <2>3. obj.id # NoMachine => Kept \subseteq {obj.id}
    BY <1>8, PaysById
  <2>4. obj.id = NoMachine /\ ~obj.named => Kept = {}
    BY <1>2, ShownByName
  <2>8. SUFFICES CallsOK'
    <3>1. pc' \notin {"record", "resume"}
      BY <2>1, <2>2 DEF AfterUnlist, AfterDelete, AfterClose
    <3> QED
      BY <1>1, <1>3, <3>1, NamesKeep
  <2>5. CASE why = "fail"
    <3>1. pc' = "note"
      BY <2>1, <2>5 DEF AfterUnlist
    <3> QED
      BY <1>1, <1>3, <1>4, <1>8, <2>1, <2>5, <3>1 DEF CallsOK, Nameless, Working
  <2>6. CASE why = "replace"
    <3>1. obj.id # NoMachine
      BY <1>1, <2>1, <2>6 DEF CallsOK
    <3>2. pc' = "delete"
      BY <1>8, <2>1, <2>6, <3>1 DEF AfterUnlist
    <3> QED
      BY <1>1, <1>3, <1>4, <1>8, <2>1, <2>3, <2>6, <3>1, <3>2 DEF CallsOK, Nameless, Working
  <2>7. CASE why = "delete"
    <3>1. \/ pc' = "letGo" /\ copy.abandon
          \/ pc' = "delete" /\ obj.id # NoMachine
          \/ pc' = "find2" /\ obj.id = NoMachine /\ obj.named
          \/ pc' \in {"close", "letGo"} /\ obj.id = NoMachine /\ ~obj.named
      BY <1>8, <1>9, <2>1, <2>7 DEF AfterUnlist, AfterDelete, AfterClose
    <3> QED
      BY <1>1, <1>3, <1>4, <1>8, <2>1, <2>3, <2>4, <2>7, <3>1 DEF CallsOK, Nameless, Working
  <2> QED
    BY <2>2, <2>5, <2>6, <2>7
<1>21. CASE findMachineToDelete
  <2>1. pc = "find2" /\ obj.id = NoMachine /\ why = "delete" /\ UNCHANGED <<att, why>>
    BY <1>1, <1>21 DEF findMachineToDelete, CallsOK, Nameless
  <2>4. SUFFICES CallsOK'
    <3>1. pc' \notin {"record", "resume"}
      BY <1>21, <2>1 DEF findMachineToDelete, AfterDelete, AfterClose
    <3> QED
      BY <1>1, <1>3, <3>1, NamesKeep
  <2>2. CASE pc' = "delete" /\ inst' \in Listed(obj.attempt)
    <3>1. Kept \subseteq {inst'}
      BY <1>2, <2>1, <2>2, ShownByName
    <3> QED
      BY <1>1, <1>3, <1>4, <2>1, <2>2, <3>1 DEF CallsOK, Nameless, Working
  <2>3. CASE pc' = AfterDelete /\ Listed(obj.attempt) = {}
    <3>1. Kept = {}
      BY <1>2, <2>1, <2>3, ShownByName
    <3>2. pc' \in {"close", "letGo"}
      BY <2>1, <2>3 DEF AfterDelete, AfterClose
    <3> QED
      BY <1>1, <1>3, <1>4, <2>1, <3>1, <3>2 DEF CallsOK, Nameless, Working
  <2> QED
    BY <1>8, <1>21, <2>2, <2>3 DEF findMachineToDelete
<1>22. CASE closeControlPlane(ok)
  <2>1. pc' \notin {"record", "resume"}
    BY <1>22 DEF closeControlPlane, Goto
  <2>2. NamesOK'
    BY <1>1, <1>3, <2>1, NamesKeep
  <2>3. CallsOK'
    BY <1>1, <1>3, <1>4, <1>8, <1>22 DEF closeControlPlane, Goto, CallsOK, Nameless, Working
  <2> QED
    BY <2>2, <2>3
<1>23. CASE Return
  <2>1. pc' \notin {"record", "resume"}
    BY <1>23 DEF Return, Goto
  <2>2. NamesOK'
    BY <1>1, <1>3, <2>1, NamesKeep
  <2>3. CallsOK'
    BY <1>1, <1>3, <1>4, <1>8, <1>23 DEF Return, Goto, CallsOK, Nameless, Working
  <2> QED
    BY <2>2, <2>3
<1> QED
  BY <1>10, <1>11, <1>12, <1>13, <1>14, <1>15, <1>16, <1>17, <1>18, <1>19, <1>20, <1>21, <1>22, <1>23

(* The calls that make, start and delete machines.                         *)
LEMMA MachineStepLease ==
    ASSUME Quiet, LeaseInv, TypeInv', NEW ok \in BOOLEAN,
           createMachine(ok) \/ resumeMachine \/ deleteMachine(ok)
    PROVE  LeaseStep
<1>1. TypeInv /\ Synced /\ MachinesOK /\ Accounted /\ StatusOK /\ NamesOK /\ CopyOK /\ CallsOK
  BY LeaseParts
<1>2. pc # "idle" /\ UNCHANGED <<obj, cache, watch, copy, fresh>>
  BY DEF createMachine, resumeMachine, deleteMachine, apiVars
<1>3. Synced' /\ StatusOK' /\ CopyOK' /\ AttemptStep
  BY <1>2, CallKeeps
<1>4. obj.here /\ copy.attempt = obj.attempt
  BY <1>1, <1>2 DEF CopyOK
<1>5. machine \in [Machine -> [st : MachineState, name : Attempts, shown : BOOLEAN]] /\ PassOK
  BY <1>1 DEF TypeInv, TypeOK
<1> DEFINE same == {m \in Machine : Alive(m) /\ machine[m].name = obj.attempt}
<1>6. ASSUME NEW m \in Machine, Create(obj.attempt, m)
      PROVE  \/ /\ m \in same
                /\ \/ UNCHANGED machine
                   \/ machine[m].st = "stopped" /\ machine' = [machine EXCEPT ![m].st = "pending"]
             \/ /\ same = {} /\ machine[m].st = "unused"
                /\ machine' = [machine EXCEPT ![m] =
                                 [st |-> "pending", name |-> obj.attempt, shown |-> TRUE]]
  <2>1. CASE same # {}
    BY <1>6, <2>1, Zenon DEF Create
  <2>2. CASE same = {}
    <3>1. machine[m].st = "unused"
          /\ \E shown \in {TRUE, ~ShowsLate} :
               machine' = [machine EXCEPT ![m] =
                             [st |-> "pending", name |-> obj.attempt, shown |-> shown]]
      BY <1>6, <2>2, Zenon DEF Create
    <3>2. {TRUE, ~ShowsLate} = {TRUE}
      BY DEF Quiet
    <3> QED
      BY <2>2, <3>1, <3>2
  <2> QED
    BY <2>1, <2>2
(* Creating a machine that is there leaves what the node pays for alone.   *)
<1>7. ASSUME NEW m \in same,
             \/ UNCHANGED machine
             \/ machine[m].st = "stopped" /\ machine' = [machine EXCEPT ![m].st = "pending"]
      PROVE  /\ Kept' = Kept /\ MachinesOK' /\ Accounted' /\ PayStep
             /\ \A k \in Machine : /\ machine'[k].name = machine[k].name
                                   /\ machine[k].st # "unused" => machine'[k].st # "unused"
             /\ machine'[m].st \in {machine[m].st, "pending"} /\ Alive(m)
  <2>1. m \in Machine /\ Alive(m)
    OBVIOUS
  <2> HIDE DEF same
  <2>2. \A k \in Machine : /\ machine'[k].name = machine[k].name
                           /\ machine'[k].shown = machine[k].shown
                           /\ \/ machine'[k].st = machine[k].st
                              \/ machine[k].st = "stopped" /\ machine'[k].st = "pending"
    BY <1>5, <1>7, <2>1
  <2>3. Kept' = Kept /\ (\A k \in Machine : Alive(k)' => Alive(k))
    BY <2>2 DEF Kept, Alive
  <2>4. MachinesOK' /\ Accounted'
    BY <1>1, <1>2, <2>2, <2>3, FewerMachines
  <2>5. PayStep
    BY <1>2, <2>3 DEF PayStep
  <2>6. machine'[m].st \in {machine[m].st, "pending"}
    BY <2>1, <2>2
  <2> QED
    BY <2>1, <2>2, <2>3, <2>4, <2>5, <2>6
<1>8. CASE createMachine(ok)
  <2>1. pc = "create" /\ obj.id = NoMachine /\ obj.named /\ obj.phase = "Creating"
    BY <1>1, <1>8 DEF createMachine, CallsOK, Nameless
  <2>2. PICK m \in Machine :
           /\ Create(obj.attempt, m)
           /\ pc' \in {"record", "idle"}
           /\ pc' = "record" => /\ inst' = m
                                /\ state' = "stopped" => machine'[m].st = "stopped"
    BY <1>4, <1>8 DEF createMachine, Take
  <2>3. UNCHANGED <<att, why>>
    BY <1>8 DEF createMachine
  <2>4. CASE m \in same
    <3>1. /\ Kept' = Kept /\ MachinesOK' /\ Accounted' /\ PayStep
          /\ machine'[m].name = obj.attempt /\ machine'[m].st # "unused"
      BY <1>6, <1>7, <2>2, <2>4 DEF Alive
    <3>2. Kept \subseteq {m}
      BY <1>2, <2>1, <2>4, ShownByName
    <3> HIDE DEF same
    <3>3. CallsOK'
      BY <1>1, <1>2, <2>1, <2>2, <2>3, <3>1, <3>2 DEF CallsOK, Nameless, Working
    <3>4. machine'[m].st = "stopped" => m \in Kept'
      BY DEF Kept
    <3>5. NamesOK'
      BY <1>2, <2>1, <2>2, <3>1, <3>4 DEF NamesOK, MadeFor
    <3> QED
      BY <1>3, <3>1, <3>3, <3>5, LeaseParts DEF LeaseStep
  <2>5. CASE m \notin same
    <3>1. /\ same = {} /\ machine[m].st = "unused"
          /\ machine' = [machine EXCEPT ![m] =
                           [st |-> "pending", name |-> obj.attempt, shown |-> TRUE]]
      BY <1>6, <2>2, <2>5
    <3>2. Kept = {}
      BY <1>2, <2>1, <3>1, ShownByName
    <3>3. /\ machine'[m].st = "pending" /\ machine'[m].name = obj.attempt /\ machine'[m].shown
          /\ \A n \in Machine : n # m => machine'[n] = machine[n]
      BY <1>5, <3>1
    <3>4. Kept' = {m}
      BY <3>2, <3>3 DEF Kept
    <3>5. AllShown' /\ AtMostOneKept'
      BY <1>1, <3>3, <3>4 DEF MachinesOK, AllShown, AtMostOneKept
    <3>6. OneAlivePerName'
      <4>1. ASSUME NEW n \in Machine, n # m, Alive(n)'
            PROVE  Alive(n) /\ machine'[n].name # obj.attempt
        BY <4>1, <3>1, <3>3 DEF Alive
      <4> QED
        BY <4>1, <1>1, <3>3 DEF MachinesOK, OneAlivePerName
    <3>7. Accounted'
      BY <1>2, <1>4, <2>1, <3>3, <3>4 DEF Accounted, Leads
    <3>8. PayStep
      BY <1>2, <1>4, <3>2, <3>4 DEF PayStep
    <3> HIDE DEF same
    <3>9. CallsOK'
      BY <1>1, <1>2, <2>1, <2>2, <2>3, <3>4 DEF CallsOK, Nameless, Working
    <3>10. NamesOK'
      BY <1>2, <2>1, <2>2, <3>3, <3>4 DEF NamesOK, MadeFor
    <3> QED
      BY <1>3, <3>5, <3>6, <3>7, <3>8, <3>9, <3>10, LeaseParts DEF LeaseStep, MachinesOK
  <2> QED
    BY <2>4, <2>5
<1>9. CASE resumeMachine
  <2>1. pc = "resume" /\ pc' = "state" /\ obj.id = inst /\ inst \in Machine /\ inst \in Kept
        /\ UNCHANGED <<att, why>>
    BY <1>1, <1>5, <1>9 DEF resumeMachine, PassOK, HasInst, CallsOK, Working, NamesOK
  <2>2. inst \in same /\ inst # NoMachine
    BY <1>1, <2>1, ConstantsAssumption DEF NamesOK, MadeFor, Kept, Alive
  <2>3. ASSUME NEW m \in Machine, Create(obj.attempt, m) PROVE m = inst /\ m \in same
    BY <1>1, <1>6, <2>2, <2>3 DEF MachinesOK, OneAlivePerName
  <2>4. /\ inst' = inst
        /\ \/ UNCHANGED machine
           \/ machine[inst].st = "stopped" /\ machine' = [machine EXCEPT ![inst].st = "pending"]
    <3>1. CASE UNCHANGED <<machine, inst, state>>
      BY <3>1
    <3>2. ASSUME NEW m \in Machine, Create(obj.attempt, m),
                 Take(m, machine'[m].st) \/ UNCHANGED <<inst, state>>
          PROVE  /\ inst' = inst
                 /\ \/ UNCHANGED machine
                    \/ machine[inst].st = "stopped" /\ machine' = [machine EXCEPT ![inst].st = "pending"]
      <4>1. m = inst /\ m \in same
        BY <2>3, <3>2
      <4> QED
        BY <1>6, <3>2, <4>1 DEF Take
    <3> QED
      BY <1>4, <1>9, <3>1, <3>2 DEF resumeMachine
  <2>5. /\ Kept' = Kept /\ MachinesOK' /\ Accounted' /\ PayStep
        /\ \A k \in Machine : /\ machine'[k].name = machine[k].name
                              /\ machine[k].st # "unused" => machine'[k].st # "unused"
    BY <1>7, <2>2, <2>4
  <2> HIDE DEF same
  <2>6. CallsOK'
    BY <1>1, <1>2, <2>1, <2>4, <2>5 DEF CallsOK, Nameless, Working
  <2>7. NamesOK'
    BY <1>1, <1>2, <2>1, <2>5 DEF NamesOK, MadeFor
  <2> QED
    BY <1>3, <2>5, <2>6, <2>7, LeaseParts DEF LeaseStep
<1>10. CASE deleteMachine(ok)
  <2> HIDE DEF same
  <2>1. pc = "delete" /\ inst \in Machine /\ Kept \subseteq {inst} /\ UNCHANGED <<inst, att, why>>
    BY <1>1, <1>5, <1>10 DEF deleteMachine, PassOK, HasInst, CallsOK
  <2>2. \A m \in Machine : /\ machine'[m].name = machine[m].name
                           /\ machine'[m].shown = machine[m].shown
                           /\ \/ machine'[m].st = machine[m].st
                              \/ m \in Kept /\ machine'[m].st = "doomed"
    BY <1>5, <1>10, <2>1 DEF deleteMachine
  <2>3. machine[inst].shown
    BY <1>1, <2>1 DEF MachinesOK, AllShown
  <2>4. inst \in Kept => machine'[inst].st = "doomed"
    BY <1>5, <1>10, <2>1, <2>3 DEF deleteMachine
  <2>5. Kept' = {}
    BY <2>1, <2>2, <2>4 DEF Kept
  <2>6. \A m \in Machine : Alive(m)' => Alive(m)
    BY <2>2 DEF Kept, Alive
  <2>7. MachinesOK' /\ Accounted'
    BY <1>1, <1>2, <2>2, <2>5, <2>6, FewerMachines
  <2>8. why \in {"replace", "fail", "delete"}
    BY <1>5, <2>1 DEF PassOK, GivingUp
  <2>9. pc' \in {"idle", "close"} \/ pc' = AfterClose
    BY <1>10 DEF deleteMachine, AfterDelete
  <2>10. CallsOK'
    BY <1>1, <1>2, <2>1, <2>5, <2>8, <2>9 DEF CallsOK, Nameless, Working, AfterClose
  <2>11. pc' \notin {"record", "resume"}
    BY <2>8, <2>9 DEF AfterClose
  <2>12. obj.id # NoMachine => obj.id \in Machine
    BY <1>1 DEF TypeInv, TypeOK, Node, MachineOrNone
  <2>13. NamesOK'
    BY <1>1, <1>2, <2>2, <2>11, <2>12 DEF NamesOK, MadeFor
  <2>14. PayStep
    BY <1>2, <2>5 DEF PayStep
  <2> QED
    BY <1>3, <2>7, <2>10, <2>13, <2>14, LeaseParts DEF LeaseStep
<1> QED
  BY <1>8, <1>9, <1>10

-----------------------------------------------------------------------------
(* A write that leaves the status of the node alone.                       *)
LEMMA WriteKeeps ==
    ASSUME LeaseInv, UNCHANGED machine,
           obj'.here = obj.here, obj'.abandon = obj.abandon,
           obj'.id = obj.id, obj'.named = obj.named, obj'.attempt = obj.attempt
    PROVE  MachinesOK' /\ Kept' = Kept /\ Accounted' /\ AttemptStep /\ PayStep
<1>1. MachinesOK' /\ Kept' = Kept
  BY SameMachines DEF LeaseInv, MachinesOK
<1>2. Accounted'
  BY <1>1 DEF LeaseInv, Accounted, Leads
<1> QED
  BY <1>1, <1>2 DEF AttemptStep, PayStep

(* Where a pass goes first, by the phase of the node.                      *)
LEMMA RouteLease ==
    ASSUME NEW n \in Node, cluster \in BOOLEAN,
           n.phase = "Pending" => n.id = NoMachine,
           n.phase \in {"Joining", "Ready"} => n.id # NoMachine,
           n.id # NoMachine => n.named
    PROVE  LET to == reconcileCloudWorker(n) IN
           /\ to \in {"setFailed", "start", "find", "get", "joining", "ready", "delete",
                      "retry", "idle"}
           /\ to = "find" => n.id = NoMachine /\ n.named /\ n.phase = "Creating"
           /\ to \in {"start", "retry"} => n.id = NoMachine
           /\ to \in {"get", "joining", "ready", "delete"} => n.id # NoMachine
           /\ to = "delete" => n.phase = "Failed"
<1>1. n.retry \in BOOLEAN /\ n.named \in BOOLEAN /\ n.phase \in Phases
  BY DEF Node
<1> QED
  BY <1>1 DEF reconcileCloudWorker, Phases

(* A pass begins: what it holds is what the API server has.                *)
LEMMA BeginLease ==
    ASSUME LeaseInv, obj.here, obj.finalizer, UNCHANGED <<machine, cluster>>,
           NEW n \in Node, obj' = n, copy' = n, inst' = n.id, att' = n.attempt, Synced',
           n.here = obj.here, n.finalizer = obj.finalizer, n.abandon = obj.abandon,
           n.phase = obj.phase, n.id = obj.id, n.named = obj.named, n.attempt = obj.attempt,
           pc' = reconcileCloudWorker(n), why' = IF pc' = "delete" THEN "fail" ELSE "",
           TypeInv'
    PROVE  LeaseStep
<1>1. TypeInv /\ Synced /\ StatusOK /\ NamesOK /\ CallsOK /\ cluster \in BOOLEAN
  BY DEF LeaseInv, TypeInv, TypeOK
<1>2. MachinesOK' /\ Kept' = Kept /\ Accounted' /\ AttemptStep /\ PayStep
  BY WriteKeeps
<1>3. StatusOK' /\ CopyOK'
  BY <1>1 DEF StatusOK, CopyOK
<1>4. /\ pc' \in {"setFailed", "start", "find", "get", "joining", "ready", "delete", "retry", "idle"}
      /\ pc' = "find" => n.id = NoMachine /\ n.named /\ n.phase = "Creating"
      /\ pc' \in {"start", "retry"} => n.id = NoMachine
      /\ pc' \in {"get", "joining", "ready", "delete"} => n.id # NoMachine
      /\ pc' = "delete" => n.phase = "Failed"
  BY <1>1, RouteLease DEF StatusOK
<1>5. pc' = "delete" => Kept \subseteq {inst'}
  BY <1>4, PaysById
<1>6. CallsOK'
  BY <1>2, <1>4, <1>5 DEF CallsOK, Nameless, Working
<1>7. NamesOK'
  BY <1>1, <1>4, NamesKeep
<1> QED
  BY <1>2, <1>3, <1>6, <1>7, LeaseParts DEF LeaseStep

(* A step after which no pass runs.                                        *)
LEMMA IdleKeeps ==
    ASSUME pc' = "idle"
    PROVE  CopyOK' /\ CallsOK'
  BY DEF CopyOK, CallsOK, Nameless, Working

(* The steps that begin and end passes, and that write past the status.    *)
LEMMA EdgeStepLease ==
    ASSUME Quiet, LeaseInv, TypeInv',
           \/ AddFinalizer \/ Reconcile \/ dropRetryAnnotation \/ handleDeletion
           \/ Conflict \/ setFailed \/ claimJoin \/ handleRetryDrop \/ letGo \/ Crash \/ Sync
    PROVE  LeaseStep
<1>1. TypeInv /\ Synced /\ MachinesOK /\ Accounted /\ StatusOK /\ NamesOK /\ CopyOK /\ CallsOK
  BY LeaseParts
<1>2. obj \in Node /\ copy \in Node /\ PassOK
  BY <1>1 DEF TypeInv, TypeOK
<1>3. cache = obj /\ watch = <<>>
  BY <1>1 DEF Synced
<1>4. UNCHANGED machine
  BY DEF AddFinalizer, Reconcile, dropRetryAnnotation, handleDeletion, Conflict, PatchConflict,
     setFailed, claimJoin, handleRetryDrop, letGo, Crash, Sync, cloudVars
<1>5. Kept' = Kept /\ MachinesOK'
  BY <1>1, <1>4, SameMachines
<1>6. CASE AddFinalizer
  <2> DEFINE r == [obj EXCEPT !.finalizer = TRUE]
  <2>1. /\ r.here = obj.here /\ r.abandon = obj.abandon /\ r.id = obj.id /\ r.finalizer
        /\ r.phase = obj.phase /\ r.named = obj.named /\ r.attempt = obj.attempt
    BY <1>2, Zenon DEF Node
  <2>2. pc = "idle" /\ Write(r) /\ UNCHANGED pc
    BY <1>6 DEF AddFinalizer, passVars
  <2> HIDE DEF r
  <2>3. obj' = r /\ Synced'
    BY <1>3, <2>2, QuietWrite DEF Synced
  <2>4. Accounted' /\ AttemptStep /\ PayStep
    BY <1>4, <2>1, <2>3, WriteKeeps
  <2>5. StatusOK'
    BY <1>1, <2>1, <2>3 DEF StatusOK
  <2>6. NamesOK'
    BY <1>1, <1>4, <2>1, <2>2, <2>3, NamesKeep
  <2> QED
    BY <1>5, <2>2, <2>3, <2>4, <2>5, <2>6, IdleKeeps, LeaseParts DEF LeaseStep
<1>7. CASE Reconcile
  <2>1. obj.here /\ obj.finalizer /\ UNCHANGED <<obj, cache, watch, cluster>>
    BY <1>3, <1>7 DEF Reconcile, apiVars
  <2>2. copy' = obj /\ inst' = obj.id /\ att' = obj.attempt
    BY <1>3, <1>7 DEF Reconcile, Begin
  <2>3. pc' = reconcileCloudWorker(obj) /\ why' = IF pc' = "delete" THEN "fail" ELSE ""
    BY <1>3, <1>7 DEF Reconcile
  <2>4. Synced'
    BY <1>3, <2>1 DEF Synced
  <2> QED
    BY <1>2, <1>4, <2>1, <2>2, <2>3, <2>4, BeginLease
<1>8. CASE dropRetryAnnotation
  <2> DEFINE r == [obj EXCEPT !.retry = FALSE]
  <2>1. /\ r.here = obj.here /\ r.abandon = obj.abandon /\ r.id = obj.id
        /\ r.finalizer = obj.finalizer
        /\ r.phase = obj.phase /\ r.named = obj.named /\ r.attempt = obj.attempt
        /\ r \in Node
    BY <1>2, Zenon DEF Node
  <2>2. obj.here /\ obj.finalizer /\ UNCHANGED cluster
    BY <1>3, <1>8 DEF dropRetryAnnotation
  <2>3. copy' = r /\ inst' = r.id /\ att' = r.attempt
    BY <1>8 DEF dropRetryAnnotation, Begin
  <2>4. pc' = reconcileCloudWorker(r) /\ why' = IF pc' = "delete" THEN "fail" ELSE ""
    BY <1>8 DEF dropRetryAnnotation
  <2>5. IF obj.retry THEN Write(r) ELSE UNCHANGED apiVars
    BY <1>8 DEF dropRetryAnnotation
  <2>6. ~obj.retry => r = obj
    <3>1. obj.retry \in BOOLEAN
      BY <1>2 DEF Node
    <3> QED
      BY <1>2, <3>1 DEF Node
  <2> HIDE DEF r
  <2>7. obj' = r /\ Synced'
    <3>1. CASE obj.retry
      BY <1>3, <2>5, <3>1, QuietWrite DEF Synced
    <3>2. CASE ~obj.retry
      BY <1>3, <2>5, <2>6, <3>2 DEF Synced, apiVars
    <3> QED
      BY <3>1, <3>2
  <2> QED
    BY <1>4, <2>1, <2>2, <2>3, <2>4, <2>7, BeginLease
<1>9. CASE handleDeletion
  <2>1. obj.here /\ obj.finalizer /\ UNCHANGED <<obj, cache, watch>>
    BY <1>3, <1>9 DEF handleDeletion, apiVars
  <2>2. copy' = obj /\ att' = obj.attempt /\ pc' \in {"drain", "unlist"} /\ why' = "delete"
    BY <1>3, <1>9 DEF handleDeletion, Begin
  <2>3. Synced' /\ StatusOK'
    BY <1>1, <2>1 DEF Synced, StatusOK
  <2>4. Accounted' /\ AttemptStep /\ PayStep
    BY <1>4, <2>1, WriteKeeps
  <2>5. CopyOK'
    BY <2>1, <2>2 DEF CopyOK
  <2>6. CallsOK'
    BY <2>1, <2>2 DEF CallsOK, Nameless, Working
  <2>7. NamesOK'
    BY <1>1, <1>4, <2>1, <2>2, NamesKeep
  <2> QED
    BY <1>5, <2>3, <2>4, <2>5, <2>6, <2>7, LeaseParts DEF LeaseStep
<1>10. CASE Conflict
  <2>1. copy' = obj /\ UNCHANGED <<obj, cache, watch, pc, inst, att, why>>
    BY <1>3, <1>10 DEF Conflict, PatchConflict, apiVars
  <2>2. Synced' /\ StatusOK'
    BY <1>1, <2>1 DEF Synced, StatusOK
  <2>3. Accounted' /\ AttemptStep /\ PayStep
    BY <1>4, <2>1, WriteKeeps
  <2>4. CopyOK'
    BY <1>1, <2>1 DEF CopyOK
  <2>5. pc = "letGo" => (copy.abandon => obj.abandon)
    BY <1>1 DEF CopyOK
  <2>6. CallsOK'
    BY <1>1, <1>5, <2>1, <2>5 DEF CallsOK, Nameless, Working
  <2>7. UNCHANGED state
    BY <1>10 DEF Conflict, PatchConflict
  <2>8. NamesOK'
    BY <1>1, <1>4, <2>7, <2>1, NamesKeep
  <2> QED
    BY <1>5, <2>2, <2>3, <2>4, <2>6, <2>8, LeaseParts DEF LeaseStep
<1>11. CASE setFailed
  <2> DEFINE r == [copy EXCEPT !.phase = "Failed"]
  <2>1. copy = obj /\ obj.here /\ obj.finalizer /\ pc' = "idle"
    BY <1>1, <1>11 DEF setFailed, CopyOK
  <2>2. /\ r.here = obj.here /\ r.abandon = obj.abandon /\ r.id = obj.id
        /\ r.finalizer = obj.finalizer
        /\ r.phase = "Failed" /\ r.named = obj.named /\ r.attempt = obj.attempt
    BY <1>2, <2>1, Zenon DEF Node
  <2>3. IF r = obj THEN UNCHANGED apiVars ELSE Write(r)
    BY <1>11 DEF setFailed
  <2> HIDE DEF r
  <2>4. obj' = r /\ Synced'
    <3>1. CASE r = obj
      BY <1>3, <2>3, <3>1 DEF Synced, apiVars
    <3>2. CASE r # obj
      BY <1>3, <2>3, <3>2, QuietWrite DEF Synced
    <3> QED
      BY <3>1, <3>2
  <2>5. Accounted' /\ AttemptStep /\ PayStep
    BY <1>4, <2>2, <2>4, WriteKeeps
  <2>6. StatusOK'
    BY <1>1, <2>1, <2>2, <2>4 DEF StatusOK
  <2>7. NamesOK'
    BY <1>1, <1>4, <2>1, <2>2, <2>4, NamesKeep
  <2> QED
    BY <1>5, <2>1, <2>4, <2>5, <2>6, <2>7, IdleKeeps, LeaseParts DEF LeaseStep
<1>12. CASE claimJoin
  <2>1. pc = "claim" /\ UNCHANGED <<copy, fresh, inst, att, why>>
    BY <1>12 DEF claimJoin
  <2>2. obj' = obj /\ Synced' /\ pc' \in {"install", "idle"}
    <3>1. CASE fresh
      <4>1. Write(obj) /\ pc' = "install"
        BY <1>1, <1>12, <3>1 DEF claimJoin, CopyOK
      <4> QED
        BY <1>3, <4>1, QuietWrite DEF Synced
    <3>2. CASE ~fresh
      BY <1>3, <1>12, <3>2 DEF claimJoin, Synced, apiVars
    <3> QED
      BY <3>1, <3>2
  <2>3. Accounted' /\ AttemptStep /\ PayStep
    BY <1>4, <2>2, WriteKeeps
  <2>4. StatusOK'
    BY <1>1, <2>2 DEF StatusOK
  <2>5. CopyOK'
    BY <1>1, <2>1, <2>2 DEF CopyOK
  <2>6. CallsOK'
    BY <1>1, <1>5, <2>1, <2>2 DEF CallsOK, Nameless, Working
  <2>7. NamesOK'
    BY <1>1, <1>4, <2>1, <2>2, NamesKeep
  <2> QED
    BY <1>5, <2>2, <2>3, <2>4, <2>5, <2>6, <2>7, LeaseParts DEF LeaseStep
<1>13. CASE handleRetryDrop
  <2> DEFINE r == [obj EXCEPT !.retry = FALSE]
  <2>1. /\ r.here = obj.here /\ r.abandon = obj.abandon /\ r.id = obj.id
        /\ r.finalizer = obj.finalizer
        /\ r.phase = obj.phase /\ r.named = obj.named /\ r.attempt = obj.attempt
    BY <1>2, Zenon DEF Node
  <2>2. pc' = "idle" /\ (Write(r) \/ UNCHANGED apiVars)
    BY <1>13 DEF handleRetryDrop
  <2> HIDE DEF r
  <2>3. obj' \in {r, obj} /\ Synced'
    <3>1. CASE Write(r)
      BY <1>3, <3>1, QuietWrite DEF Synced
    <3>2. CASE UNCHANGED apiVars
      BY <1>3, <3>2 DEF Synced, apiVars
    <3> QED
      BY <2>2, <3>1, <3>2
  <2>4. Accounted' /\ AttemptStep /\ PayStep
    BY <1>4, <2>1, <2>3, WriteKeeps
  <2>5. StatusOK'
    BY <1>1, <2>1, <2>3 DEF StatusOK
  <2>6. NamesOK'
    BY <1>1, <1>4, <2>1, <2>2, <2>3, NamesKeep
  <2> QED
    BY <1>5, <2>2, <2>3, <2>4, <2>5, <2>6, IdleKeeps, LeaseParts DEF LeaseStep
<1>14. CASE letGo
  <2> DEFINE r == [copy EXCEPT !.finalizer = FALSE, !.here = FALSE]
  <2>1. /\ copy = obj /\ obj.here /\ pc' = "idle" /\ Write(r)
        /\ Kept = {} \/ obj.abandon
    BY <1>1, <1>14 DEF letGo, CopyOK, CallsOK
  <2>2. /\ ~r.here /\ r.abandon = obj.abandon /\ r.id = obj.id
        /\ r.phase = obj.phase /\ r.named = obj.named /\ r.attempt = obj.attempt
    BY <1>2, <2>1, Zenon DEF Node
  <2> HIDE DEF r
  <2>3. obj' = r /\ Synced'
    BY <1>3, <2>1, QuietWrite DEF Synced
  <2>4. Accounted'
    BY <1>5, <2>1, <2>2, <2>3 DEF Accounted
  <2>5. AttemptStep /\ PayStep
    BY <1>5, <2>1, <2>2, <2>3 DEF AttemptStep, PayStep
  <2>6. StatusOK'
    BY <1>1, <2>2, <2>3 DEF StatusOK
  <2>7. NamesOK'
    BY <1>1, <1>4, <2>1, <2>2, <2>3, NamesKeep
  <2> QED
    BY <1>5, <2>1, <2>3, <2>4, <2>5, <2>6, <2>7, IdleKeeps, LeaseParts DEF LeaseStep
<1>15. CASE Crash
  <2>1. pc' = "idle" /\ Synced' /\ UNCHANGED obj
    BY <1>15 DEF Crash, Synced
  <2>2. Accounted' /\ AttemptStep /\ PayStep
    BY <1>4, <2>1, WriteKeeps
  <2>3. StatusOK'
    BY <1>1, <2>1 DEF StatusOK
  <2>4. NamesOK'
    BY <1>1, <1>4, <2>1, NamesKeep
  <2> QED
    BY <1>5, <2>1, <2>2, <2>3, <2>4, IdleKeeps, LeaseParts DEF LeaseStep
<1>16. CASE Sync
  BY <1>3, <1>16 DEF Sync
<1> QED
  BY <1>6, <1>7, <1>8, <1>9, <1>10, <1>11, <1>12, <1>13, <1>14, <1>15, <1>16

-----------------------------------------------------------------------------
(* The user writes to the node in the middle of whatever the pass does.    *)
LEMMA UserStepLease ==
    ASSUME Quiet, LeaseInv, TypeInv', DeleteNode \/ AskRetry \/ AskAbandon
    PROVE  LeaseStep
<1>1. TypeInv /\ Synced /\ MachinesOK /\ Accounted /\ StatusOK /\ NamesOK /\ CopyOK /\ CallsOK
  BY LeaseParts
<1>2. obj \in Node /\ cache = obj /\ watch = <<>>
  BY <1>1 DEF TypeInv, TypeOK, Synced
<1>3. ASSUME NEW n, UserWrite(n) PROVE /\ obj.here /\ obj' = n /\ Synced' /\ fresh' = FALSE
                                       /\ UNCHANGED <<pc, copy, inst, state, att, why, machine>>
  BY <1>2, <1>3, QuietWrite DEF UserWrite, Synced, cloudVars
<1>4. ASSUME UNCHANGED machine PROVE Kept' = Kept /\ MachinesOK'
  BY <1>1, <1>4, SameMachines
<1>5. ASSUME UNCHANGED <<pc, copy, inst, att, why>>, fresh' = FALSE, Kept' = Kept,
             pc # "idle" => obj'.here, obj'.finalizer = obj.finalizer,
             obj.abandon => obj'.abandon, obj'.phase = obj.phase,
             obj'.id = obj.id, obj'.named = obj.named, obj'.attempt = obj.attempt
      PROVE  CopyOK' /\ CallsOK'
  <2>1. CopyOK'
    BY <1>1, <1>5 DEF CopyOK
  <2>2. CallsOK'
    BY <1>1, <1>5 DEF CallsOK, Nameless, Working
  <2> QED
    BY <2>1, <2>2
<1>6. CASE DeleteNode
  <2> DEFINE r == [obj EXCEPT !.deleting = TRUE, !.here = obj.finalizer]
  <2>1. /\ r.here = obj.finalizer /\ r.finalizer = obj.finalizer /\ r.abandon = obj.abandon
        /\ r.phase = obj.phase /\ r.id = obj.id /\ r.named = obj.named
        /\ r.attempt = obj.attempt
    BY <1>2, Zenon DEF Node
  <2>2. UserWrite(r)
    BY <1>6 DEF DeleteNode
  <2>3. obj.here \in BOOLEAN /\ obj.finalizer \in BOOLEAN
    BY <1>2 DEF Node
  <2> HIDE DEF r
  <2>4. /\ obj.here /\ obj' = r /\ Synced' /\ fresh' = FALSE
        /\ UNCHANGED <<pc, copy, inst, state, att, why, machine>>
    BY <1>3, <2>2
  <2>5. Kept' = Kept /\ MachinesOK'
    BY <1>4, <2>4
  <2>6. pc # "idle" => obj.finalizer
    BY <1>1 DEF CopyOK
  <2>7. CopyOK' /\ CallsOK'
    BY <1>5, <2>1, <2>4, <2>5, <2>6
  <2>8. StatusOK'
    BY <1>1, <2>1, <2>4 DEF StatusOK
  <2>9. ~obj.finalizer => Kept = {}
    <3>1. ASSUME ~obj.finalizer PROVE obj.id = NoMachine /\ ~obj.named
      BY <1>1, <2>4, <3>1 DEF StatusOK
    <3>2. \A m \in Kept : m # NoMachine
      BY ConstantsAssumption DEF Kept
    <3> QED
      BY <1>1, <2>4, <3>1, <3>2 DEF Accounted, Leads
  <2>10. Accounted'
    <3>1. CASE obj.finalizer
      BY <1>1, <2>1, <2>4, <2>5, <3>1 DEF Accounted, Leads
    <3>2. CASE ~obj.finalizer
      BY <2>5, <2>9, <3>2 DEF Accounted
    <3> QED
      BY <3>1, <3>2
  <2>11. AttemptStep /\ PayStep
    BY <2>1, <2>3, <2>4, <2>5, <2>9 DEF AttemptStep, PayStep
  <2>12. NamesOK'
    BY <1>1, <2>1, <2>4, NamesKeep
  <2> QED
    BY <2>4, <2>5, <2>7, <2>8, <2>10, <2>11, <2>12, LeaseParts DEF LeaseStep
<1>7. CASE AskRetry
  <2> DEFINE r == [obj EXCEPT !.retry = TRUE]
  <2>1. /\ r.here = obj.here /\ r.finalizer = obj.finalizer /\ r.abandon = obj.abandon
        /\ r.phase = obj.phase /\ r.id = obj.id /\ r.named = obj.named
        /\ r.attempt = obj.attempt
    BY <1>2, Zenon DEF Node
  <2>2. UserWrite(r)
    BY <1>7 DEF AskRetry
  <2> HIDE DEF r
  <2>3. /\ obj.here /\ obj' = r /\ Synced' /\ fresh' = FALSE
        /\ UNCHANGED <<pc, copy, inst, state, att, why, machine>>
    BY <1>3, <2>2
  <2>4. MachinesOK' /\ Kept' = Kept /\ Accounted' /\ AttemptStep /\ PayStep
    BY <2>1, <2>3, WriteKeeps
  <2>5. CopyOK' /\ CallsOK'
    BY <1>5, <2>1, <2>3, <2>4
  <2>6. StatusOK'
    BY <1>1, <2>1, <2>3 DEF StatusOK
  <2>7. NamesOK'
    BY <1>1, <2>1, <2>3, NamesKeep
  <2> QED
    BY <2>3, <2>4, <2>5, <2>6, <2>7, LeaseParts DEF LeaseStep
<1>8. CASE AskAbandon
  <2> DEFINE r == [obj EXCEPT !.abandon = TRUE]
  <2>1. /\ r.here = obj.here /\ r.finalizer = obj.finalizer /\ r.abandon
        /\ r.phase = obj.phase /\ r.id = obj.id /\ r.named = obj.named
        /\ r.attempt = obj.attempt
    BY <1>2, Zenon DEF Node
  <2>2. UserWrite(r)
    BY <1>8 DEF AskAbandon
  <2> HIDE DEF r
  <2>3. /\ obj.here /\ obj' = r /\ Synced' /\ fresh' = FALSE
        /\ UNCHANGED <<pc, copy, inst, state, att, why, machine>>
    BY <1>3, <2>2
  <2>4. Kept' = Kept /\ MachinesOK'
    BY <1>4, <2>3
  <2>5. Accounted'
    BY <1>1, <2>1, <2>3, <2>4 DEF Accounted, Leads
  <2>6. CopyOK' /\ CallsOK'
    BY <1>5, <2>1, <2>3, <2>4
  <2>7. StatusOK'
    BY <1>1, <2>1, <2>3 DEF StatusOK
  <2>8. AttemptStep /\ PayStep
    BY <2>1, <2>3, <2>4 DEF AttemptStep, PayStep
  <2>9. NamesOK'
    BY <1>1, <2>1, <2>3, NamesKeep
  <2> QED
    BY <2>3, <2>4, <2>5, <2>6, <2>7, <2>8, <2>9, LeaseParts DEF LeaseStep
<1> QED
  BY <1>6, <1>7, <1>8

(* Machines come and go while the pass runs: it can only be left with      *)
(* fewer of them.                                                          *)
LEMMA LossKeeps ==
    ASSUME LeaseInv, TypeInv', UNCHANGED <<apiVars, passVars>>,
           \A m \in Machine : /\ machine'[m].name = machine[m].name
                              /\ machine'[m].shown = machine[m].shown
                              /\ Alive(m)' => Alive(m)
                              /\ machine[m].st # "unused" => machine'[m].st # "unused",
           Kept' \subseteq Kept,
           pc = "resume" \/ (pc = "record" /\ state = "stopped") => inst \in Kept'
    PROVE  LeaseStep
<1>1. TypeInv /\ Synced /\ MachinesOK /\ Accounted /\ StatusOK /\ NamesOK /\ CopyOK /\ CallsOK
  BY LeaseParts
<1>2. UNCHANGED <<obj, cache, watch, pc, copy, fresh, inst, state, att, why>>
  BY DEF apiVars, passVars
<1>3. MachinesOK' /\ Accounted'
  BY <1>1, <1>2, FewerMachines
<1>4. Synced' /\ StatusOK' /\ CopyOK'
  BY <1>1, <1>2 DEF Synced, StatusOK, CopyOK
<1>5. CallsOK'
  BY <1>1, <1>2 DEF CallsOK, Nameless, Working
<1>6. AttemptStep /\ PayStep
  BY <1>2 DEF AttemptStep, PayStep
<1>7. /\ obj.id # NoMachine => obj.id \in Machine
      /\ pc = "record" => inst \in Machine
  BY <1>1 DEF TypeInv, TypeOK, PassOK, HasInst, Node, MachineOrNone
<1>8. NamesOK'
  BY <1>1, <1>2, <1>7 DEF NamesOK, MadeFor
<1> QED
  BY <1>3, <1>4, <1>5, <1>6, <1>8, LeaseParts DEF LeaseStep

LEMMA WorldStepLease ==
    ASSUME Quiet, LeaseInv, TypeInv', NEW m \in Machine,
           \/ Boot(m) \/ PowerOff(m) \/ Vanish(m) \/ Removed(m) \/ Show(m) \/ Register(m)
    PROVE  LeaseStep
<1>1. machine \in [Machine -> [st : MachineState, name : Attempts, shown : BOOLEAN]]
  BY DEF LeaseInv, TypeInv, TypeOK
<1>2. UNCHANGED <<apiVars, passVars>>
  BY DEF Boot, PowerOff, Vanish, Removed, Show, Register, MachineStep
<1>6. pc = "resume" \/ (pc = "record" /\ state = "stopped") => inst \in Kept
  BY DEF LeaseInv, NamesOK
<1>3. CASE Show(m)
  BY <1>3 DEF Show, LeaseInv, AllShown
<1>4. CASE Register(m)
  <2>1. UNCHANGED machine
    BY <1>4 DEF Register, cloudVars
  <2>2. Kept' = Kept /\ \A k \in Machine : Alive(k)' => Alive(k)
    BY <2>1 DEF Kept, Alive
  <2> QED
    BY <1>2, <1>6, <2>1, <2>2, LossKeeps
<1>5. CASE Boot(m) \/ PowerOff(m) \/ Vanish(m) \/ Removed(m)
  <2>1. PICK to \in {"running", "stopped", "gone"} :
           /\ machine[m].st \in {"pending", "running", "stopped", "doomed"}
           /\ machine[m].st = "doomed" => to = "gone"
           /\ machine' = [machine EXCEPT ![m].st = to]
    BY <1>5 DEF Boot, PowerOff, Vanish, Removed, MachineStep
  <2>2. \A k \in Machine : /\ machine'[k].name = machine[k].name
                           /\ machine'[k].shown = machine[k].shown
                           /\ k # m => machine'[k].st = machine[k].st
    BY <1>1, <2>1
  <2>3. machine'[m].st = to
    BY <1>1, <2>1
  <2>4. Kept' \subseteq Kept /\ \A k \in Machine : Alive(k)' => Alive(k)
    BY <2>1, <2>2, <2>3 DEF Kept, Alive
  <2>5. \A k \in Machine : machine[k].st # "unused" => machine'[k].st # "unused"
    BY <2>2, <2>3
  <2>6. pc = "resume" \/ (pc = "record" /\ state = "stopped") => inst \in Kept'
    <3> SUFFICES ASSUME pc = "resume" \/ (pc = "record" /\ state = "stopped") PROVE inst \in Kept'
      OBVIOUS
    <3>1. inst \in Kept
      BY <1>6
    <3>2. CASE inst # m
      BY <2>2, <3>1, <3>2 DEF Kept
    <3>3. CASE inst = m
      <4>1. state = "stopped"
        BY DEF LeaseInv, NamesOK
      <4>2. ~Vanish(m) /\ ~Removed(m)
        BY <3>1, <3>3, <4>1 DEF Vanish, Removed, MachineStep, Quiet, Kept
      <4>3. machine'[m].st \in {"running", "stopped"}
        BY <1>1, <1>5, <4>2 DEF Boot, PowerOff, MachineStep
      <4> QED
        BY <3>3, <4>3 DEF Kept
    <3> QED
      BY <3>2, <3>3
  <2> QED
    BY <1>2, <2>2, <2>4, <2>5, <2>6, LossKeeps
<1> QED
  BY <1>3, <1>4, <1>5

LEMMA KubeStepLease ==
    ASSUME LeaseInv, TypeInv', Health \/ RemovedByHand \/ ClusterFlips \/ UNCHANGED vars
    PROVE  LeaseStep
<1>1. UNCHANGED <<apiVars, passVars, machine>>
  BY DEF Health, RemovedByHand, ClusterFlips, cloudVars, vars
<1>2. Kept' = Kept /\ \A m \in Machine : Alive(m)' => Alive(m)
  BY <1>1 DEF Kept, Alive
<1>3. pc = "resume" \/ (pc = "record" /\ state = "stopped") => inst \in Kept
  BY DEF LeaseInv, NamesOK
<1> QED
  BY <1>1, <1>2, <1>3, LossKeeps

-----------------------------------------------------------------------------
LEMMA LeaseInit == Init => LeaseInv
<1> SUFFICES ASSUME Init PROVE LeaseInv
  OBVIOUS
<1>1. TypeInv
  BY TypeInit
<1>2. \A m \in Machine : machine[m].st = "unused" /\ machine[m].shown
  BY DEF Init
<1>3. Kept = {} /\ \A m \in Machine : ~Alive(m)
  BY <1>2 DEF Kept, Alive
<1>4. AllShown /\ OneAlivePerName /\ AtMostOneKept /\ Accounted
  BY <1>2, <1>3 DEF AllShown, OneAlivePerName, AtMostOneKept, Accounted
<1>5. Synced /\ pc = "idle" /\ obj = NewNode
  BY DEF Init, Synced
<1>6. StatusOK
  BY <1>5 DEF StatusOK, NewNode
<1>7. CopyOK /\ CallsOK /\ NamesOK
  BY <1>5 DEF CopyOK, CallsOK, NamesOK, Nameless, Working, NewNode
<1> QED
  BY <1>1, <1>4, <1>5, <1>6, <1>7 DEF LeaseInv

(* Every step of the node keeps the invariant, and is a step of a lease.   *)
LEMMA EveryStepLease ==
    ASSUME Quiet, LeaseInv, cluster, [Next]_vars
    PROVE  LeaseStep
<1>1. TypeInv'
  BY TypeStep DEF LeaseInv
<1>2. CASE PassStep
  BY <1>1, <1>2, PatchStepLease, CallStepLease, MachineStepLease, EdgeStepLease DEF PassStep
<1>3. CASE Fault
  BY <1>1, <1>3, CallStepLease, MachineStepLease, EdgeStepLease DEF Fault
<1>4. CASE World
  BY <1>1, <1>4, EdgeStepLease, UserStepLease, WorldStepLease, KubeStepLease DEF World
<1>5. CASE UNCHANGED vars
  BY <1>1, <1>5, KubeStepLease
<1> QED
  BY <1>2, <1>3, <1>4, <1>5 DEF Next

(* No step deletes the cluster when it does not go by itself.              *)
LEMMA ClusterStays ==
    ASSUME Quiet, [Next]_vars
    PROVE  UNCHANGED cluster
<1>1. CASE PassStep
  BY <1>1 DEF PassStep, AddFinalizer, Reconcile, dropRetryAnnotation, handleDeletion,
     Conflict, PatchConflict, setFailed, cloudStart, findMachine, createMachine,
     cloudCreateFailed, Goto, waitCloudProblem, recordMachine, getMachine, resumeMachine,
     noteState, openControlPlane, openControlPlaneFailed, noteOpen, claimJoin,
     cloudJoinRefused, cloudJoin, setJoining, cloudJoining, markNodeReady, cloudReady,
     rejoin, drain, removeKubernetesNode, findMachineToDelete, deleteMachine,
     closeControlPlane, noteClosed, noteGivenUp, handleRetry, handleRetryDrop, letGo
<1>2. CASE Fault
  BY <1>2 DEF Fault, Return, Crash, createMachine, openControlPlane, deleteMachine,
     closeControlPlane
<1>3. CASE World
  BY <1>3 DEF World, Sync, DeleteNode, AskRetry, AskAbandon, UserWrite, Boot, PowerOff,
     Vanish, Removed, Show, Register, MachineStep, Health, RemovedByHand, ClusterFlips, Quiet
<1> QED
  BY <1>1, <1>2, <1>3 DEF Next, vars

QuietInv == LeaseInv /\ cluster

LEMMA QuietInvHolds == ASSUME Quiet PROVE Spec => []QuietInv
<1>1. Init => QuietInv
  BY LeaseInit DEF QuietInv, Init
<1>2. QuietInv /\ [Next]_vars => QuietInv'
  BY EveryStepLease, ClusterStays DEF LeaseStep, QuietInv
<1> QED
  BY <1>1, <1>2, PTL DEF Spec

(* A node never pays for two machines (findMachine, createMachine and the  *)
(* name that is written down before the machine is made).                  *)
THEOREM PaysForOne == ASSUME Quiet PROVE Spec => []AtMostOneKept
<1>1. QuietInv => AtMostOneKept
  BY DEF QuietInv, LeaseInv
<1>2. Spec => []QuietInv
  BY QuietInvHolds
<1> QED
  BY <1>1, <1>2, PTL

(* Whatever fails in the middle, a node leads to every machine it pays     *)
(* for, and leaves none behind when it goes, unless its user abandoned it  *)
(* (handleCloudDeletion).                                                  *)
THEOREM NothingUnaccounted == ASSUME Quiet PROVE Spec => []Accounted
<1>1. QuietInv => Accounted
  BY DEF QuietInv, LeaseInv
<1>2. Spec => []QuietInv
  BY QuietInvHolds
<1> QED
  BY <1>1, <1>2, PTL

(* The attempt of a node only ever goes up by one, and only when no        *)
(* machine of the attempt that ends is kept (cloudReplace, cloudFailed,    *)
(* cloudStart).                                                            *)
THEOREM AttemptsEndClean == ASSUME Quiet PROVE Spec => LeavesNothingBehind
<1> DEFINE Clean == obj'.attempt # obj.attempt =>
                       /\ obj'.attempt = obj.attempt + 1
                       /\ \A m \in Kept' : machine'[m].name # obj.attempt
<1>1. QuietInv /\ [Next]_vars => Clean
  BY EveryStepLease DEF LeaseStep, AttemptStep, QuietInv
<1>2. Spec => []QuietInv
  BY QuietInvHolds
<1>3. LeavesNothingBehind <=> [][Clean]_vars
  BY DEF LeavesNothingBehind
<1> QED
  BY <1>1, <1>2, <1>3, PTL DEF Spec

(* The node implements the abstract lease: it takes a machine only when it *)
(* holds none, and goes away only when it holds none or was abandoned.     *)
THEOREM NodeIsLease == ASSUME Quiet PROVE Spec => ImplementsLease
<1>1. Spec => []QuietInv
  BY QuietInvHolds
<1>2. Init => Lease!Init
  <2> SUFFICES ASSUME Init PROVE Lease!Init
    OBVIOUS
  <2>1. \A m \in Machine : machine[m].st = "unused"
    BY DEF Init
  <2>2. Kept = {}
    BY <2>1 DEF Kept
  <2>3. obj.here = TRUE /\ obj.abandon = FALSE
    BY DEF Init, NewNode
  <2> QED
    BY <2>2, <2>3 DEF Lease!Init
<1>3. QuietInv /\ [Next]_vars => [Lease!Next]_(Lease!leaseVars)
  <2> SUFFICES ASSUME QuietInv, [Next]_vars PROVE [Lease!Next]_(Lease!leaseVars)
    OBVIOUS
  <2>1. PayStep /\ LeaseInv' /\ LeaseInv
    BY EveryStepLease DEF LeaseStep, QuietInv
  <2>2. /\ obj.here \in BOOLEAN /\ obj.abandon \in BOOLEAN
        /\ obj'.here \in BOOLEAN /\ obj'.abandon \in BOOLEAN
    BY <2>1 DEF LeaseInv, TypeInv, TypeOK, Node
  <2>3. Kept' \subseteq Kept => Kept' = Kept \/ Kept' = {}
    BY <2>1 DEF LeaseInv, AtMostOneKept
  <2> QED
    BY <2>1, <2>2, <2>3 DEF PayStep, Lease!Next, Lease!Acquire, Lease!Release, Lease!Leave,
       Lease!LetGo, Lease!leaseVars
<1> QED
  BY <1>1, <1>2, <1>3, PTL DEF Spec, ImplementsLease, Lease!Spec

-----------------------------------------------------------------------------
(* The firewall, and the machines of nodes that hold data.                 *)

Up     == {"Joining", "Ready"}
Opened == {"noteOpen", "claim", "install", "setJoining"}

(* A rule that is noted was opened for a machine that was made, and is     *)
(* there as long as that machine is kept.                                  *)
NotedOK ==
    /\ obj.access # NoMachine => machine[obj.access].st # "unused"
    /\ Firewall /\ obj.access \in Kept => obj.access \in rules

(* So is the rule of a node that is up, and of one that a pass is about to *)
(* bring up.                                                               *)
RuleOK ==
    /\ Firewall /\ obj.phase \in Up /\ obj.id \in Kept => obj.id \in rules
    /\ Firewall /\ pc \in Opened /\ inst \in Kept => inst \in rules
    /\ pc \in {"joining", "markReady"} => obj.phase \in Up

(* What the pass's copy says of the rule and of a deletion is still so.    *)
CopyToo == pc # "idle" => copy.access = obj.access /\ (copy.deleting => obj.deleting)

(* A pass that gives a machine up for a deletion has one to do, and one    *)
(* that replaces the machine of a node with data saw that it is gone.      *)
GivenUpOK ==
    /\ pc \in GivingUp /\ why = "delete" => obj.deleting
    /\ pc \in {"unlist", "delete"} /\ why = "replace" /\ ~Ephemeral => obj.id \notin Kept

GuardInv == NotedOK /\ RuleOK /\ CopyToo /\ GivenUpOK

(* What every step does to the machines and to the rules.                  *)
MachinesWear ==
    \A m \in Machine : machine[m].st # "unused" =>
        machine'[m].st # "unused" /\ (m \in Kept' => m \in Kept)
RulesHold == rules \subseteq rules' \/ Kept' = {}

(* What a step may make of the node: it notes a rule it has opened, and it *)
(* brings up a node whose rule is open.                                    *)
NodeGuarded ==
    /\ obj'.access \in {obj.access, NoMachine} \/ (pc = "noteOpen" /\ obj'.access = inst)
    /\ obj'.phase \in Up => \/ obj.phase \in Up /\ obj'.id = obj.id
                            \/ pc = "setJoining" /\ obj'.id = inst

(* What a step may make of the pass.                                       *)
PassGuarded ==
    /\ pc' \in Opened => \/ pc \in Opened /\ inst' = inst
                         \/ inst' \in rules'
                         \/ ~Firewall
                         \/ inst' = obj.access
    /\ pc' \in {"joining", "markReady"} => obj'.phase \in Up

LEMMA GuardKept ==
    ASSUME LeaseInv, GuardInv, MachinesWear, RulesHold, NodeGuarded, PassGuarded,
           CopyToo', GivenUpOK'
    PROVE  GuardInv'
<1>1. Kept \subseteq Machine /\ Kept' \subseteq Machine
  BY DEF Kept
<1>2. /\ obj.id # NoMachine => obj.id \in Machine /\ machine[obj.id].st # "unused"
      /\ obj.access \in Machine \union {NoMachine}
      /\ inst \in Machine \union {NoMachine} /\ NoMachine \notin Machine
      /\ obj.id \in Machine \union {NoMachine}
  BY ConstantsAssumption DEF LeaseInv, TypeInv, TypeOK, Node, MachineOrNone, NamesOK, MadeFor
<1>3. pc \in Opened => inst = obj.id /\ inst \in Machine
  BY DEF LeaseInv, CallsOK, Working, Opened, TypeInv, PassOK, HasInst
<1>4. pc \in Opened => inst # NoMachine /\ machine[inst].st # "unused"
  BY <1>2, <1>3
<1>5. NotedOK'
  <2>1. obj'.access # NoMachine => machine'[obj'.access].st # "unused"
    BY <1>2, <1>3, <1>4 DEF GuardInv, NotedOK, NodeGuarded, MachinesWear, Opened
  <2>2. ASSUME Firewall, obj'.access \in Kept'
        PROVE  obj'.access \in rules'
    <3>1. obj'.access # NoMachine /\ rules \subseteq rules'
      BY <1>1, <1>2, <2>2 DEF RulesHold
    <3>2. obj'.access = obj.access \/ (pc = "noteOpen" /\ obj'.access = inst)
      BY <3>1 DEF NodeGuarded
    <3>3. obj'.access \in Kept
      BY <1>2, <1>3, <1>4, <2>2, <3>1, <3>2 DEF GuardInv, NotedOK, MachinesWear, Opened
    <3> QED
      BY <2>2, <3>1, <3>2, <3>3 DEF GuardInv, NotedOK, RuleOK, Opened
  <2> QED
    BY <2>1, <2>2 DEF NotedOK
<1>6. ASSUME Firewall, obj'.phase \in Up, obj'.id \in Kept'
      PROVE  obj'.id \in rules'
  <2>1. obj'.id # NoMachine /\ rules \subseteq rules'
    BY <1>1, <1>2, <1>6 DEF RulesHold
  <2>2. \/ obj.phase \in Up /\ obj'.id = obj.id
        \/ pc = "setJoining" /\ obj'.id = inst
    BY <1>6 DEF NodeGuarded
  <2>3. obj'.id \in Kept
    BY <1>2, <1>3, <1>4, <1>6, <2>1, <2>2 DEF MachinesWear, Opened
  <2> QED
    BY <1>6, <2>1, <2>2, <2>3 DEF GuardInv, RuleOK, Opened
<1>7. ASSUME Firewall, pc' \in Opened, inst' \in Kept'
      PROVE  inst' \in rules'
  <2>1. rules \subseteq rules' /\ inst' # NoMachine
    BY <1>1, <1>2, <1>7 DEF RulesHold
  <2>2. CASE pc \in Opened /\ inst' = inst
    BY <1>3, <1>4, <1>7, <2>1, <2>2 DEF MachinesWear, GuardInv, RuleOK
  <2>3. CASE inst' = obj.access
    BY <1>2, <1>7, <2>1, <2>3 DEF MachinesWear, GuardInv, NotedOK
  <2> QED
    BY <1>7, <2>2, <2>3 DEF PassGuarded
<1>8. RuleOK'
  BY <1>6, <1>7 DEF RuleOK, PassGuarded
<1> QED
  BY <1>5, <1>8 DEF GuardInv

-----------------------------------------------------------------------------
(* What a step does to the machines.                                       *)

LEMMA CreateWears ==
    ASSUME TypeInv, NEW a \in Attempts, NEW m \in Machine, Create(a, m)
    PROVE  MachinesWear
<1> DEFINE same == {k \in Machine : Alive(k) /\ machine[k].name = a}
<1>1. machine \in [Machine -> [st : MachineState, name : Attempts, shown : BOOLEAN]]
  BY DEF TypeInv, TypeOK
<1>2. CASE same # {}
  <2>1. \/ machine' = machine
        \/ machine[m].st = "stopped" /\ machine' = [machine EXCEPT ![m].st = "pending"]
    BY <1>2, Zenon DEF Create
  <2> HIDE DEF same
  <2> QED
    BY <1>1, <2>1 DEF MachinesWear, Kept
<1>3. CASE same = {}
  <2>1. /\ machine[m].st = "unused"
        /\ \E shown \in {TRUE, ~ShowsLate} :
             machine' = [machine EXCEPT ![m] = [st |-> "pending", name |-> a, shown |-> shown]]
    BY <1>3, Zenon DEF Create
  <2>2. \A k \in Machine : k # m => machine'[k] = machine[k]
    BY <1>1, <2>1
  <2> HIDE DEF same
  <2> QED
    BY <2>1, <2>2 DEF MachinesWear, Kept
<1> QED
  BY <1>2, <1>3

LEMMA EveryStepWears ==
    ASSUME TypeInv, [Next]_vars
    PROVE  MachinesWear
<1>1. machine \in [Machine -> [st : MachineState, name : Attempts, shown : BOOLEAN]]
  BY DEF TypeInv, TypeOK
<1>2. ASSUME UNCHANGED machine
      PROVE  MachinesWear
  BY <1>2 DEF MachinesWear, Kept
<1>3. copy.attempt \in Attempts
  BY DEF TypeInv, TypeOK, Node
<1>4. ASSUME NEW ok \in BOOLEAN, createMachine(ok)
      PROVE  MachinesWear
  BY <1>3, <1>4, CreateWears DEF createMachine
<1>5. CASE resumeMachine
  BY <1>2, <1>3, <1>5, CreateWears DEF resumeMachine
<1>6. ASSUME NEW ok \in BOOLEAN, deleteMachine(ok)
      PROVE  MachinesWear
  <2>1. machine' = machine \/ machine' = [machine EXCEPT ![inst].st = "doomed"]
    BY <1>6 DEF deleteMachine
  <2> QED
    BY <1>1, <2>1 DEF MachinesWear, Kept
<1>7. ASSUME NEW m \in Machine, Boot(m) \/ PowerOff(m) \/ Vanish(m) \/ Removed(m)
      PROVE  MachinesWear
  <2>1. PICK to \in {"running", "stopped", "gone"} :
           /\ machine[m].st \in {"pending", "running", "stopped", "doomed"}
           /\ machine[m].st = "doomed" => to = "gone"
           /\ machine' = [machine EXCEPT ![m].st = to]
    BY <1>7 DEF Boot, PowerOff, Vanish, Removed, MachineStep
  <2>2. \A k \in Machine : machine'[k].st = (IF k = m THEN to ELSE machine[k].st)
    BY <1>1, <2>1
  <2> QED
    BY <2>1, <2>2 DEF MachinesWear, Kept
<1>8. ASSUME NEW m \in Machine, Show(m)
      PROVE  MachinesWear
  <2>1. \A k \in Machine : machine'[k].st = machine[k].st
    BY <1>1, <1>8 DEF Show
  <2> QED
    BY <2>1 DEF MachinesWear, Kept
<1>9. CASE PassStep
  <2>1. CASE createMachine(TRUE) \/ resumeMachine \/ deleteMachine(TRUE)
    BY <2>1, <1>4, <1>5, <1>6
  <2>2. CASE ~(createMachine(TRUE) \/ resumeMachine \/ deleteMachine(TRUE))
    <3>1. UNCHANGED machine
      BY <1>9, <2>2 DEF PassStep, AddFinalizer, Reconcile, dropRetryAnnotation, handleDeletion,
         Conflict, PatchConflict, setFailed, cloudStart, findMachine,
         cloudCreateFailed, Goto, waitCloudProblem, recordMachine, getMachine,
         noteState, openControlPlane, openControlPlaneFailed, noteOpen, claimJoin,
         cloudJoinRefused, cloudJoin, setJoining, cloudJoining, markNodeReady, cloudReady,
         rejoin, drain, removeKubernetesNode, findMachineToDelete, closeControlPlane,
         noteClosed, noteGivenUp, handleRetry, handleRetryDrop, letGo, cloudVars
    <3> QED
      BY <1>2, <3>1
  <2> QED
    BY <2>1, <2>2
<1>10. CASE Fault
  <2>1. ASSUME Return \/ Crash \/ openControlPlane(FALSE) \/ closeControlPlane(FALSE)
        PROVE  UNCHANGED machine
    BY <2>1 DEF Return, Crash, openControlPlane, closeControlPlane, cloudVars
  <2> QED
    BY <1>2, <1>4, <1>6, <1>10, <2>1 DEF Fault
<1>11. CASE World
  <2>1. ASSUME Sync \/ DeleteNode \/ AskRetry \/ AskAbandon \/ Health \/ RemovedByHand \/ ClusterFlips
        PROVE  UNCHANGED machine
    BY <2>1 DEF Sync, DeleteNode, AskRetry, AskAbandon, UserWrite, Health, RemovedByHand,
       ClusterFlips, cloudVars
  <2>2. ASSUME NEW m \in Machine, Register(m)
        PROVE  UNCHANGED machine
    BY <2>2 DEF Register, cloudVars
  <2> QED
    BY <1>2, <1>7, <1>8, <1>11, <2>1, <2>2 DEF World
<1>12. CASE UNCHANGED vars
  BY <1>2, <1>12 DEF vars, cloudVars
<1> QED
  BY <1>9, <1>10, <1>11, <1>12 DEF Next

-----------------------------------------------------------------------------
(* The status writes.                                                      *)

(* r has n's deletion, and access in its status.                           *)
Notes(r, n, access) == r.deleting = n.deleting /\ r.access = access

LEMMA StatusNotes ==
    ASSUME NEW n \in Node
    PROVE  /\ Notes(StartedStatus(n), n, NoMachine)
           /\ Notes(ProblemStatus(n), n, n.access)
           /\ Notes(RecordedStatus(n), n, n.access)
           /\ Notes(SeenStatus(n), n, n.access)
           /\ Notes(OpenedStatus(n), n, inst)
           /\ Notes(ClosedStatus(n), n, NoMachine)
           /\ Notes(JoiningStatus(n), n, n.access)
           /\ Notes(ReadyStatus(n), n, n.access)
           /\ Notes(RejoinStatus(n), n, n.access)
           /\ Notes(RetriedStatus(n), n, n.access)
           /\ Notes(GivenUpStatus(n), n, NoMachine)
<1>1. Notes(StartedStatus(n), n, NoMachine)
  BY Zenon DEF Notes, Node, StartedStatus
<1>2. Notes(ProblemStatus(n), n, n.access)
  BY Zenon DEF Notes, Node, ProblemStatus
<1>3. Notes(RecordedStatus(n), n, n.access)
  BY Zenon DEF Notes, Node, RecordedStatus
<1>4. Notes(SeenStatus(n), n, n.access)
  BY Zenon DEF Notes, Node, SeenStatus
<1>5. Notes(OpenedStatus(n), n, inst)
  BY Zenon DEF Notes, Node, OpenedStatus
<1>6. Notes(ClosedStatus(n), n, NoMachine)
  BY Zenon DEF Notes, Node, ClosedStatus
<1>7. Notes(JoiningStatus(n), n, n.access)
  BY Zenon DEF Notes, Node, JoiningStatus
<1>8. Notes(ReadyStatus(n), n, n.access)
  BY Zenon DEF Notes, Node, ReadyStatus
<1>9. Notes(RejoinStatus(n), n, n.access)
  BY Zenon DEF Notes, Node, RejoinStatus
<1>10. Notes(RetriedStatus(n), n, n.access)
  BY Zenon DEF Notes, Node, RetriedStatus
<1>11. Notes(GivenUpStatus(n), n, NoMachine)
  BY Zenon DEF Notes, Node, GivenUpStatus
<1> QED
  BY <1>1, <1>2, <1>3, <1>4, <1>5, <1>6, <1>7, <1>8, <1>9, <1>10, <1>11

(* A status patch of a pass that notes only a rule it opened and brings up *)
(* only a node whose rule is open.                                         *)
LEMMA GuardPatch ==
    ASSUME Quiet, LeaseInv, GuardInv, MachinesWear, pc # "idle",
           UNCHANGED <<inst, why, cloudVars>>,
           NEW r, NEW ph, NEW a, NEW named, NEW id, NEW ac,
           PatchStatus(r), Becomes(r, copy, ph, a, named, id), Notes(r, copy, ac),
           ac \notin {copy.access, NoMachine} => pc = "noteOpen" /\ ac = inst,
           ph \in Up /\ ~(pc = "setJoining" /\ id = inst) => obj.phase \in Up /\ id = obj.id,
           PassGuarded,
           pc' \in GivingUp => pc \in GivingUp,
           pc' \in {"unlist", "delete"} => why # "replace"
    PROVE  GuardInv'
<1>1. Synced /\ CopyOK /\ CopyToo
  BY DEF LeaseInv, GuardInv
<1>2. /\ obj'.phase = ph /\ obj'.id = id /\ copy' = r
  BY <1>1, QuietPatch DEF Becomes
<1>3. obj'.access = ac /\ (obj.deleting => obj'.deleting) /\ (copy'.deleting => obj'.deleting)
  <2>1. CASE r = copy
    BY <1>1, <2>1 DEF PatchStatus, apiVars, CopyToo, Notes
  <2>2. CASE r # copy
    BY <1>1, <2>2 DEF PatchStatus, Write, CopyOK, Notes
  <2> QED
    BY <2>1, <2>2
<1>4. copy'.access = obj'.access /\ copy.access = obj.access
  BY <1>1, <1>2, <1>3 DEF Notes, CopyToo
<1>5. CopyToo'
  BY <1>3, <1>4 DEF CopyToo
<1>6. GivenUpOK'
  BY <1>3 DEF GuardInv, GivenUpOK
<1>7. RulesHold
  BY DEF RulesHold, cloudVars
<1>8. NodeGuarded
  BY <1>2, <1>3, <1>4 DEF NodeGuarded
<1> QED
  BY <1>5, <1>6, <1>7, <1>8, GuardKept

LEMMA PatchStepGuard ==
    ASSUME Quiet, LeaseInv, GuardInv, MachinesWear,
           \/ cloudStart \/ waitCloudProblem \/ recordMachine \/ noteState
           \/ noteOpen \/ setJoining \/ markNodeReady \/ rejoin
           \/ noteClosed \/ noteGivenUp \/ handleRetry
    PROVE  GuardInv'
<1>1. copy \in Node /\ CopyOK /\ CallsOK /\ CopyToo /\ PassOK
  BY DEF LeaseInv, TypeInv, TypeOK, GuardInv
<1>2. CASE cloudStart
  <2>1. /\ pc = "start" /\ pc' = "idle" /\ PatchStatus(StartedStatus(copy))
        /\ UNCHANGED <<inst, why, cloudVars>>
    BY <1>2 DEF cloudStart
  <2>2. /\ Becomes(StartedStatus(copy), copy, "Creating", att, TRUE, NoMachine)
        /\ Notes(StartedStatus(copy), copy, NoMachine)
    BY <1>1, StatusFields, StatusNotes
  <2> QED
    BY <2>1, <2>2, GuardPatch DEF PassGuarded, Opened, Up, GivingUp
<1>3. CASE waitCloudProblem
  <2>1. /\ pc = "noteProblem" /\ pc' = "idle" /\ PatchStatus(ProblemStatus(copy))
        /\ UNCHANGED <<inst, why, cloudVars>>
        /\ copy.phase = obj.phase /\ copy.id = obj.id
    BY <1>1, <1>3 DEF waitCloudProblem, CopyOK
  <2>2. /\ Becomes(ProblemStatus(copy), copy, copy.phase, copy.attempt, copy.named, copy.id)
        /\ Notes(ProblemStatus(copy), copy, copy.access)
    BY <1>1, StatusFields, StatusNotes
  <2> QED
    BY <2>1, <2>2, GuardPatch DEF PassGuarded, Opened, GivingUp
<1>4. CASE recordMachine
  <2>1. /\ pc = "record" /\ pc' \in {"resume", "state"} /\ PatchStatus(RecordedStatus(copy))
        /\ UNCHANGED <<inst, why, cloudVars>>
        /\ copy.phase = "Creating"
    BY <1>1, <1>4 DEF recordMachine, CopyOK, CallsOK
  <2>2. /\ Becomes(RecordedStatus(copy), copy, copy.phase, copy.attempt, copy.named, inst)
        /\ Notes(RecordedStatus(copy), copy, copy.access)
    BY <1>1, StatusFields, StatusNotes
  <2> QED
    BY <2>1, <2>2, GuardPatch DEF PassGuarded, Opened, Up, GivingUp
<1>5. CASE noteState
  <2>1. /\ pc = "state" /\ pc' \in {"idle", "setFailed", "open", "claim"}
        /\ PatchStatus(SeenStatus(copy)) /\ UNCHANGED <<inst, why, cloudVars>>
        /\ copy.phase = obj.phase /\ copy.id = obj.id /\ copy.access = obj.access
        /\ pc' = "claim" => ~Firewall \/ copy'.access = inst
    BY <1>1, <1>5 DEF noteState, CopyOK, CopyToo
  <2>2. /\ Becomes(SeenStatus(copy), copy, copy.phase, copy.attempt, copy.named, copy.id)
        /\ Notes(SeenStatus(copy), copy, copy.access)
    BY <1>1, StatusFields, StatusNotes
  <2>3. copy'.access = obj.access
    BY <2>1, <2>2 DEF PatchStatus, Notes
  <2> QED
    BY <2>1, <2>2, <2>3, GuardPatch DEF PassGuarded, Opened, GivingUp
<1>6. CASE noteOpen
  <2>1. /\ pc = "noteOpen" /\ pc' = "claim" /\ PatchStatus(OpenedStatus(copy))
        /\ UNCHANGED <<inst, why, cloudVars>>
        /\ copy.phase = obj.phase /\ copy.id = obj.id
    BY <1>1, <1>6 DEF noteOpen, CopyOK
  <2>2. /\ Becomes(OpenedStatus(copy), copy, copy.phase, copy.attempt, copy.named, copy.id)
        /\ Notes(OpenedStatus(copy), copy, inst)
    BY <1>1, StatusFields, StatusNotes
  <2> QED
    BY <2>1, <2>2, GuardPatch DEF PassGuarded, Opened, GivingUp
<1>7. CASE setJoining
  <2>1. /\ pc = "setJoining" /\ pc' = "idle" /\ PatchStatus(JoiningStatus(copy))
        /\ UNCHANGED <<inst, why, cloudVars>>
        /\ copy.id = inst
    BY <1>1, <1>7 DEF setJoining, CopyOK, CallsOK, Working
  <2>2. /\ Becomes(JoiningStatus(copy), copy, "Joining", copy.attempt, copy.named, copy.id)
        /\ Notes(JoiningStatus(copy), copy, copy.access)
    BY <1>1, StatusFields, StatusNotes
  <2> QED
    BY <2>1, <2>2, GuardPatch DEF PassGuarded, Opened, GivingUp
<1>8. CASE markNodeReady
  <2>1. /\ pc = "markReady" /\ pc' = "idle" /\ PatchStatus(ReadyStatus(copy))
        /\ UNCHANGED <<inst, why, cloudVars>>
        /\ copy.id = obj.id /\ obj.phase \in Up
    BY <1>1, <1>8 DEF markNodeReady, CopyOK, GuardInv, RuleOK
  <2>2. /\ Becomes(ReadyStatus(copy), copy, "Ready", copy.attempt, copy.named, copy.id)
        /\ Notes(ReadyStatus(copy), copy, copy.access)
    BY <1>1, StatusFields, StatusNotes
  <2> QED
    BY <2>1, <2>2, GuardPatch DEF PassGuarded, Opened, GivingUp
<1>9. CASE rejoin
  <2>1. /\ pc = "rejoin" /\ pc' = "idle" /\ PatchStatus(RejoinStatus(copy))
        /\ UNCHANGED <<inst, why, cloudVars>>
    BY <1>9 DEF rejoin
  <2>2. /\ Becomes(RejoinStatus(copy), copy, "Creating", copy.attempt, copy.named, copy.id)
        /\ Notes(RejoinStatus(copy), copy, copy.access)
    BY <1>1, StatusFields, StatusNotes
  <2> QED
    BY <2>1, <2>2, GuardPatch DEF PassGuarded, Opened, Up, GivingUp
<1>10. CASE noteClosed
  <2>1. /\ pc = "unnote" /\ PatchStatus(ClosedStatus(copy)) /\ pc' = AfterClose
        /\ UNCHANGED <<inst, why, cloudVars>>
        /\ copy.phase = obj.phase /\ copy.id = obj.id /\ why \in {"replace", "fail", "delete"}
    BY <1>1, <1>10 DEF noteClosed, CopyOK, PassOK, GivingUp
  <2>2. /\ Becomes(ClosedStatus(copy), copy, copy.phase, copy.attempt, copy.named, copy.id)
        /\ Notes(ClosedStatus(copy), copy, NoMachine)
    BY <1>1, StatusFields, StatusNotes
  <2>3. pc' \in {"note", "unlist", "letGo"} /\ (pc' = "unlist" => why = "fail")
    BY <2>1 DEF AfterClose
  <2> QED
    BY <2>1, <2>2, <2>3, GuardPatch DEF PassGuarded, Opened, GivingUp
<1>11. CASE noteGivenUp
  <2>1. /\ pc = "note" /\ PatchStatus(GivenUpStatus(copy)) /\ pc' \in {"retry", "idle"}
        /\ UNCHANGED <<inst, why, cloudVars>>
        /\ copy.phase = obj.phase /\ why \in {"replace", "fail"}
        /\ why = "fail" => obj.phase = "Failed"
    BY <1>1, <1>11 DEF noteGivenUp, CopyOK, PassOK, GivingUp, CallsOK
  <2> DEFINE ph == IF why = "replace" THEN "Pending" ELSE copy.phase
  <2>2. /\ Becomes(GivenUpStatus(copy), copy, ph, att + 1, FALSE, NoMachine)
        /\ Notes(GivenUpStatus(copy), copy, NoMachine)
    BY <1>1, StatusFields, StatusNotes
  <2>3. ph \notin Up
    BY <2>1 DEF Up
  <2> HIDE DEF ph
  <2> QED
    BY <2>1, <2>2, <2>3, GuardPatch DEF PassGuarded, Opened, GivingUp
<1>12. CASE handleRetry
  <2>1. /\ pc = "retry" /\ pc' = "retryDrop" /\ PatchStatus(RetriedStatus(copy))
        /\ UNCHANGED <<inst, why, cloudVars>>
    BY <1>12 DEF handleRetry
  <2>2. /\ Becomes(RetriedStatus(copy), copy, "Pending", copy.attempt, copy.named, copy.id)
        /\ Notes(RetriedStatus(copy), copy, copy.access)
    BY <1>1, StatusFields, StatusNotes
  <2> QED
    BY <2>1, <2>2, GuardPatch DEF PassGuarded, Opened, Up, GivingUp
<1> QED
  BY <1>2, <1>3, <1>4, <1>5, <1>6, <1>7, <1>8, <1>9, <1>10, <1>11, <1>12

(* Only deleteMachine asks the provider to remove a machine that is kept.  *)
LEMMA OnlyDeletionsDoom ==
    ASSUME TypeInv, [Next]_vars, NEW m \in Kept, machine'[m].st = "doomed"
    PROVE  \E ok \in BOOLEAN : deleteMachine(ok)
<1>1. /\ machine \in [Machine -> [st : MachineState, name : Attempts, shown : BOOLEAN]]
      /\ m \in Machine /\ machine[m].st # "doomed"
  BY DEF TypeInv, TypeOK, Kept
<1>2. machine' # machine
  BY <1>1
<1>3. ASSUME NEW a, NEW k \in Machine, Create(a, k)
      PROVE  FALSE
  <2> DEFINE same == {j \in Machine : Alive(j) /\ machine[j].name = a}
  <2>1. CASE same # {}
    <3>1. machine' = [machine EXCEPT ![k].st = "pending"]
      BY <1>2, <1>3, <2>1, Zenon DEF Create
    <3> HIDE DEF same
    <3> QED
      BY <1>1, <3>1
  <2>2. CASE same = {}
    <3>1. \E shown \in {TRUE, ~ShowsLate} :
             machine' = [machine EXCEPT ![k] = [st |-> "pending", name |-> a, shown |-> shown]]
      BY <1>3, <2>2, Zenon DEF Create
    <3> HIDE DEF same
    <3> QED
      BY <1>1, <3>1
  <2> QED
    BY <2>1, <2>2
<1>4. ~(createMachine(TRUE) \/ createMachine(FALSE) \/ resumeMachine)
  BY <1>2, <1>3 DEF createMachine, resumeMachine
<1>5. ASSUME NEW k \in Machine, Boot(k) \/ PowerOff(k) \/ Vanish(k) \/ Removed(k) \/ Show(k)
      PROVE  FALSE
  BY <1>1, <1>5 DEF Boot, PowerOff, Vanish, Removed, Show, MachineStep
<1>6. ASSUME NEW k \in Machine, Register(k)
      PROVE  FALSE
  BY <1>2, <1>6 DEF Register, cloudVars
<1>7. CASE PassStep
  BY <1>2, <1>4, <1>7 DEF PassStep, AddFinalizer, Reconcile, dropRetryAnnotation, handleDeletion,
     Conflict, PatchConflict, setFailed, cloudStart, findMachine,
     cloudCreateFailed, Goto, waitCloudProblem, recordMachine, getMachine,
     noteState, openControlPlane, openControlPlaneFailed, noteOpen, claimJoin,
     cloudJoinRefused, cloudJoin, setJoining, cloudJoining, markNodeReady, cloudReady,
     rejoin, drain, removeKubernetesNode, findMachineToDelete, closeControlPlane,
     noteClosed, noteGivenUp, handleRetry, handleRetryDrop, letGo, cloudVars
<1>8. CASE Fault
  BY <1>2, <1>4, <1>8 DEF Fault, Return, Crash, openControlPlane, closeControlPlane, cloudVars
<1>9. ~World
  BY <1>2, <1>5, <1>6 DEF World, Sync, DeleteNode, AskRetry, AskAbandon, UserWrite, Health,
     RemovedByHand, ClusterFlips, cloudVars
<1>10. ~UNCHANGED vars
  BY <1>2 DEF vars, cloudVars
<1> QED
  BY <1>7, <1>8, <1>9, <1>10 DEF Next

-----------------------------------------------------------------------------
(* The other steps.                                                        *)

(* A step of the pass that leaves the node and the pass's copy alone.      *)
LEMMA GuardCall ==
    ASSUME LeaseInv, GuardInv, MachinesWear, RulesHold, PassGuarded,
           UNCHANGED <<obj, copy>>, pc = "idle" => pc' = "idle",
           pc' \in GivingUp /\ why' = "delete" => pc \in GivingUp /\ why = "delete",
           pc' \in {"unlist", "delete"} /\ why' = "replace" /\ ~Ephemeral => obj.id \notin Kept
    PROVE  GuardInv'
<1>1. obj.id # NoMachine => obj.id \in Machine /\ machine[obj.id].st # "unused"
  BY DEF LeaseInv, TypeInv, TypeOK, Node, MachineOrNone, NamesOK, MadeFor
<1>2. NoMachine \notin Kept'
  BY ConstantsAssumption DEF Kept
<1>3. obj.id \in Kept' => obj.id \in Kept
  BY <1>1, <1>2 DEF MachinesWear
<1>4. CopyToo' /\ GivenUpOK'
  BY <1>3 DEF GuardInv, CopyToo, GivenUpOK
<1>5. NodeGuarded
  BY DEF NodeGuarded
<1> QED
  BY <1>4, <1>5, GuardKept

LEMMA CallStepGuard ==
    ASSUME Quiet, LeaseInv, GuardInv, MachinesWear, NEW ok \in BOOLEAN,
           \/ findMachine \/ cloudCreateFailed \/ getMachine \/ createMachine(ok)
           \/ resumeMachine \/ openControlPlane(ok) \/ openControlPlaneFailed
           \/ cloudJoinRefused \/ cloudJoin \/ cloudJoining \/ cloudReady \/ drain
           \/ removeKubernetesNode \/ findMachineToDelete \/ deleteMachine(ok)
           \/ closeControlPlane(ok) \/ Return
    PROVE  GuardInv'
<1>1. CopyOK /\ CallsOK /\ PassOK /\ AllShown
  BY DEF LeaseInv, TypeInv
<1>2. UNCHANGED <<obj, copy>> /\ pc # "idle"
  BY DEF findMachine, cloudCreateFailed, getMachine, createMachine, resumeMachine,
     openControlPlane, openControlPlaneFailed, cloudJoinRefused, cloudJoin, cloudJoining,
     cloudReady, drain, removeKubernetesNode, findMachineToDelete, deleteMachine,
     closeControlPlane, Return, Goto, apiVars
<1>3. CASE findMachine \/ cloudCreateFailed \/ getMachine \/ createMachine(ok) \/ resumeMachine
           \/ openControlPlaneFailed \/ cloudJoinRefused \/ Return
  <2>1. /\ rules' = rules
        /\ pc' \in {"create", "record", "setFailed", "noteProblem", "resume", "state", "idle"}
    BY <1>3 DEF findMachine, cloudCreateFailed, getMachine, createMachine, resumeMachine,
       openControlPlaneFailed, cloudJoinRefused, Return, Goto, cloudVars
  <2> QED
    BY <1>2, <2>1, GuardCall DEF RulesHold, PassGuarded, Opened, GivingUp
<1>4. CASE openControlPlane(ok)
  <2>1. pc' \in {"noteOpen", "idle"} /\ rules' = rules \union {inst} /\ inst' = inst
    BY <1>4 DEF openControlPlane
  <2> QED
    BY <1>2, <2>1, GuardCall DEF RulesHold, PassGuarded, Opened, GivingUp
<1>5. CASE cloudJoin
  <2>1. /\ pc = "install" /\ pc' \in {"setJoining", "setFailed"}
        /\ rules' = rules /\ inst' = inst
    BY <1>5 DEF cloudJoin, cloudVars
  <2> QED
    BY <1>2, <2>1, GuardCall DEF RulesHold, PassGuarded, Opened, GivingUp
<1>6. CASE cloudJoining
  <2>1. /\ pc = "joining" /\ rules' = rules
        /\ \/ pc' \in {"markReady", "setFailed"}
           \/ pc' = "unlist" /\ why' = "replace" /\ machineGone
    BY <1>6 DEF cloudJoining, cloudVars
  <2>2. obj.id # NoMachine /\ copy.id = obj.id /\ obj.phase \in Up
    BY <1>1, <2>1 DEF CallsOK, CopyOK, GuardInv, RuleOK
  <2>3. machineGone => obj.id \notin Kept
    BY <1>1, <2>2 DEF machineGone, AllShown, Alive, Kept
  <2> QED
    BY <1>2, <2>1, <2>2, <2>3, GuardCall DEF RulesHold, PassGuarded, Opened, GivingUp
<1>7. CASE cloudReady
  <2>1. /\ pc = "ready" /\ rules' = rules
        /\ \/ pc' = "rejoin"
           \/ pc' = "unlist" /\ why' = "replace" /\ (~Ephemeral => machineGone)
    BY <1>7 DEF cloudReady, cloudVars
  <2>2. obj.id # NoMachine /\ copy.id = obj.id
    BY <1>1, <2>1 DEF CallsOK, CopyOK
  <2>3. machineGone => obj.id \notin Kept
    BY <1>1, <2>2 DEF machineGone, AllShown, Alive, Kept
  <2> QED
    BY <1>2, <2>1, <2>3, GuardCall DEF RulesHold, PassGuarded, Opened, GivingUp
<1>8. CASE drain
  <2>1. /\ pc = "drain" /\ pc' = "unlist" /\ why' = why /\ rules' = rules /\ why = "delete"
    BY <1>1, <1>8 DEF drain, Goto, cloudVars, CallsOK
  <2> QED
    BY <1>2, <2>1, GuardCall DEF RulesHold, PassGuarded, Opened, GivingUp
<1>9. CASE removeKubernetesNode
  <2>1. /\ pc = "unlist" /\ pc' = AfterUnlist /\ why' = why /\ rules' = rules
        /\ why \in {"replace", "fail", "delete"}
    BY <1>1, <1>9 DEF removeKubernetesNode, cloudVars, PassOK, GivingUp
  <2>2. pc' \in {"note", "delete", "close", "letGo", "find2", "unlist"}
    BY <2>1 DEF AfterUnlist, AfterDelete, AfterClose
  <2>3. PassGuarded
    BY <2>2 DEF PassGuarded, Opened
  <2> QED
    BY <1>2, <2>1, <2>2, <2>3, GuardCall DEF RulesHold, GivingUp, GuardInv, GivenUpOK
<1>10. CASE findMachineToDelete
  <2>1. /\ pc = "find2" /\ pc' \in {AfterDelete, "delete"} /\ why' = why /\ rules' = rules
        /\ why = "delete"
    BY <1>1, <1>10 DEF findMachineToDelete, cloudVars, CallsOK
  <2>2. pc' \in {"delete", "close", "letGo"}
    BY <2>1 DEF AfterDelete, AfterClose
  <2>3. PassGuarded
    BY <2>2 DEF PassGuarded, Opened
  <2> QED
    BY <1>2, <2>1, <2>2, <2>3, GuardCall DEF RulesHold, GivingUp
<1>11. CASE deleteMachine(ok)
  <2>1. /\ pc = "delete" /\ pc' \in {AfterDelete, "idle"} /\ why' = why /\ rules' = rules
        /\ why \in {"replace", "fail", "delete"}
    BY <1>1, <1>11 DEF deleteMachine, PassOK, GivingUp
  <2>2. pc' \in {"idle", "close", "note", "unlist", "letGo"} /\ (pc' = "unlist" => why = "fail")
    BY <2>1 DEF AfterDelete, AfterClose
  <2>3. PassGuarded
    BY <2>2 DEF PassGuarded, Opened
  <2> QED
    BY <1>2, <2>1, <2>2, <2>3, GuardCall DEF RulesHold, GivingUp
<1>12. CASE closeControlPlane(ok)
  <2>1. /\ pc = "close" /\ pc' \in {"unnote", "idle"} /\ why' = why /\ machine' = machine
        /\ Kept = {}
    BY <1>1, <1>12 DEF closeControlPlane, CallsOK
  <2>2. Kept' = {}
    BY <2>1 DEF Kept
  <2> QED
    BY <1>2, <2>1, <2>2, GuardCall DEF RulesHold, PassGuarded, Opened, GivingUp
<1> QED
  BY <1>3, <1>4, <1>5, <1>6, <1>7, <1>8, <1>9, <1>10, <1>11, <1>12

(* A write of the whole node that changes neither its status's rule, nor   *)
(* its id, brings no node up, and keeps its deletion.                      *)
LEMMA GuardWrite ==
    ASSUME LeaseInv, GuardInv, MachinesWear, UNCHANGED rules,
           obj'.access = obj.access, obj'.id = obj.id,
           obj'.phase \in Up => obj.phase \in Up, obj.deleting => obj'.deleting,
           pc' \in Opened => pc \in Opened /\ inst' = inst,
           pc' \in {"joining", "markReady"} => obj'.phase \in Up,
           pc' # "idle" => /\ copy'.access = obj.access
                           /\ copy'.deleting => obj'.deleting,
           pc' \in GivingUp /\ why' = "delete" => obj'.deleting,
           pc' \in {"unlist", "delete"} => \/ pc' = pc /\ why' = why
                                           \/ why' # "replace"
    PROVE  GuardInv'
<1>1. obj.id # NoMachine => obj.id \in Machine /\ machine[obj.id].st # "unused"
  BY DEF LeaseInv, TypeInv, TypeOK, Node, MachineOrNone, NamesOK, MadeFor
<1>2. NoMachine \notin Kept'
  BY ConstantsAssumption DEF Kept
<1>3. obj.id \in Kept' => obj.id \in Kept
  BY <1>1, <1>2 DEF MachinesWear
<1>4. CopyToo'
  BY DEF CopyToo
<1>5. GivenUpOK'
  BY <1>3 DEF GuardInv, GivenUpOK
<1>6. NodeGuarded /\ PassGuarded /\ RulesHold
  BY DEF NodeGuarded, PassGuarded, RulesHold
<1> QED
  BY <1>4, <1>5, <1>6, GuardKept

(* Where a pass starts.                                                    *)
LEMMA GuardRoute ==
    ASSUME NEW n, n \in Node, pc' = reconcileCloudWorker(n)
    PROVE  /\ pc' \notin Opened /\ pc' # "markReady" /\ pc' # "unlist"
           /\ pc' = "joining" => n.phase \in Up
           /\ pc' \in GivingUp => pc' = "delete"
<1>1. n.phase \in Phases
  BY DEF Node
<1> QED
  BY <1>1 DEF reconcileCloudWorker, Phases, Opened, Up, GivingUp

LEMMA EdgeStepGuard ==
    ASSUME Quiet, LeaseInv, GuardInv, MachinesWear,
           \/ AddFinalizer \/ Reconcile \/ dropRetryAnnotation \/ handleDeletion
           \/ Conflict \/ setFailed \/ claimJoin \/ handleRetryDrop \/ letGo
           \/ Crash \/ Sync
    PROVE  GuardInv'
<1>1. /\ CopyOK /\ CallsOK /\ Synced /\ CopyToo /\ obj \in Node /\ copy \in Node
      /\ watch = <<>> /\ cache = obj
  BY DEF LeaseInv, TypeInv, TypeOK, GuardInv, Synced
<1>2. CASE AddFinalizer
  <2>1. /\ pc = "idle" /\ Write([obj EXCEPT !.finalizer = TRUE])
        /\ UNCHANGED <<pc, copy, inst, why, rules>>
    BY <1>2 DEF AddFinalizer, passVars, cloudVars
  <2>2. obj' = [obj EXCEPT !.finalizer = TRUE]
    BY <2>1 DEF Write
  <2>3. /\ obj'.access = obj.access /\ obj'.id = obj.id /\ obj'.phase = obj.phase
        /\ obj'.deleting = obj.deleting
    BY <1>1, <2>2 DEF Node
  <2> QED
    BY <2>1, <2>3, GuardWrite DEF Opened, GivingUp
<1>3. CASE Reconcile
  <2>1. /\ UNCHANGED <<obj, rules>> /\ copy' = obj /\ pc' = reconcileCloudWorker(obj)
        /\ pc' = "delete" => why' = "fail"
    BY <1>1, <1>3 DEF Reconcile, Begin, apiVars, cloudVars
  <2> QED
    BY <1>1, <2>1, GuardRoute, GuardWrite
<1>4. CASE dropRetryAnnotation
  <2> DEFINE n == [obj EXCEPT !.retry = FALSE]
  <2>1. /\ (IF obj.retry THEN Write(n) ELSE UNCHANGED apiVars)
        /\ copy' = n /\ pc' = reconcileCloudWorker(n) /\ UNCHANGED rules
        /\ pc' = "delete" => why' = "fail"
    BY <1>4 DEF dropRetryAnnotation, Begin, cloudVars
  <2>2. /\ n \in Node /\ n.access = obj.access /\ n.id = obj.id /\ n.phase = obj.phase
        /\ n.deleting = obj.deleting
    BY <1>1 DEF Node
  <2>3. obj' = n \/ obj' = obj
    BY <2>1 DEF Write, apiVars
  <2> HIDE DEF n
  <2> QED
    BY <2>1, <2>2, <2>3, GuardRoute, GuardWrite
<1>5. CASE handleDeletion
  <2>1. /\ UNCHANGED <<obj, rules>> /\ copy' = obj /\ pc' \in {"drain", "unlist"}
        /\ why' = "delete" /\ obj.deleting
    BY <1>1, <1>5 DEF handleDeletion, Begin, apiVars, cloudVars
  <2> QED
    BY <2>1, GuardWrite DEF Opened, GivingUp
<1>6. CASE Conflict
  <2>1. /\ UNCHANGED <<obj, pc, inst, why, rules>> /\ copy' = obj
    BY <1>1, <1>6 DEF Conflict, PatchConflict, apiVars, cloudVars
  <2> QED
    BY <2>1, GuardWrite DEF GuardInv, GivenUpOK, RuleOK
<1>7. CASE setFailed
  <2> DEFINE n == [copy EXCEPT !.phase = "Failed"]
  <2>1. /\ copy = obj /\ (IF n = obj THEN UNCHANGED apiVars ELSE Write(n))
        /\ pc' = "idle" /\ UNCHANGED rules
    BY <1>1, <1>7 DEF setFailed, CopyOK, cloudVars
  <2>2. /\ n.access = obj.access /\ n.id = obj.id /\ n.phase = "Failed"
        /\ n.deleting = obj.deleting
    BY <1>1, <2>1 DEF Node
  <2>3. obj' = n
    BY <2>1 DEF Write, apiVars
  <2> HIDE DEF n
  <2> QED
    BY <2>1, <2>2, <2>3, GuardWrite DEF Opened, Up, GivingUp
<1>8. CASE claimJoin
  <2>1. /\ pc = "claim" /\ pc' \in {"install", "idle"} /\ UNCHANGED <<copy, inst, why, rules>>
        /\ obj' = obj
    BY <1>1, <1>8 DEF claimJoin, CopyOK, Write, apiVars, cloudVars
  <2> QED
    BY <1>1, <2>1, GuardWrite DEF Opened, GivingUp, CopyToo
<1>9. CASE handleRetryDrop
  <2> DEFINE n == [obj EXCEPT !.retry = FALSE]
  <2>1. obj' \in {n, obj} /\ pc' = "idle" /\ UNCHANGED rules
    BY <1>9 DEF handleRetryDrop, Write, apiVars, cloudVars
  <2>2. n.access = obj.access /\ n.id = obj.id /\ n.phase = obj.phase /\ n.deleting = obj.deleting
    BY <1>1 DEF Node
  <2> HIDE DEF n
  <2> QED
    BY <2>1, <2>2, GuardWrite DEF Opened, GivingUp
<1>10. CASE letGo
  <2> DEFINE n == [copy EXCEPT !.finalizer = FALSE, !.here = FALSE]
  <2>1. obj' = n /\ pc' = "idle" /\ UNCHANGED rules /\ copy = obj
    BY <1>1, <1>10 DEF letGo, Write, CopyOK, cloudVars
  <2>2. n.access = obj.access /\ n.id = obj.id /\ n.phase = obj.phase /\ n.deleting = obj.deleting
    BY <1>1, <2>1 DEF Node
  <2> HIDE DEF n
  <2> QED
    BY <2>1, <2>2, GuardWrite DEF Opened, GivingUp
<1>11. CASE Crash
  <2>1. pc' = "idle" /\ UNCHANGED <<obj, rules>>
    BY <1>11 DEF Crash, cloudVars
  <2> QED
    BY <2>1, GuardWrite DEF Opened, GivingUp
<1>12. ~Sync
  BY <1>1 DEF Sync
<1> QED
  BY <1>2, <1>3, <1>4, <1>5, <1>6, <1>7, <1>8, <1>9, <1>10, <1>11, <1>12

LEMMA WorldStepGuard ==
    ASSUME LeaseInv, GuardInv, MachinesWear,
           \/ DeleteNode \/ AskRetry \/ AskAbandon \/ Health \/ RemovedByHand \/ ClusterFlips
           \/ UNCHANGED vars
           \/ \E m \in Machine : Boot(m) \/ PowerOff(m) \/ Vanish(m) \/ Removed(m)
                                 \/ Show(m) \/ Register(m)
    PROVE  GuardInv'
<1>1. /\ obj \in Node /\ CopyToo
  BY DEF LeaseInv, TypeInv, TypeOK, GuardInv
<1>2. UNCHANGED <<pc, copy, inst, why, rules>>
  BY DEF DeleteNode, AskRetry, AskAbandon, UserWrite, Health, RemovedByHand, ClusterFlips, vars,
     Boot, PowerOff, Vanish, Removed, Show, Register, MachineStep, passVars, cloudVars
<1>3. /\ obj'.access = obj.access /\ obj'.id = obj.id /\ obj'.phase = obj.phase
      /\ obj.deleting => obj'.deleting
  <2>1. CASE DeleteNode
    <3>1. obj' = [obj EXCEPT !.deleting = TRUE, !.here = obj.finalizer]
      BY <2>1 DEF DeleteNode, UserWrite, Write
    <3> QED
      BY <1>1, <3>1 DEF Node
  <2>2. CASE AskRetry
    <3>1. obj' = [obj EXCEPT !.retry = TRUE]
      BY <2>2 DEF AskRetry, UserWrite, Write
    <3> QED
      BY <1>1, <3>1 DEF Node
  <2>3. CASE AskAbandon
    <3>1. obj' = [obj EXCEPT !.abandon = TRUE]
      BY <2>3 DEF AskAbandon, UserWrite, Write
    <3> QED
      BY <1>1, <3>1 DEF Node
  <2>4. CASE obj' = obj
    BY <2>4
  <2> QED
    BY <2>1, <2>2, <2>3, <2>4 DEF Health, RemovedByHand, ClusterFlips, vars,
       Boot, PowerOff, Vanish, Removed, Show, Register, MachineStep, apiVars
<1> QED
  BY <1>1, <1>2, <1>3, GuardWrite DEF GuardInv, GivenUpOK, RuleOK, CopyToo

LEMMA EveryStepGuard ==
    ASSUME Quiet, LeaseInv, GuardInv, [Next]_vars
    PROVE  GuardInv'
<1>1. MachinesWear
  BY EveryStepWears DEF LeaseInv
<1>2. CASE PassStep
  BY <1>1, <1>2, PatchStepGuard, CallStepGuard, EdgeStepGuard DEF PassStep
<1>3. CASE Fault
  BY <1>1, <1>3, CallStepGuard, EdgeStepGuard DEF Fault
<1>4. CASE World
  BY <1>1, <1>4, EdgeStepGuard, WorldStepGuard DEF World
<1>5. CASE UNCHANGED vars
  BY <1>1, <1>5, WorldStepGuard
<1> QED
  BY <1>2, <1>3, <1>4, <1>5 DEF Next

LEMMA GuardInvHolds == ASSUME Quiet PROVE Spec => []GuardInv
<1>1. Init => GuardInv
  <2> SUFFICES ASSUME Init PROVE GuardInv
    OBVIOUS
  <2>1. pc = "idle" /\ obj.access = NoMachine /\ obj.phase = "Pending"
    BY DEF Init, NewNode
  <2>2. NoMachine \notin Kept
    BY ConstantsAssumption DEF Kept
  <2> QED
    BY <2>1, <2>2 DEF GuardInv, NotedOK, RuleOK, CopyToo, GivenUpOK, Up, Opened, GivingUp
<1>2. QuietInv /\ GuardInv /\ [Next]_vars => GuardInv'
  BY EveryStepGuard DEF QuietInv
<1>3. Spec => []QuietInv
  BY QuietInvHolds
<1> QED
  BY <1>1, <1>2, <1>3, PTL DEF Spec

(* A node that is Joining or Ready is let through the control plane's      *)
(* firewall as long as its machine is kept: the rule is opened before the  *)
(* node joins, is noted, and is only closed once the machine is given up   *)
(* (openControlPlane, closeControlPlane).                                  *)
THEOREM ReachesControlPlane == ASSUME Quiet PROVE Spec => []JoinedThroughFirewall
<1>1. GuardInv => JoinedThroughFirewall
  BY DEF GuardInv, RuleOK, JoinedThroughFirewall, Up
<1>2. Spec => []GuardInv
  BY GuardInvHolds
<1> QED
  BY <1>1, <1>2, PTL

(* While a node that holds data is Ready, its machine is deleted only      *)
(* because the node itself is (cloudReady, handleCloudDeletion).           *)
THEOREM DataIsKept == ASSUME Quiet PROVE Spec => DataKeepsItsMachine
<1> DEFINE Keeps == \A m \in Kept :
                      /\ ~Ephemeral
                      /\ obj.phase = "Ready" /\ obj.id = m
                      /\ machine'[m].st = "doomed"
                      => obj.deleting
<1>1. QuietInv /\ GuardInv /\ [Next]_vars => Keeps
  <2> SUFFICES ASSUME QuietInv, GuardInv, [Next]_vars, NEW m \in Kept, ~Ephemeral,
                      obj.phase = "Ready", obj.id = m, machine'[m].st = "doomed"
               PROVE  obj.deleting
    OBVIOUS
  <2>1. LeaseInv /\ CallsOK /\ PassOK
    BY DEF QuietInv, LeaseInv, TypeInv
  <2>2. PICK ok \in BOOLEAN : deleteMachine(ok)
    BY <2>1, OnlyDeletionsDoom DEF LeaseInv
  <2>3. pc = "delete" /\ why \in {"replace", "fail", "delete"}
    BY <2>1, <2>2 DEF deleteMachine, PassOK, GivingUp
  <2>4. why # "fail"
    BY <2>1, <2>3 DEF CallsOK
  <2>5. why # "replace"
    BY <2>3 DEF GuardInv, GivenUpOK
  <2> QED
    BY <2>3, <2>4, <2>5 DEF GuardInv, GivenUpOK, GivingUp
<1>2. Spec => []QuietInv /\ []GuardInv
  BY QuietInvHolds, GuardInvHolds
<1>3. DataKeepsItsMachine <=> [][Keeps]_vars
  BY DEF DataKeepsItsMachine
<1> HIDE DEF Keeps
<1> QED
  BY <1>1, <1>2, <1>3, PTL DEF Spec

(* The API server removes a node only when no machine that its status      *)
(* leads to is kept, or when its user abandoned it (letGo).                *)
THEOREM LetGoLast == ASSUME Quiet PROVE Spec => LetGoAfterItsMachine
<1> DEFINE Last == obj.here /\ ~obj'.here /\ ~obj.abandon => \A m \in Kept : ~Leads(m)
<1>1. QuietInv /\ [Next]_vars => Last
  BY EveryStepLease DEF QuietInv, LeaseStep, PayStep
<1>2. Spec => []QuietInv
  BY QuietInvHolds
<1>3. LetGoAfterItsMachine <=> [][Last]_vars
  BY DEF LetGoAfterItsMachine
<1> HIDE DEF Last
<1> QED
  BY <1>1, <1>2, <1>3, PTL DEF Spec
=============================================================================
