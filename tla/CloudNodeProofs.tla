-------------------------- MODULE CloudNodeProofs --------------------------
(***************************************************************************)
(* Proofs about CloudNode: type correctness for every value of the         *)
(* constants.                                                              *)
(***************************************************************************)
EXTENDS CloudNode, TLAPS

GivingUp == {"unlist", "delete", "close", "unnote", "note", "find2", "letGo", "drain"}

HasInst == {"record", "resume", "state", "open", "noteOpen", "claim", "install",
            "setJoining", "delete"}

(* What a pass holds at each of its calls.  TypeOK alone is not inductive: *)
(* a pass asks the provider about the machine in its copy, and goes on to  *)
(* a call that depends on what the machine is given up for.                *)
PassOK ==
    /\ pc = "get" => copy.id \in Machine
    /\ pc \in HasInst => inst \in Machine
    /\ pc \in GivingUp => why \in {"replace", "fail", "delete"}

TypeInv == TypeOK /\ PassOK

(* TypeOK in three parts: the node and its copies, what the pass holds,    *)
(* and the world around it.                                                *)
ApiOK ==
    /\ obj \in Node /\ cache \in Node /\ copy \in Node
    /\ watch \in Seq(Node) /\ Len(watch) <= Lag
    /\ fresh \in BOOLEAN

HeldOK ==
    /\ pc \in Pcs
    /\ inst \in MachineOrNone
    /\ state \in {"", "pending", "running", "stopped"}
    /\ att \in Attempts
    /\ why \in {"", "replace", "fail", "delete"}

WorldOK ==
    /\ machine \in [Machine -> [st : MachineState, name : Attempts, shown : BOOLEAN]]
    /\ rules \subseteq Machine
    /\ agents \subseteq Machine
    /\ knode \in [by : MachineOrNone, ready : BOOLEAN]
    /\ cluster \in BOOLEAN

-----------------------------------------------------------------------------
(* A write leaves the API server and the cache with nodes.                 *)
LEMMA WriteType ==
    ASSUME TypeOK, NEW o \in Node, Write(o)
    PROVE  /\ obj' \in Node /\ cache' \in Node
           /\ watch' \in Seq(Node) /\ Len(watch') <= Lag
<1>1. watch \in Seq(Node) /\ Len(watch) <= Lag /\ cache \in Node
  BY DEF TypeOK
<1>2. Append(watch, o) \in Seq(Node) /\ Len(Append(watch, o)) = Len(watch) + 1
  BY <1>1
<1>3. Len(watch) \in Nat /\ Lag \in Nat
  BY <1>1, ConstantsAssumption
<1>4. Append(watch, o) # <<>>
  BY <1>1, <1>2, <1>3
<1>5. Head(Append(watch, o)) \in Node /\ Tail(Append(watch, o)) \in Seq(Node)
      /\ Len(Tail(Append(watch, o))) = Len(watch)
  BY <1>2, <1>3, <1>4
<1>6. obj' \in Node
  BY DEF Write
<1>7. CASE Len(watch) < Lag
  <2>1. watch' = Append(watch, o) /\ cache' = cache
    BY <1>7 DEF Write
  <2> QED
    BY <2>1, <1>1, <1>2, <1>3, <1>6, <1>7
<1>8. CASE ~(Len(watch) < Lag)
  <2>1. watch' = Tail(Append(watch, o)) /\ cache' = Head(Append(watch, o))
    BY <1>8 DEF Write
  <2> QED
    BY <2>1, <1>1, <1>5, <1>6
<1> QED
  BY <1>7, <1>8

(* So does a status patch, and it leaves the pass with a node.             *)
LEMMA PatchType ==
    ASSUME TypeOK, NEW n \in Node, PatchStatus(n)
    PROVE  /\ obj' \in Node /\ cache' \in Node /\ copy' \in Node
           /\ watch' \in Seq(Node) /\ Len(watch') <= Lag
           /\ fresh' \in BOOLEAN
<1>1. CASE n = copy
  BY <1>1 DEF PatchStatus, TypeOK, apiVars
<1>2. CASE n # copy
  BY <1>2, WriteType DEF PatchStatus, TypeOK
<1> QED
  BY <1>1, <1>2

(* What the status writes of a pass make of a node is a node.              *)
LEMMA StatusType ==
    ASSUME TypeOK, NEW n \in Node
    PROVE  /\ StartedStatus(n) \in Node /\ ProblemStatus(n) \in Node
           /\ RecordedStatus(n) \in Node /\ SeenStatus(n) \in Node
           /\ OpenedStatus(n) \in Node /\ ClosedStatus(n) \in Node
           /\ JoiningStatus(n) \in Node /\ ReadyStatus(n) \in Node
           /\ RejoinStatus(n) \in Node /\ RetriedStatus(n) \in Node
           /\ att < MaxAttempt => GivenUpStatus(n) \in Node
<1>1. att \in Attempts /\ inst \in MachineOrNone
      /\ state \in {"", "pending", "running", "stopped"}
  BY DEF TypeOK
<1>2. att < MaxAttempt => att + 1 \in Attempts
  <2>1. att \in 0 .. MaxAttempt
    BY <1>1 DEF Attempts
  <2>2. MaxAttempt \in Nat
    BY ConstantsAssumption
  <2>3. att < MaxAttempt => att + 1 \in 0 .. MaxAttempt
    BY <2>1, <2>2
  <2> QED
    BY <2>3 DEF Attempts
<1>3. NoMachine \in MachineOrNone
  BY DEF MachineOrNone
<1>4. {"Pending", "Creating", "Joining", "Ready"} \subseteq Phases
  BY DEF Phases
<1>5. n.phase \in Phases
  BY DEF Node
<1>6. /\ StartedStatus(n) \in Node /\ ProblemStatus(n) \in Node
      /\ RecordedStatus(n) \in Node
  BY <1>1, <1>3, <1>4, Zenon DEF Node, StartedStatus, ProblemStatus, RecordedStatus
<1>7. /\ SeenStatus(n) \in Node /\ OpenedStatus(n) \in Node /\ ClosedStatus(n) \in Node
  BY <1>1, <1>3, Zenon DEF Node, SeenStatus, OpenedStatus, ClosedStatus
<1>8. /\ JoiningStatus(n) \in Node /\ ReadyStatus(n) \in Node
      /\ RejoinStatus(n) \in Node /\ RetriedStatus(n) \in Node
  BY <1>4, Zenon DEF Node, JoiningStatus, ReadyStatus, RejoinStatus, RetriedStatus
<1>9. ASSUME att < MaxAttempt PROVE GivenUpStatus(n) \in Node
  <2>1. att + 1 \in Attempts
    BY <1>2, <1>9
  <2>2. (IF why = "replace" THEN "Pending" ELSE n.phase) \in Phases
    BY <1>4, <1>5
  <2> QED
    BY <2>1, <2>2, <1>3, Zenon DEF Node, GivenUpStatus
<1> QED
  BY <1>6, <1>7, <1>8, <1>9

(* The parts are all of it.                                                *)
LEMMA TypeParts ==
    /\ TypeOK <=> ApiOK /\ HeldOK /\ WorldOK
    /\ TypeOK' <=> ApiOK' /\ HeldOK' /\ WorldOK'
  BY DEF TypeOK, ApiOK, HeldOK, WorldOK

LEMMA TypeInit == Init => TypeInv
<1> SUFFICES ASSUME Init PROVE TypeInv
  OBVIOUS
<1>1. NewNode \in Node
  BY ConstantsAssumption DEF NewNode, Node, Phases, Attempts, MachineOrNone
<1>2. watch \in Seq(Node) /\ Len(watch) <= Lag
  <2>1. watch = <<>>
    BY DEF Init
  <2>2. Lag \in Nat
    BY ConstantsAssumption
  <2> QED
    BY <2>1, <2>2
<1>3. 0 \in Attempts
  BY ConstantsAssumption DEF Attempts
<1>4. NoMachine \in MachineOrNone
  BY DEF MachineOrNone
<1>5. machine \in [Machine -> [st : MachineState, name : Attempts, shown : BOOLEAN]]
  <2>1. machine = [m \in Machine |-> [st |-> "unused", name |-> 0, shown |-> TRUE]]
    BY DEF Init
  <2>2. "unused" \in MachineState
    BY DEF MachineState
  <2> QED
    BY <2>1, <2>2, <1>3
<1>6. knode \in [by : MachineOrNone, ready : BOOLEAN]
  BY <1>4 DEF Init
<1>7. TypeOK
  BY <1>1, <1>2, <1>3, <1>4, <1>5, <1>6 DEF Init, TypeOK, Pcs
<1>8. PassOK
  BY DEF Init, PassOK, HasInst, GivingUp
<1> QED
  BY <1>7, <1>8 DEF TypeInv

(* The steps of a pass that patch the status.                              *)
LEMMA PatchStepType ==
    ASSUME TypeInv,
           \/ cloudStart \/ waitCloudProblem \/ recordMachine \/ noteState
           \/ noteOpen \/ setJoining \/ markNodeReady \/ rejoin
           \/ noteClosed \/ noteGivenUp \/ handleRetry
    PROVE  TypeInv'
<1>1. TypeOK /\ ApiOK /\ HeldOK /\ WorldOK /\ PassOK /\ copy \in Node
  BY TypeParts DEF TypeInv, ApiOK
<1>2. CASE cloudStart
  <2>1. StartedStatus(copy) \in Node
    BY <1>1, <1>2, StatusType DEF cloudStart
  <2>2. ApiOK'
    BY <1>1, <1>2, <2>1, PatchType DEF cloudStart, ApiOK
  <2>3. HeldOK' /\ PassOK'
    BY <1>1, <1>2 DEF cloudStart, HeldOK, PassOK, Pcs, HasInst, GivingUp
  <2> QED
    BY <1>1, <1>2, <2>2, <2>3, TypeParts DEF cloudStart, TypeInv, WorldOK, cloudVars, kubeVars
<1>3. CASE waitCloudProblem
  <2>1. ProblemStatus(copy) \in Node
    BY <1>1, <1>3, StatusType DEF waitCloudProblem
  <2>2. ApiOK'
    BY <1>1, <1>3, <2>1, PatchType DEF waitCloudProblem, ApiOK
  <2>3. HeldOK' /\ PassOK'
    BY <1>1, <1>3 DEF waitCloudProblem, HeldOK, PassOK, Pcs, HasInst, GivingUp
  <2> QED
    BY <1>1, <1>3, <2>2, <2>3, TypeParts DEF waitCloudProblem, TypeInv, WorldOK, cloudVars, kubeVars
<1>4. CASE recordMachine
  <2>1. RecordedStatus(copy) \in Node
    BY <1>1, <1>4, StatusType DEF recordMachine
  <2>2. ApiOK'
    BY <1>1, <1>4, <2>1, PatchType DEF recordMachine, ApiOK
  <2>3. HeldOK' /\ PassOK'
    BY <1>1, <1>4 DEF recordMachine, HeldOK, PassOK, Pcs, HasInst, GivingUp
  <2> QED
    BY <1>1, <1>4, <2>2, <2>3, TypeParts DEF recordMachine, TypeInv, WorldOK, cloudVars, kubeVars
<1>5. CASE noteState
  <2>1. SeenStatus(copy) \in Node
    BY <1>1, <1>5, StatusType DEF noteState
  <2>2. ApiOK'
    BY <1>1, <1>5, <2>1, PatchType DEF noteState, ApiOK
  <2>3. HeldOK' /\ PassOK'
    BY <1>1, <1>5 DEF noteState, HeldOK, PassOK, Pcs, HasInst, GivingUp
  <2> QED
    BY <1>1, <1>5, <2>2, <2>3, TypeParts DEF noteState, TypeInv, WorldOK, cloudVars, kubeVars
<1>6. CASE noteOpen
  <2>1. OpenedStatus(copy) \in Node
    BY <1>1, <1>6, StatusType DEF noteOpen
  <2>2. ApiOK'
    BY <1>1, <1>6, <2>1, PatchType DEF noteOpen, ApiOK
  <2>3. HeldOK' /\ PassOK'
    BY <1>1, <1>6 DEF noteOpen, HeldOK, PassOK, Pcs, HasInst, GivingUp
  <2> QED
    BY <1>1, <1>6, <2>2, <2>3, TypeParts DEF noteOpen, TypeInv, WorldOK, cloudVars, kubeVars
<1>7. CASE setJoining
  <2>1. JoiningStatus(copy) \in Node
    BY <1>1, <1>7, StatusType DEF setJoining
  <2>2. ApiOK'
    BY <1>1, <1>7, <2>1, PatchType DEF setJoining, ApiOK
  <2>3. HeldOK' /\ PassOK'
    BY <1>1, <1>7 DEF setJoining, HeldOK, PassOK, Pcs, HasInst, GivingUp
  <2> QED
    BY <1>1, <1>7, <2>2, <2>3, TypeParts DEF setJoining, TypeInv, WorldOK, cloudVars, kubeVars
<1>8. CASE markNodeReady
  <2>1. ReadyStatus(copy) \in Node
    BY <1>1, <1>8, StatusType DEF markNodeReady
  <2>2. ApiOK'
    BY <1>1, <1>8, <2>1, PatchType DEF markNodeReady, ApiOK
  <2>3. HeldOK' /\ PassOK'
    BY <1>1, <1>8 DEF markNodeReady, HeldOK, PassOK, Pcs, HasInst, GivingUp
  <2> QED
    BY <1>1, <1>8, <2>2, <2>3, TypeParts DEF markNodeReady, TypeInv, WorldOK, cloudVars, kubeVars
<1>9. CASE rejoin
  <2>1. RejoinStatus(copy) \in Node
    BY <1>1, <1>9, StatusType DEF rejoin
  <2>2. ApiOK'
    BY <1>1, <1>9, <2>1, PatchType DEF rejoin, ApiOK
  <2>3. HeldOK' /\ PassOK'
    BY <1>1, <1>9 DEF rejoin, HeldOK, PassOK, Pcs, HasInst, GivingUp
  <2> QED
    BY <1>1, <1>9, <2>2, <2>3, TypeParts DEF rejoin, TypeInv, WorldOK, cloudVars, kubeVars
<1>10. CASE noteGivenUp
  <2>1. GivenUpStatus(copy) \in Node
    BY <1>1, <1>10, StatusType DEF noteGivenUp
  <2>2. ApiOK'
    BY <1>1, <1>10, <2>1, PatchType DEF noteGivenUp, ApiOK
  <2>3. HeldOK' /\ PassOK'
    BY <1>1, <1>10 DEF noteGivenUp, HeldOK, PassOK, Pcs, HasInst, GivingUp
  <2> QED
    BY <1>1, <1>10, <2>2, <2>3, TypeParts DEF noteGivenUp, TypeInv, WorldOK, cloudVars, kubeVars
<1>11. CASE handleRetry
  <2>1. RetriedStatus(copy) \in Node
    BY <1>1, <1>11, StatusType DEF handleRetry
  <2>2. ApiOK'
    BY <1>1, <1>11, <2>1, PatchType DEF handleRetry, ApiOK
  <2>3. HeldOK' /\ PassOK'
    BY <1>1, <1>11 DEF handleRetry, HeldOK, PassOK, Pcs, HasInst, GivingUp
  <2> QED
    BY <1>1, <1>11, <2>2, <2>3, TypeParts DEF handleRetry, TypeInv, WorldOK, cloudVars, kubeVars
<1>12. CASE noteClosed
  <2>1. ClosedStatus(copy) \in Node
    BY <1>1, <1>12, StatusType DEF noteClosed
  <2>2. ApiOK'
    BY <1>1, <1>12, <2>1, PatchType DEF noteClosed, ApiOK
  <2>3. copy'.attempt \in Attempts
    BY <2>2 DEF ApiOK, Node
  <2>4. HeldOK' /\ PassOK'
    BY <1>1, <1>12, <2>3 DEF noteClosed, HeldOK, PassOK, Pcs, HasInst, GivingUp, AfterClose
  <2> QED
    BY <1>1, <1>12, <2>2, <2>4, TypeParts DEF noteClosed, TypeInv, WorldOK, cloudVars, kubeVars
<1> QED
  BY <1>2, <1>3, <1>4, <1>5, <1>6, <1>7, <1>8, <1>9, <1>10, <1>11, <1>12

(* What the provider answers to a create: a machine it reports as alive.   *)
LEMMA CreateType ==
    ASSUME WorldOK, NEW a \in Attempts, NEW m \in Machine, Create(a, m)
    PROVE  /\ machine' \in [Machine -> [st : MachineState, name : Attempts, shown : BOOLEAN]]
           /\ machine'[m].st \in {"pending", "running", "stopped", "doomed"}
<1> DEFINE same == {k \in Machine : Alive(k) /\ machine[k].name = a}
           new(shown) == [st |-> "pending", name |-> a, shown |-> shown]
<1>1. machine \in [Machine -> [st : MachineState, name : Attempts, shown : BOOLEAN]]
  BY DEF WorldOK
<1>2. CASE same # {}
  <2>1. /\ m \in same
        /\ \/ machine' = machine
           \/ machine[m].st = "stopped" /\ machine' = [machine EXCEPT ![m].st = "pending"]
    BY <1>2, Zenon DEF Create
  <2>2. machine[m].st \in {"pending", "running", "stopped", "doomed"}
    BY <2>1 DEF Alive
  <2> HIDE DEF same
  <2> QED
    BY <1>1, <2>1, <2>2 DEF MachineState
<1>3. CASE same = {}
  <2>1. PICK shown \in {TRUE, ~ShowsLate} : machine' = [machine EXCEPT ![m] = new(shown)]
    BY <1>3, Zenon DEF Create
  <2>2. shown \in BOOLEAN
    BY SwitchesAssumption
  <2>3. new(shown) \in [st : MachineState, name : Attempts, shown : BOOLEAN]
    BY <2>2 DEF MachineState
  <2>4. new(shown).st = "pending"
    OBVIOUS
  <2> HIDE DEF same, new
  <2> QED
    BY <1>1, <2>1, <2>3, <2>4
<1> QED
  BY <1>2, <1>3

(* A pass takes a machine the provider reports as alive.                   *)
LEMMA TakeType ==
    ASSUME NEW m \in Machine, NEW st \in {"pending", "running", "stopped", "doomed"}, Take(m, st)
    PROVE  inst' \in Machine /\ state' \in {"pending", "running", "stopped"}
  BY DEF Take

(* The steps of a pass that call the provider, the firewall, the machine   *)
(* or Kubernetes, or that only look: they leave the node as it is.         *)
LEMMA CallStepType ==
    ASSUME TypeInv, NEW ok \in BOOLEAN,
           \/ findMachine \/ createMachine(ok) \/ cloudCreateFailed \/ getMachine
           \/ resumeMachine \/ openControlPlane(ok) \/ openControlPlaneFailed
           \/ cloudJoinRefused \/ cloudJoin \/ cloudJoining \/ cloudReady \/ drain
           \/ removeKubernetesNode \/ findMachineToDelete \/ deleteMachine(ok)
           \/ closeControlPlane(ok) \/ Return
    PROVE  TypeInv'
<1>1. TypeOK /\ ApiOK /\ HeldOK /\ WorldOK /\ PassOK /\ copy \in Node
  BY TypeParts DEF TypeInv, ApiOK
<1>2. copy.id \in MachineOrNone /\ copy.attempt \in Attempts
  BY <1>1 DEF Node
<1>3. \A m \in Machine : /\ machine[m].st \in MachineState
                         /\ Alive(m) => machine[m].st \in {"pending", "running", "stopped", "doomed"}
  BY <1>1 DEF WorldOK, Alive
<1>4. ApiOK'
  <2>1. UNCHANGED <<obj, cache, watch, copy, fresh>>
    BY DEF findMachine, createMachine, cloudCreateFailed, getMachine, resumeMachine,
       openControlPlane, openControlPlaneFailed, cloudJoinRefused, cloudJoin,
       cloudJoining, cloudReady, drain, removeKubernetesNode, findMachineToDelete,
       deleteMachine, closeControlPlane, Return, Goto, apiVars
  <2> QED
    BY <1>1, <2>1 DEF ApiOK
<1>5. CASE findMachine
  <2>1. HeldOK' /\ PassOK'
    <3>1. CASE pc' = "create" /\ UNCHANGED <<inst, state>>
      BY <1>1, <1>5, <3>1 DEF findMachine, HeldOK, PassOK, Pcs, HasInst, GivingUp
    <3>2. ASSUME NEW m \in Listed(copy.attempt), Take(m, machine[m].st), pc' = "record"
          PROVE  HeldOK' /\ PassOK'
      <4>1. m \in Machine /\ machine[m].st \in {"pending", "running", "stopped", "doomed"}
        BY <1>3 DEF Listed
      <4>2. inst' \in Machine /\ state' \in {"pending", "running", "stopped"}
        BY <3>2, <4>1, TakeType
      <4> QED
        BY <1>1, <1>5, <3>2, <4>2 DEF findMachine, HeldOK, PassOK, Pcs, HasInst, GivingUp, MachineOrNone
    <3> QED
      BY <1>5, <3>1, <3>2 DEF findMachine
  <2>2. WorldOK'
    BY <1>1, <1>5 DEF findMachine, WorldOK, cloudVars, kubeVars
  <2> QED
    BY <1>4, <2>1, <2>2, TypeParts DEF TypeInv
<1>6. CASE createMachine(ok)
  <2>1. PICK m \in Machine :
          /\ Create(copy.attempt, m)
          /\ \/ Take(m, machine'[m].st) /\ pc' = "record"
             \/ UNCHANGED <<inst, state>> /\ pc' = "idle"
    BY <1>6 DEF createMachine
  <2>2. /\ machine' \in [Machine -> [st : MachineState, name : Attempts, shown : BOOLEAN]]
        /\ machine'[m].st \in {"pending", "running", "stopped", "doomed"}
    BY <1>1, <1>2, <2>1, CreateType
  <2>3. \/ inst' \in Machine /\ state' \in {"pending", "running", "stopped"} /\ pc' = "record"
        \/ UNCHANGED <<inst, state>> /\ pc' = "idle"
    BY <2>1, <2>2, TakeType
  <2>4. HeldOK' /\ PassOK'
    BY <1>1, <1>6, <2>3 DEF createMachine, HeldOK, PassOK, Pcs, HasInst, GivingUp, MachineOrNone
  <2>5. WorldOK'
    BY <1>1, <1>6, <2>2 DEF createMachine, WorldOK, kubeVars
  <2> QED
    BY <1>4, <2>4, <2>5, TypeParts DEF TypeInv
<1>7. CASE cloudCreateFailed
  <2>1. HeldOK' /\ PassOK'
    BY <1>1, <1>2, <1>7 DEF cloudCreateFailed, Goto, HeldOK, PassOK, Pcs, HasInst, GivingUp
  <2>2. WorldOK'
    BY <1>1, <1>7 DEF cloudCreateFailed, Goto, WorldOK, cloudVars, kubeVars
  <2> QED
    BY <1>4, <2>1, <2>2, TypeParts DEF TypeInv
<1>8. CASE getMachine
  <2>0. copy.id \in Machine
    BY <1>1, <1>8 DEF getMachine, PassOK
  <2>3. Alive(copy.id) => machine[copy.id].st \in {"pending", "running", "stopped", "doomed"}
    BY <1>3, <2>0
  <2>1. HeldOK' /\ PassOK'
    BY <1>1, <1>8, <2>0, <2>3 DEF getMachine, Take, HeldOK, PassOK, Pcs, HasInst, GivingUp, MachineOrNone
  <2>2. WorldOK'
    BY <1>1, <1>8 DEF getMachine, WorldOK, cloudVars, kubeVars
  <2> QED
    BY <1>4, <2>1, <2>2, TypeParts DEF TypeInv
<1>9. CASE resumeMachine
  <2>1. inst \in Machine
    BY <1>1, <1>9 DEF resumeMachine, PassOK, HasInst
  <2>2. ASSUME NEW m \in Machine, Create(copy.attempt, m),
               Take(m, machine'[m].st) \/ UNCHANGED <<inst, state>>
        PROVE  /\ machine' \in [Machine -> [st : MachineState, name : Attempts, shown : BOOLEAN]]
               /\ inst' \in Machine /\ state' \in {"pending", "running", "stopped", state}
    <3>1. /\ machine' \in [Machine -> [st : MachineState, name : Attempts, shown : BOOLEAN]]
          /\ machine'[m].st \in {"pending", "running", "stopped", "doomed"}
      BY <1>1, <1>2, <2>2, CreateType
    <3> QED
      BY <2>1, <2>2, <3>1, TakeType
  <2>3. /\ machine' \in [Machine -> [st : MachineState, name : Attempts, shown : BOOLEAN]]
        /\ inst' \in Machine /\ state' \in {"pending", "running", "stopped", state}
    BY <1>1, <1>9, <2>1, <2>2 DEF resumeMachine, WorldOK
  <2>4. HeldOK' /\ PassOK'
    BY <1>1, <1>9, <2>3 DEF resumeMachine, HeldOK, PassOK, Pcs, HasInst, GivingUp, MachineOrNone
  <2>5. WorldOK'
    BY <1>1, <1>9, <2>3 DEF resumeMachine, WorldOK, kubeVars
  <2> QED
    BY <1>4, <2>4, <2>5, TypeParts DEF TypeInv
<1>10. CASE openControlPlane(ok)
  <2>1. HeldOK' /\ PassOK'
    BY <1>1, <1>2, <1>10 DEF openControlPlane, HeldOK, PassOK, Pcs, HasInst, GivingUp
  <2>2. WorldOK'
    BY <1>1, <1>10 DEF openControlPlane, PassOK, HasInst, WorldOK, cloudVars, kubeVars
  <2> QED
    BY <1>4, <2>1, <2>2, TypeParts DEF TypeInv
<1>11. CASE openControlPlaneFailed
  <2>1. HeldOK' /\ PassOK'
    BY <1>1, <1>2, <1>11 DEF openControlPlaneFailed, Goto, HeldOK, PassOK, Pcs, HasInst, GivingUp
  <2>2. WorldOK'
    BY <1>1, <1>11 DEF openControlPlaneFailed, Goto, WorldOK, cloudVars, kubeVars
  <2> QED
    BY <1>4, <2>1, <2>2, TypeParts DEF TypeInv
<1>12. CASE cloudJoinRefused
  <2>1. HeldOK' /\ PassOK'
    BY <1>1, <1>2, <1>12 DEF cloudJoinRefused, Goto, HeldOK, PassOK, Pcs, HasInst, GivingUp
  <2>2. WorldOK'
    BY <1>1, <1>12 DEF cloudJoinRefused, Goto, WorldOK, cloudVars, kubeVars
  <2> QED
    BY <1>4, <2>1, <2>2, TypeParts DEF TypeInv
<1>13. CASE cloudJoin
  <2>1. HeldOK' /\ PassOK'
    BY <1>1, <1>2, <1>13 DEF cloudJoin, HeldOK, PassOK, Pcs, HasInst, GivingUp
  <2>2. WorldOK'
    BY <1>1, <1>13 DEF cloudJoin, PassOK, HasInst, WorldOK, cloudVars, kubeVars
  <2> QED
    BY <1>4, <2>1, <2>2, TypeParts DEF TypeInv
<1>14. CASE cloudJoining
  <2>1. HeldOK' /\ PassOK'
    BY <1>1, <1>2, <1>14 DEF cloudJoining, HeldOK, PassOK, Pcs, HasInst, GivingUp
  <2>2. WorldOK'
    BY <1>1, <1>14 DEF cloudJoining, WorldOK, cloudVars, kubeVars
  <2> QED
    BY <1>4, <2>1, <2>2, TypeParts DEF TypeInv
<1>15. CASE cloudReady
  <2>1. HeldOK' /\ PassOK'
    BY <1>1, <1>2, <1>15 DEF cloudReady, HeldOK, PassOK, Pcs, HasInst, GivingUp
  <2>2. WorldOK'
    BY <1>1, <1>15 DEF cloudReady, WorldOK, cloudVars, kubeVars
  <2> QED
    BY <1>4, <2>1, <2>2, TypeParts DEF TypeInv
<1>16. CASE drain
  <2>1. HeldOK' /\ PassOK'
    BY <1>1, <1>2, <1>16 DEF drain, Goto, HeldOK, PassOK, Pcs, HasInst, GivingUp
  <2>2. WorldOK'
    BY <1>1, <1>16 DEF drain, Goto, WorldOK, cloudVars, kubeVars
  <2> QED
    BY <1>4, <2>1, <2>2, TypeParts DEF TypeInv
<1>17. CASE removeKubernetesNode
  <2>1. HeldOK' /\ PassOK'
    BY <1>1, <1>2, <1>17 DEF removeKubernetesNode, AfterUnlist, AfterDelete, AfterClose, HeldOK, PassOK, Pcs, HasInst, GivingUp, MachineOrNone
  <2>2. WorldOK'
    <3>1. knode \in [by : MachineOrNone, ready : BOOLEAN]
      BY <1>1 DEF WorldOK
    <3>2. [by |-> NoMachine, ready |-> FALSE] \in [by : MachineOrNone, ready : BOOLEAN]
      BY DEF MachineOrNone
    <3>3. knode' = knode \/ knode' = [by |-> NoMachine, ready |-> FALSE]
      BY <1>17 DEF removeKubernetesNode
    <3>4. knode' \in [by : MachineOrNone, ready : BOOLEAN]
      BY <3>1, <3>2, <3>3
    <3> QED
      BY <1>1, <1>17, <3>4 DEF removeKubernetesNode, WorldOK, cloudVars, kubeVars
  <2> QED
    BY <1>4, <2>1, <2>2, TypeParts DEF TypeInv
<1>18. CASE findMachineToDelete
  <2>1. HeldOK' /\ PassOK'
    BY <1>1, <1>2, <1>18 DEF findMachineToDelete, AfterDelete, AfterClose, Listed, MachineOrNone, HeldOK, PassOK, Pcs, HasInst, GivingUp
  <2>2. WorldOK'
    BY <1>1, <1>18 DEF findMachineToDelete, WorldOK, cloudVars, kubeVars
  <2> QED
    BY <1>4, <2>1, <2>2, TypeParts DEF TypeInv
<1>19. CASE deleteMachine(ok)
  <2>1. HeldOK' /\ PassOK'
    BY <1>1, <1>19 DEF deleteMachine, AfterDelete, AfterClose, HeldOK, PassOK, Pcs, HasInst, GivingUp
  <2>2. WorldOK'
    <3>1. machine' \in [Machine -> [st : MachineState, name : Attempts, shown : BOOLEAN]]
      BY <1>1, <1>19 DEF deleteMachine, WorldOK, MachineState
    <3> QED
      BY <1>1, <1>19, <3>1 DEF deleteMachine, WorldOK, cloudVars, kubeVars
  <2> QED
    BY <1>4, <2>1, <2>2, TypeParts DEF TypeInv
<1>20. CASE closeControlPlane(ok)
  <2>1. HeldOK' /\ PassOK'
    BY <1>1, <1>2, <1>20 DEF closeControlPlane, HeldOK, PassOK, Pcs, HasInst, GivingUp
  <2>2. WorldOK'
    BY <1>1, <1>20 DEF closeControlPlane, WorldOK, cloudVars, kubeVars
  <2> QED
    BY <1>4, <2>1, <2>2, TypeParts DEF TypeInv
<1>21. CASE Return
  <2>1. HeldOK' /\ PassOK'
    BY <1>1, <1>2, <1>21 DEF Return, HeldOK, PassOK, Pcs, HasInst, GivingUp
  <2>2. WorldOK'
    BY <1>1, <1>21 DEF Return, WorldOK, cloudVars, kubeVars
  <2> QED
    BY <1>4, <2>1, <2>2, TypeParts DEF TypeInv
<1> QED
  BY <1>5, <1>6, <1>7, <1>8, <1>9, <1>10, <1>11, <1>12, <1>13, <1>14, <1>15, <1>16, <1>17, <1>18, <1>19, <1>20, <1>21

(* Where a pass goes with the copy n.                                      *)
LEMMA RouteType ==
    ASSUME NEW n \in Node, cluster \in BOOLEAN
    PROVE  /\ reconcileCloudWorker(n) \in {"setFailed", "start", "find", "get", "joining",
                                          "ready", "delete", "retry", "idle"}
           /\ reconcileCloudWorker(n) \in {"get", "delete"} => n.id # NoMachine
<1>1. n.retry \in BOOLEAN /\ n.named \in BOOLEAN /\ n.phase \in Phases
  BY DEF Node
<1> QED
  BY <1>1 DEF reconcileCloudWorker, Phases

(* The steps that begin or end a pass, or write to the node some other     *)
(* way.                                                                    *)
LEMMA EdgeStepType ==
    ASSUME TypeInv,
           \/ AddFinalizer \/ Reconcile \/ dropRetryAnnotation \/ handleDeletion
           \/ Conflict \/ setFailed \/ claimJoin \/ handleRetryDrop \/ letGo \/ Crash \/ Sync
    PROVE  TypeInv'
<1>1. TypeOK /\ ApiOK /\ HeldOK /\ WorldOK /\ PassOK
      /\ obj \in Node /\ cache \in Node /\ copy \in Node
  BY TypeParts DEF TypeInv, ApiOK
<1>2. CASE AddFinalizer
  <2>0. [obj EXCEPT !.finalizer = TRUE] \in Node
    BY <1>1, <1>2, Zenon DEF Node
  <2>1. ApiOK'
    BY <1>1, <1>2, <2>0, WriteType DEF AddFinalizer, ApiOK, apiVars, passVars
  <2>2. HeldOK' /\ PassOK'
    BY <1>1, <1>2 DEF AddFinalizer, passVars, HeldOK, PassOK
  <2>3. WorldOK'
    BY <1>1, <1>2 DEF AddFinalizer, WorldOK, cloudVars, kubeVars
  <2> QED
    BY <2>1, <2>2, <2>3, TypeParts DEF TypeInv
<1>3. CASE Reconcile
  <2>0. cache.id \in MachineOrNone /\ cache.attempt \in Attempts
        /\ cache.seen \in {"", "pending", "running", "stopped"}
    BY <1>1 DEF Node
  <2>1. ApiOK'
    BY <1>1, <1>3 DEF Reconcile, Begin, ApiOK, apiVars
  <2>5. /\ pc' = reconcileCloudWorker(cache) /\ inst' = cache.id /\ copy' = cache
        /\ state' = cache.seen /\ att' = cache.attempt
        /\ why' = IF pc' = "delete" THEN "fail" ELSE ""
    BY <1>3 DEF Reconcile, Begin
  <2>6. /\ pc' \in {"setFailed", "start", "find", "get", "joining", "ready", "delete", "retry", "idle"}
        /\ pc' \in {"get", "delete"} => cache.id \in Machine
    BY <1>1, <2>0, <2>5, RouteType DEF MachineOrNone, WorldOK
  <2>2. HeldOK' /\ PassOK'
    BY <1>1, <2>0, <2>5, <2>6 DEF HeldOK, PassOK, Pcs, HasInst, GivingUp
  <2>3. WorldOK'
    BY <1>1, <1>3 DEF Reconcile, WorldOK, cloudVars, kubeVars
  <2> QED
    BY <2>1, <2>2, <2>3, TypeParts DEF TypeInv
<1>4. CASE dropRetryAnnotation
  <2> DEFINE n == [obj EXCEPT !.retry = FALSE]
  <2>0. n \in Node
    BY <1>1, Zenon DEF Node
  <2>4. n.id \in MachineOrNone /\ n.attempt \in Attempts
        /\ n.seen \in {"", "pending", "running", "stopped"}
    BY <2>0 DEF Node
  <2>5. /\ IF obj.retry THEN Write(n) ELSE UNCHANGED apiVars
        /\ Begin(n, TRUE)
        /\ pc' = reconcileCloudWorker(n)
        /\ why' = IF pc' = "delete" THEN "fail" ELSE ""
    BY <1>4 DEF dropRetryAnnotation
  <2> HIDE DEF n
  <2>1. ApiOK'
    <3>1. CASE obj.retry
      BY <1>1, <2>0, <2>5, <3>1, WriteType DEF Begin, ApiOK
    <3>2. CASE ~obj.retry
      BY <1>1, <2>0, <2>5, <3>2 DEF Begin, ApiOK, apiVars
    <3> QED
      BY <3>1, <3>2
  <2>6. /\ pc' \in {"setFailed", "start", "find", "get", "joining", "ready", "delete", "retry", "idle"}
        /\ pc' \in {"get", "delete"} => n.id \in Machine
    BY <1>1, <2>0, <2>4, <2>5, RouteType DEF MachineOrNone, WorldOK
  <2>2. HeldOK' /\ PassOK'
    BY <1>1, <2>4, <2>5, <2>6 DEF Begin, HeldOK, PassOK, Pcs, HasInst, GivingUp
  <2>3. WorldOK'
    BY <1>1, <1>4 DEF dropRetryAnnotation, WorldOK, cloudVars, kubeVars
  <2> QED
    BY <2>1, <2>2, <2>3, TypeParts DEF TypeInv
<1>5. CASE handleDeletion
  <2>0. cache.id \in MachineOrNone /\ cache.attempt \in Attempts
        /\ cache.seen \in {"", "pending", "running", "stopped"}
    BY <1>1 DEF Node
  <2>1. ApiOK'
    BY <1>1, <1>5 DEF handleDeletion, Begin, ApiOK, apiVars
  <2>2. HeldOK' /\ PassOK'
    BY <1>1, <1>5, <2>0 DEF handleDeletion, Begin, HeldOK, PassOK, Pcs, HasInst, GivingUp
  <2>3. WorldOK'
    BY <1>1, <1>5 DEF handleDeletion, WorldOK, cloudVars, kubeVars
  <2> QED
    BY <2>1, <2>2, <2>3, TypeParts DEF TypeInv
<1>6. CASE Conflict
  <2>0. pc # "get"
    BY <1>1, <1>6 DEF Conflict, PatchConflict, Mutated
  <2>1. ApiOK'
    BY <1>1, <1>6 DEF Conflict, PatchConflict, ApiOK, apiVars
  <2>2. HeldOK' /\ PassOK'
    BY <1>1, <1>6, <2>0 DEF Conflict, PatchConflict, HeldOK, PassOK
  <2>3. WorldOK'
    BY <1>1, <1>6 DEF Conflict, PatchConflict, WorldOK, cloudVars, kubeVars
  <2> QED
    BY <2>1, <2>2, <2>3, TypeParts DEF TypeInv
<1>7. CASE setFailed
  <2>0. [copy EXCEPT !.phase = "Failed"] \in Node
    <3>1. "Failed" \in Phases
      BY DEF Phases
    <3> QED
      BY <1>1, <3>1, Zenon DEF Node
  <2>1. ApiOK'
    BY <1>1, <1>7, <2>0, WriteType DEF setFailed, ApiOK, apiVars
  <2>2. HeldOK' /\ PassOK'
    BY <1>1, <1>7 DEF setFailed, HeldOK, PassOK, Pcs, HasInst, GivingUp
  <2>3. WorldOK'
    BY <1>1, <1>7 DEF setFailed, WorldOK, cloudVars, kubeVars
  <2> QED
    BY <2>1, <2>2, <2>3, TypeParts DEF TypeInv
<1>8. CASE claimJoin
  <2>1. ApiOK'
    BY <1>1, <1>8, WriteType DEF claimJoin, ApiOK, apiVars
  <2>2. HeldOK' /\ PassOK'
    BY <1>1, <1>8 DEF claimJoin, HeldOK, PassOK, Pcs, HasInst, GivingUp
  <2>3. WorldOK'
    BY <1>1, <1>8 DEF claimJoin, WorldOK, cloudVars, kubeVars
  <2> QED
    BY <2>1, <2>2, <2>3, TypeParts DEF TypeInv
<1>9. CASE handleRetryDrop
  <2>0. [obj EXCEPT !.retry = FALSE] \in Node
    BY <1>1, <1>9, Zenon DEF Node
  <2>1. ApiOK'
    BY <1>1, <1>9, <2>0, WriteType DEF handleRetryDrop, ApiOK, apiVars, passVars
  <2>2. HeldOK' /\ PassOK'
    BY <1>1, <1>9 DEF handleRetryDrop, HeldOK, PassOK, Pcs, HasInst, GivingUp
  <2>3. WorldOK'
    BY <1>1, <1>9 DEF handleRetryDrop, WorldOK, cloudVars, kubeVars
  <2> QED
    BY <2>1, <2>2, <2>3, TypeParts DEF TypeInv
<1>10. CASE letGo
  <2>0. [copy EXCEPT !.finalizer = FALSE, !.here = FALSE] \in Node
    BY <1>1, <1>10, Zenon DEF Node
  <2>1. ApiOK'
    BY <1>1, <1>10, <2>0, WriteType DEF letGo, ApiOK, apiVars, passVars
  <2>2. HeldOK' /\ PassOK'
    BY <1>1, <1>10 DEF letGo, HeldOK, PassOK, Pcs, HasInst, GivingUp
  <2>3. WorldOK'
    BY <1>1, <1>10 DEF letGo, WorldOK, cloudVars, kubeVars
  <2> QED
    BY <2>1, <2>2, <2>3, TypeParts DEF TypeInv
<1>11. CASE Crash
  <2>0. <<>> \in Seq(Node) /\ Len(<<>>) <= Lag
    <3>1. Lag \in Nat
      BY ConstantsAssumption
    <3> QED
      BY <3>1
  <2>1. ApiOK'
    BY <1>1, <1>11, <2>0 DEF Crash, ApiOK
  <2>2. HeldOK' /\ PassOK'
    BY <1>1, <1>11 DEF Crash, HeldOK, PassOK, Pcs, HasInst, GivingUp
  <2>3. WorldOK'
    BY <1>1, <1>11 DEF Crash, WorldOK, cloudVars, kubeVars
  <2> QED
    BY <2>1, <2>2, <2>3, TypeParts DEF TypeInv
<1>12. CASE Sync
  <2>0. watch \in Seq(Node) /\ watch # <<>> /\ Len(watch) <= Lag /\ Lag \in Nat
    BY <1>1, <1>12, ConstantsAssumption DEF Sync, ApiOK
  <2>4. Head(watch) \in Node /\ Tail(watch) \in Seq(Node) /\ Len(Tail(watch)) <= Lag
    BY <2>0
  <2>1. ApiOK'
    BY <1>1, <1>12, <2>4 DEF Sync, ApiOK, passVars
  <2>2. HeldOK' /\ PassOK'
    BY <1>1, <1>12 DEF Sync, passVars, HeldOK, PassOK
  <2>3. WorldOK'
    BY <1>1, <1>12 DEF Sync, WorldOK, cloudVars, kubeVars
  <2> QED
    BY <2>1, <2>2, <2>3, TypeParts DEF TypeInv
<1> QED
  BY <1>2, <1>3, <1>4, <1>5, <1>6, <1>7, <1>8, <1>9, <1>10, <1>11, <1>12

(* The steps of the user, the provider, the machines and the cluster.      *)
LEMMA UserStepType ==
    ASSUME TypeInv, DeleteNode \/ AskRetry \/ AskAbandon
    PROVE  TypeInv'
<1>1. TypeOK /\ ApiOK /\ HeldOK /\ WorldOK /\ PassOK
      /\ obj \in Node /\ cache \in Node /\ copy \in Node
  BY TypeParts DEF TypeInv, ApiOK
<1>2. ASSUME NEW n \in Node, UserWrite(n) PROVE TypeInv'
  <2>1. ApiOK'
    BY <1>1, <1>2, WriteType DEF UserWrite, ApiOK
  <2>2. HeldOK' /\ PassOK'
    BY <1>1, <1>2 DEF UserWrite, HeldOK, PassOK
  <2>3. WorldOK'
    BY <1>1, <1>2 DEF UserWrite, WorldOK, cloudVars, kubeVars
  <2> QED
    BY <2>1, <2>2, <2>3, TypeParts DEF TypeInv
<1>4. CASE DeleteNode
  <2>1. obj.finalizer \in BOOLEAN
    BY <1>1 DEF Node
  <2>2. [obj EXCEPT !.deleting = TRUE, !.here = obj.finalizer] \in Node
    BY <1>1, <2>1, Zenon DEF Node
  <2> QED
    BY <1>2, <1>4, <2>2 DEF DeleteNode
<1>5. CASE AskRetry
  <2>1. [obj EXCEPT !.retry = TRUE] \in Node
    BY <1>1, Zenon DEF Node
  <2> QED
    BY <1>2, <1>5, <2>1 DEF AskRetry
<1>6. CASE AskAbandon
  <2>1. [obj EXCEPT !.abandon = TRUE] \in Node
    BY <1>1, Zenon DEF Node
  <2> QED
    BY <1>2, <1>6, <2>1 DEF AskAbandon
<1> QED
  BY <1>4, <1>5, <1>6

LEMMA WorldStepType ==
    ASSUME TypeInv, NEW m \in Machine,
           \/ Boot(m) \/ PowerOff(m) \/ Vanish(m) \/ Removed(m) \/ Show(m) \/ Register(m)
    PROVE  TypeInv'
<1>1. TypeOK /\ ApiOK /\ HeldOK /\ WorldOK /\ PassOK
      /\ obj \in Node /\ cache \in Node /\ copy \in Node
  BY TypeParts DEF TypeInv, ApiOK
<1>3. ASSUME UNCHANGED <<apiVars, passVars>>, WorldOK' PROVE TypeInv'
  <2>1. ApiOK' /\ HeldOK' /\ PassOK'
    BY <1>1, <1>3 DEF apiVars, passVars, ApiOK, HeldOK, PassOK
  <2> QED
    BY <1>3, <2>1, TypeParts DEF TypeInv
<1>7. CASE Boot(m) \/ PowerOff(m) \/ Vanish(m) \/ Removed(m)
  <2>1. PICK to \in {"running", "stopped", "gone"} :
          /\ machine' = [machine EXCEPT ![m].st = to]
          /\ UNCHANGED <<apiVars, passVars, rules, agents, cluster>>
    BY <1>7 DEF Boot, PowerOff, Vanish, Removed, MachineStep
  <2>2. machine' \in [Machine -> [st : MachineState, name : Attempts, shown : BOOLEAN]]
    BY <1>1, <2>1 DEF WorldOK, MachineState
  <2>3. [knode EXCEPT !.ready = FALSE] \in [by : MachineOrNone, ready : BOOLEAN]
    BY <1>1, Zenon DEF WorldOK
  <2>4. knode' \in [by : MachineOrNone, ready : BOOLEAN]
    BY <1>1, <1>7, <2>3 DEF Boot, PowerOff, Vanish, Removed, WorldOK
  <2>5. WorldOK'
    BY <1>1, <2>1, <2>2, <2>4 DEF WorldOK
  <2> QED
    BY <1>3, <2>1, <2>5
<1>8. CASE Show(m)
  <2>1. machine' \in [Machine -> [st : MachineState, name : Attempts, shown : BOOLEAN]]
    BY <1>1, <1>8 DEF Show, WorldOK
  <2>2. WorldOK'
    BY <1>1, <1>8, <2>1 DEF Show, WorldOK, kubeVars
  <2> QED
    BY <1>3, <1>8, <2>2 DEF Show
<1>9. CASE Register(m)
  <2>1. WorldOK'
    BY <1>1, <1>9 DEF Register, WorldOK, cloudVars, MachineOrNone
  <2> QED
    BY <1>3, <1>9, <2>1 DEF Register
<1> QED
  BY <1>7, <1>8, <1>9

LEMMA KubeStepType ==
    ASSUME TypeInv, Health \/ RemovedByHand \/ ClusterFlips
    PROVE  TypeInv'
<1>1. TypeOK /\ ApiOK /\ HeldOK /\ WorldOK /\ PassOK
  BY TypeParts DEF TypeInv
<1>2. UNCHANGED <<apiVars, passVars, cloudVars, agents>>
  BY DEF Health, RemovedByHand, ClusterFlips, kubeVars
<1>3. ApiOK' /\ HeldOK' /\ PassOK'
  BY <1>1, <1>2 DEF apiVars, passVars, ApiOK, HeldOK, PassOK
<1>4. knode' \in [by : MachineOrNone, ready : BOOLEAN] /\ cluster' \in BOOLEAN
  <2>1. CASE Health
    <3>1. (~knode.ready) \in BOOLEAN
      OBVIOUS
    <3>2. [knode EXCEPT !.ready = ~knode.ready] \in [by : MachineOrNone, ready : BOOLEAN]
      BY <1>1, <3>1, Zenon DEF WorldOK
    <3> QED
      BY <1>1, <2>1, <3>2 DEF Health, WorldOK
  <2>2. CASE RemovedByHand
    BY <1>1, <2>2 DEF RemovedByHand, WorldOK, MachineOrNone
  <2>3. CASE ClusterFlips
    BY <1>1, <2>3 DEF ClusterFlips, WorldOK, kubeVars
  <2> QED
    BY <2>1, <2>2, <2>3
<1>5. WorldOK'
  BY <1>1, <1>2, <1>4 DEF WorldOK, cloudVars
<1> QED
  BY <1>3, <1>5, TypeParts DEF TypeInv

LEMMA TypeStep == TypeInv /\ [Next]_vars => TypeInv'
<1> SUFFICES ASSUME TypeInv, [Next]_vars PROVE TypeInv'
  OBVIOUS
<1>1. CASE PassStep
  BY <1>1, PatchStepType, CallStepType, EdgeStepType DEF PassStep
<1>2. CASE Fault
  BY <1>2, CallStepType, EdgeStepType DEF Fault
<1>3. CASE World
  BY <1>3, EdgeStepType, UserStepType, WorldStepType, KubeStepType DEF World
<1>4. CASE UNCHANGED vars
  BY <1>4 DEF vars, apiVars, passVars, cloudVars, kubeVars, TypeInv, TypeOK, PassOK
<1> QED
  BY <1>1, <1>2, <1>3, <1>4 DEF Next

(* Type correctness, for every set of machines, any lag of the cache and   *)
(* every kind of node: every variable of the controller's node, of its     *)
(* passes and of the world keeps its type, and every call of a pass has    *)
(* the machine it is made about.                                           *)
THEOREM TypeCorrect == Spec => []TypeOK
<1>1. TypeInv => TypeOK
  BY DEF TypeInv
<1> QED
  BY <1>1, TypeInit, TypeStep, PTL DEF Spec
=============================================================================
