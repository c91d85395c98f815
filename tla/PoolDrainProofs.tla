-------------------------- MODULE PoolDrainProofs --------------------------
(***************************************************************************)
(* Proofs about PoolDrain, for any number of nodes: type correctness; that *)
(* the pool leaves an administrator's cordons alone; that it deletes only  *)
(* empty nodes.                                                            *)
(***************************************************************************)
EXTENDS PoolDrain, TLAPS

(* The calls that a pass makes on a node it found marked.                  *)
OnMarked == {"releasePatch", "putBack", "delete"}

(* While nobody overrides the pool, a mark stands for a cordon, and the    *)
(* node that a pass goes on to work on still has its mark, or is gone.     *)
MarkInv ==
    /\ mark \subseteq cordoned
    /\ pc \in OnMarked => cur \in mark \/ up[cur] = "gone"

(* The pool neither marks a node that an administrator cordoned nor works  *)
(* on one.                                                                 *)
AdminInv ==
    /\ admin \subseteq cordoned
    /\ mark \intersect admin = {}
    /\ pc \in OnMarked \union {"cordonPatch"} => cur \notin admin

(* The cache of pods is right, and a node found empty stays empty until it *)
(* is deleted.                                                             *)
EmptyInv ==
    /\ shown = busy
    /\ pc = "delete" => cur \notin busy

NoOverride == "override" \notin Happens
NoRace == "race" \notin Happens
NotBehind == "behind" \notin Happens

-----------------------------------------------------------------------------
(* The nodes a pass chooses are nodes.                                     *)
LEMMA ChosenNodes ==
    ASSUME NEW E \in SUBSET Node, NEW L \in SUBSET E, NEW c \in chosen(E, L)
    PROVE  c \subseteq Node
<1>1. \A S, k : Newest(S, k) \subseteq S
  BY DEF Newest
<1>2. c \in {Newest({n \in E \ shown : \A m \in L : n > m},
                    Least(Least(Cardinality(Ready(list)) - MinNodes, MaxEmptyNodesRemoved),
                          Cardinality(E \ shown) - Least(SpareNodes, Cardinality(E \ shown))))}
      \/ c \in {Newest(L, 1)} \/ c \in {{n} : n \in E \intersect shown}
  BY DEF chosen
<1> QED
  BY <1>1, <1>2

(* A turn of a loop leaves the pass with values of their types.            *)
LEMMA LookType ==
    ASSUME TypeOK, NEW n \in Node, NEW from, NEW next, Look(from, n, next),
           from \in {"release", "drain", "cordon"},
           next \in {from, "releasePatch", "putBack", "delete", "cordonPatch"}
    PROVE  /\ pc' = next /\ list' \in [Node -> UpStates]
           /\ rest' \subseteq Node /\ {saw', draining'} \subseteq BOOLEAN
           /\ cur' \in IF pc' \in {"releasePatch", "putBack", "delete", "cordonPatch"}
                       THEN Node ELSE {0}
  BY DEF TypeOK, Look

LEMMA InitType == Init => TypeOK
  BY DEF Init, TypeOK, UpStates, NoList, Node

LEMMA StepType == TypeOK /\ [Next]_vars => TypeOK'
<1> SUFFICES ASSUME TypeOK, [Next]_vars PROVE TypeOK'
  OBVIOUS
<1>1. CASE UNCHANGED vars
  BY <1>1 DEF TypeOK, vars, clusterVars, podVars, passVars
<1>2. ASSUME NEW n \in Node, ClusterNext(n) PROVE TypeOK'
  BY <1>2 DEF TypeOK, ClusterNext, PodsCome, PodsSeen, Cordon, Uncordon, Lost,
              Recover, Gone, UpStates, passVars, podVars
<1>3. CASE manage
  BY <1>3 DEF TypeOK, manage, Alive, clusterVars, podVars
<1>4. CASE Return \/ endPass
  BY <1>4 DEF TypeOK, Return, endPass, EndPass, NoList, UpStates, clusterVars, podVars
<1>5. ASSUME NEW n \in Node, PassOn(n) PROVE TypeOK'
  <2>1. CASE releaseDrains(n)
    BY <2>1, LookType DEF TypeOK, releaseDrains, clusterVars, podVars
  <2>2. CASE continueDrains(n)
    <3>1. CASE n \notin mark /\ Look("drain", n, "drain") /\ UNCHANGED clusterVars
      BY <3>1, LookType DEF TypeOK, clusterVars, podVars
    <3>2. CASE n \in mark /\ Look("drain", n, "delete") /\ UNCHANGED clusterVars
      BY <3>2, LookType DEF TypeOK, clusterVars, podVars
    <3>3. CASE /\ pc = "drain" /\ n \in rest
               /\ rest' = rest \ {n} /\ draining' = TRUE
               /\ UNCHANGED <<clusterVars, pc, list, cur, saw>>
      BY <3>3 DEF TypeOK, clusterVars, podVars
    <3> QED
      BY <2>2, <3>1, <3>2, <3>3 DEF continueDrains
  <2>3. CASE drainTimeout(n)
    BY <2>3, LookType DEF TypeOK, drainTimeout, clusterVars, podVars
  <2>4. CASE cordonNode(n)
    BY <2>4, LookType DEF TypeOK, cordonNode, clusterVars, podVars
  <2> QED
    BY <1>5, <2>1, <2>2, <2>3, <2>4 DEF PassOn
<1>6. CASE uncordonNode("releasePatch", "release") \/ uncordonNode("putBack", "drain")
  BY <1>6 DEF TypeOK, uncordonNode, NextNode, podVars
<1>7. CASE deleteEmptied
  BY <1>7 DEF TypeOK, deleteEmptied, NextNode, podVars, UpStates
<1>8. CASE scaleDown
  <2>1. PICK E \in SUBSET Removable : \E L \in SUBSET (E \intersect shown) :
               \E c \in chosen(E, L) : rest' = c
    BY <1>8 DEF scaleDown
  <2>2. E \in SUBSET Node
    BY DEF Removable, Ready
  <2>3. PICK L \in SUBSET (E \intersect shown) : \E c \in chosen(E, L) : rest' = c
    BY <2>1
  <2>4. L \in SUBSET E
    OBVIOUS
  <2>5. rest' \subseteq Node
    BY <2>2, <2>3, <2>4, ChosenNodes
  <2> QED
    BY <1>8, <2>5 DEF TypeOK, scaleDown, clusterVars, podVars
<1>9. CASE cordonPatch
  BY <1>9 DEF TypeOK, cordonPatch, NextNode, podVars
<1> QED
  BY <1>1, <1>2, <1>3, <1>4, <1>5, <1>6, <1>7, <1>8, <1>9 DEF Next, Pass

(* The variables of PoolDrain keep their types: among others, a pass that  *)
(* is about to patch or delete a node has one.                             *)
THEOREM DrainTypeCorrect == Spec => []TypeOK
<1>1. TypeOK /\ [Next]_vars => TypeOK'
  BY StepType
<1> QED
  BY InitType, <1>1, PTL DEF Spec

-----------------------------------------------------------------------------
LEMMA InitMark == Init => MarkInv
  BY DEF Init, MarkInv, OnMarked

LEMMA StepMark ==
    ASSUME TypeOK, MarkInv, NoOverride, [Next]_vars PROVE MarkInv'
<1> USE DEF OnMarked
<1>1. CASE UNCHANGED vars
  BY <1>1 DEF MarkInv, vars, clusterVars, podVars, passVars
<1>2. ASSUME NEW n \in Node, ClusterNext(n) PROVE MarkInv'
  <2>1. UNCHANGED <<pc, cur>>
    BY <1>2 DEF ClusterNext, PodsCome, PodsSeen, Cordon, Uncordon, Lost, Recover,
                Gone, passVars
  <2>2. CASE Gone(n)
    BY <2>1, <2>2 DEF MarkInv, TypeOK, Gone
  <2>3. CASE Lost(n) \/ Recover(n)
    BY <2>1, <2>3 DEF MarkInv, TypeOK, Lost, Recover
  <2>4. CASE Cordon(n) \/ Uncordon(n)
    BY <2>1, <2>4 DEF MarkInv, NoOverride, Cordon, Uncordon
  <2>5. CASE PodsCome(n) \/ PodsSeen(n)
    BY <2>1, <2>5 DEF MarkInv, PodsCome, PodsSeen
  <2> QED
    BY <1>2, <2>2, <2>3, <2>4, <2>5 DEF ClusterNext
<1>3. CASE manage
  BY <1>3 DEF MarkInv, manage, clusterVars
<1>4. CASE Return \/ endPass
  BY <1>4 DEF MarkInv, Return, endPass, EndPass, clusterVars
<1>5. ASSUME NEW n \in Node, PassOn(n) PROVE MarkInv'
  BY <1>5 DEF MarkInv, PassOn, releaseDrains, continueDrains, drainTimeout, cordonNode, Look,
              clusterVars
<1>6. CASE uncordonNode("releasePatch", "release") \/ uncordonNode("putBack", "drain")
  BY <1>6 DEF MarkInv, uncordonNode, NextNode
<1>7. CASE deleteEmptied
  BY <1>7 DEF MarkInv, deleteEmptied, NextNode
<1>8. CASE scaleDown
  BY <1>8 DEF MarkInv, scaleDown, clusterVars
<1>9. CASE cordonPatch
  BY <1>9 DEF MarkInv, cordonPatch, NextNode
<1> QED
  BY <1>1, <1>2, <1>3, <1>4, <1>5, <1>6, <1>7, <1>8, <1>9 DEF Next, Pass

-----------------------------------------------------------------------------
LEMMA StepAdmin ==
    ASSUME TypeOK, MarkInv, AdminInv, NoOverride, NoRace, [Next]_vars PROVE AdminInv'
<1> USE DEF OnMarked
<1>1. CASE UNCHANGED vars
  BY <1>1 DEF AdminInv, vars, clusterVars, podVars, passVars
<1>2. ASSUME NEW n \in Node, ClusterNext(n) PROVE AdminInv'
  <2>1. UNCHANGED <<pc, cur>>
    BY <1>2 DEF ClusterNext, PodsCome, PodsSeen, Cordon, Uncordon, Lost, Recover,
                Gone, passVars
  <2>2. CASE Cordon(n)
    <3>1. n \notin mark /\ n \notin cordoned /\ up[n] # "gone"
      BY <2>2 DEF Cordon, MarkInv
    <3>2. pc \in OnMarked \union {"cordonPatch"} => cur # n
      BY <2>2, <3>1 DEF Cordon, MarkInv, NoRace
    <3> QED
      BY <2>1, <2>2, <3>1, <3>2 DEF Cordon, AdminInv
  <2>3. CASE Uncordon(n) \/ Gone(n)
    BY <2>1, <2>3 DEF AdminInv, Uncordon, Gone
  <2>4. CASE PodsCome(n) \/ PodsSeen(n) \/ Lost(n) \/ Recover(n)
    BY <2>1, <2>4 DEF AdminInv, PodsCome, PodsSeen, Lost, Recover
  <2> QED
    BY <1>2, <2>2, <2>3, <2>4 DEF ClusterNext
<1>3. CASE manage
  BY <1>3 DEF AdminInv, manage, clusterVars
<1>4. CASE Return \/ endPass
  BY <1>4 DEF AdminInv, Return, endPass, EndPass, clusterVars
<1>5. ASSUME NEW n \in Node, PassOn(n) PROVE AdminInv'
  BY <1>5 DEF AdminInv, PassOn, releaseDrains, continueDrains, drainTimeout, cordonNode, Look,
              clusterVars
<1>6. CASE uncordonNode("releasePatch", "release") \/ uncordonNode("putBack", "drain")
  BY <1>6 DEF AdminInv, uncordonNode, NextNode
<1>7. CASE deleteEmptied
  BY <1>7 DEF AdminInv, deleteEmptied, NextNode
<1>8. CASE scaleDown
  BY <1>8 DEF AdminInv, scaleDown, clusterVars
<1>9. CASE cordonPatch
  BY <1>9 DEF AdminInv, cordonPatch, NextNode
<1> QED
  BY <1>1, <1>2, <1>3, <1>4, <1>5, <1>6, <1>7, <1>8, <1>9 DEF Next, Pass

(* A node that an administrator cordoned is neither put back into service  *)
(* nor removed by the pool (cordonNode, uncordonNode, continueDrains), as  *)
(* long as administrators do not uncordon the pool's nodes, nor cordon one *)
(* between the Get and the Patch of cordonNode.                            *)
THEOREM CordonsRespected ==
    ASSUME NoOverride, NoRace PROVE Spec => AdminCordonKept
<1> DEFINE Inv == TypeOK /\ MarkInv /\ AdminInv
           Kept == \A n \in admin \intersect admin' : n \in cordoned' /\ ~PoolDeletes(n)
<1>1. Init => Inv
  BY InitType, InitMark DEF Init, AdminInv, OnMarked
<1>2. Inv /\ [Next]_vars => Inv'
  BY StepType, StepMark, StepAdmin
<1>3. Inv /\ Inv' /\ [Next]_vars => [Kept]_vars
  <2> SUFFICES ASSUME Inv, Inv' PROVE Kept
    OBVIOUS
  <2>1. ASSUME NEW n \in admin \intersect admin' PROVE n \in cordoned'
    BY <2>1 DEF AdminInv
  <2>2. ASSUME NEW n \in admin \intersect admin' PROVE ~PoolDeletes(n)
    BY <2>2 DEF AdminInv, OnMarked, PoolDeletes
  <2> QED
    BY <2>1, <2>2
<1> QED
  BY <1>1, <1>2, <1>3, PTL DEF Spec, AdminCordonKept

-----------------------------------------------------------------------------
LEMMA StepEmpty ==
    ASSUME TypeOK, MarkInv, EmptyInv, NotBehind, [Next]_vars PROVE EmptyInv'
<1>1. CASE UNCHANGED vars
  BY <1>1 DEF EmptyInv, vars, clusterVars, podVars, passVars
<1>2. ASSUME NEW n \in Node, ClusterNext(n) PROVE EmptyInv'
  <2>1. CASE PodsCome(n)
    <3>1. pc = "delete" => cur # n
      BY <2>1 DEF PodsCome, MarkInv, OnMarked
    <3> QED
      BY <2>1, <3>1 DEF PodsCome, EmptyInv, NotBehind, passVars
  <2>2. CASE PodsSeen(n) \/ Gone(n)
    BY <2>2 DEF EmptyInv, PodsSeen, Gone, passVars
  <2>3. CASE Cordon(n) \/ Uncordon(n) \/ Lost(n) \/ Recover(n)
    BY <2>3 DEF EmptyInv, Cordon, Uncordon, Lost, Recover, passVars, podVars
  <2> QED
    BY <1>2, <2>1, <2>2, <2>3 DEF ClusterNext
<1>3. CASE manage
  BY <1>3 DEF EmptyInv, manage, clusterVars, podVars
<1>4. CASE Return \/ endPass
  BY <1>4 DEF EmptyInv, Return, endPass, EndPass, clusterVars, podVars
<1>5. ASSUME NEW n \in Node, PassOn(n) PROVE EmptyInv'
  BY <1>5 DEF EmptyInv, PassOn, releaseDrains, continueDrains, drainTimeout, cordonNode, Look,
              clusterVars, podVars
<1>6. CASE uncordonNode("releasePatch", "release") \/ uncordonNode("putBack", "drain")
  BY <1>6 DEF EmptyInv, uncordonNode, NextNode, podVars
<1>7. CASE deleteEmptied \/ cordonPatch
  BY <1>7 DEF EmptyInv, deleteEmptied, cordonPatch, NextNode, podVars
<1>8. CASE scaleDown
  BY <1>8 DEF EmptyInv, scaleDown, clusterVars, podVars
<1> QED
  BY <1>1, <1>2, <1>3, <1>4, <1>5, <1>6, <1>7, <1>8 DEF Next, Pass

(* The pool deletes a node only when no pod that has to move is on it      *)
(* (continueDrains, evictFrom), as long as administrators do not uncordon  *)
(* the pool's nodes and the operator's cache of pods keeps up.             *)
THEOREM OnlyEmptyGo ==
    ASSUME NoOverride, NotBehind PROVE Spec => OnlyEmptyDeleted
<1> DEFINE Inv == TypeOK /\ MarkInv /\ EmptyInv
           Right == \A n \in Node : PoolDeletes(n) => n \notin busy
<1>1. Init => Inv
  BY InitType, InitMark DEF Init, EmptyInv
<1>2. Inv /\ [Next]_vars => Inv'
  BY StepType, StepMark, StepEmpty
<1>3. Inv /\ [Next]_vars => [Right]_vars
  BY DEF EmptyInv, PoolDeletes
<1> QED
  BY <1>1, <1>2, <1>3, PTL DEF Spec, OnlyEmptyDeleted
=============================================================================
