--------------------------- MODULE NodePoolProofs ---------------------------
(***************************************************************************)
(* What NodePool says of a pool, for any number of names, any limits, and  *)
(* a list of nodes that may be behind: its values are of their types, the  *)
(* sweep spares the machines of nodes, and, as long as no answer of a      *)
(* creation is lost and nobody retries a failed node, the nodes of a pool  *)
(* never have more than maxNodes machines and a pool of a fixed size makes *)
(* no node that it does not lack.                                          *)
(***************************************************************************)
EXTENDS NodePool, FiniteSetTheorems, TLAPS

-----------------------------------------------------------------------------
(* The operators.                                                          *)

LEMMA NumbersAreNumbers ==
    /\ IsFiniteSet(Name)
    /\ Mins \subseteq Nat /\ Suspends \subseteq BOOLEAN /\ Autoscalings \subseteq BOOLEAN
    /\ MaxNodes \in Nat \ {0} /\ MaxScaleUp \in Nat \ {0}
    /\ Choices \in Nat \ {0} /\ FailuresBeforePause \in Nat \ {0}
BY PoolConstantsAssumption, PoolSwitchesAssumption

(* Sets of names can be counted.                                           *)
LEMMA NamesCount ==
    ASSUME NEW S \in SUBSET Name
    PROVE  IsFiniteSet(S) /\ Cardinality(S) \in Nat
<1>1. IsFiniteSet(S)
  BY NumbersAreNumbers, FS_Subset
<1> QED
  BY <1>1, FS_CardinalityType

LEMMA LeastIsLeast ==
    ASSUME NEW a \in Nat, NEW b \in Nat
    PROVE  Least(a, b) \in Nat /\ Least(a, b) <= a /\ Least(a, b) <= b
BY DEF Least

LEMMA TidyType ==
    ASSUME NEW s \in Status
    PROVE  Tidy(s) \in Status
BY DEF Tidy, Status

LEMMA AccountType ==
    ASSUME NEW s \in Status, NEW l \in [Name -> NodeStates]
    PROVE  accountFailures(s, l) \in Status
<1> DEFINE failed == Among(l, Failed)
           new    == failed \ s.counted
           late   == IF new = {} THEN s.late ELSE {}
           count  == Least(s.fails + Cardinality(new), FailuresBeforePause)
           fails  == IF \E n \in late : l[n] = "ready" THEN 0 ELSE count
           paused == IF fails >= FailuresBeforePause /\ s.paused = "no" THEN "yes" ELSE s.paused
           t      == [s EXCEPT !.fails = fails, !.counted = failed, !.late = late,
                               !.paused = paused]
<1>1. failed \in SUBSET Name /\ late \in SUBSET Name /\ new \in SUBSET Name
  BY DEF Among, Status
<1>2. Cardinality(new) \in Nat
  BY <1>1, NamesCount
<1>3. s.fails \in Nat
  BY NumbersAreNumbers DEF Status
<1>4. count \in 0 .. FailuresBeforePause
  <2> HIDE DEF new
  <2> QED
    BY <1>2, <1>3, NumbersAreNumbers DEF Least
<1>5. fails \in 0 .. FailuresBeforePause
  <2> HIDE DEF count, late
  <2> QED
    BY <1>4, NumbersAreNumbers
<1>6. paused \in {"no", "yes", "over"}
  <2> HIDE DEF fails
  <2> QED
    BY DEF Status
<1>7. t \in Status
  <2> HIDE DEF failed, late, fails, paused
  <2> QED
    BY <1>1, <1>5, <1>6 DEF Status
<1>8. accountFailures(s, l) = Tidy(t)
  BY DEF accountFailures
<1> HIDE DEF t
<1> QED
  BY <1>7, <1>8, TidyType

LEMMA PauseOverType ==
    ASSUME NEW s \in Status
    PROVE  pauseOver(s) \in Status
<1>1. FailuresBeforePause - 1 \in 0 .. FailuresBeforePause
  BY NumbersAreNumbers
<1> DEFINE t == [s EXCEPT !.paused = "no", !.fails = FailuresBeforePause - 1]
<1>2. t \in Status
  BY <1>1 DEF Status
<1> QED
  BY <1>2 DEF pauseOver

(* Deletions keep a node's state a state.                                  *)
LEMMA DeletedType ==
    ASSUME NEW s
    PROVE  Deleted(s) \in Deleting /\ Deleted(s) \in NodeStates
BY DEF Deleted, Deleting, NodeStates

LEMMA CountsType ==
    ASSUME TypeOK
    PROVE  liveCount \in Nat /\ machineCount \in Nat
<1>1. Among(list, Live) \in SUBSET Name /\ Machines(list) \in SUBSET Name
      /\ just \in SUBSET Name
  BY DEF Among, Machines, TypeOK
<1>2. /\ Cardinality(Among(list, Live)) \in Nat
      /\ Cardinality(Machines(list)) \in Nat
      /\ Cardinality(just) \in Nat
  BY <1>1, NamesCount
<1> QED
  BY <1>2 DEF liveCount, machineCount

-----------------------------------------------------------------------------
(* Types.                                                                  *)

PassTypes ==
    /\ pc \in {"idle", "resume", "dropResume", "list", "clear", "fallback", "scale",
              "create", "remove", "drain", "sweep", "finish"}
    /\ pool \in Specs /\ work \in Status
    /\ list \in [Name -> NodeStates] /\ just \subseteq Name
    /\ mode \in {"scale", "suspended", "hold"} /\ provider \in BOOLEAN
    /\ todo \in Nat /\ rest \subseteq Name

NodeTypes ==
    /\ node \in [Name -> NodeStates] /\ machine \subseteq Name
    /\ at \in [Name -> 0 .. Choices - 1]

RestTypes ==
    /\ cache \in [Name -> NodeStates]
    /\ spec \in Specs /\ resume \in BOOLEAN
    /\ status \in Status
    /\ recent \subseteq Name /\ seen \subseteq Name /\ aged \subseteq Name

LEMMA TypeParts == TypeOK <=> PassTypes /\ NodeTypes /\ RestTypes
BY DEF TypeOK, PassTypes, NodeTypes, RestTypes

LEMMA EndPassTypes ==
    ASSUME PassTypes, NEW s \in Status, EndPass(s)
    PROVE  PassTypes'
<1>1. NoList \in [Name -> NodeStates]
  BY DEF NoList, NodeStates
<1> QED
  BY <1>1 DEF EndPass, PassTypes

LEMMA NodeTypesStep ==
    ASSUME TypeOK, NEW n \in Name, NodeNext(n)
    PROVE  NodeTypes' /\ UNCHANGED <<at, cache, userVars, status, passVars, memVars>>
<1>1. PICK s : /\ s \in NodeStates /\ NodeStep(n, s)
               /\ machine' \subseteq Name
  <2>1. CASE Acquire(n)
    BY <2>1 DEF Acquire, TypeOK, NodeStates
  <2>2. CASE Record(n)
    BY <2>2 DEF Record, TypeOK, NodeStates, Live
  <2>3. CASE Stall(n)
    BY <2>3 DEF Stall, TypeOK, NodeStates, Live
  <2>4. CASE Up(n)
    BY <2>4 DEF Up, TypeOK, NodeStates, Live
  <2>5. CASE Replace(n)
    BY <2>5 DEF Replace, TypeOK, NodeStates, Live
  <2>6. CASE Fail(n)
    BY <2>6 DEF Fail, TypeOK, NodeStates, Failed
  <2>7. CASE FailedMachineGone(n)
    BY <2>7 DEF FailedMachineGone, TypeOK, NodeStates, Failed
  <2>8. CASE LetGo(n)
    BY <2>8 DEF LetGo, TypeOK, NodeStates
  <2>9. CASE DeleteByUser(n)
    BY <2>9, DeletedType DEF DeleteByUser, TypeOK
  <2>10. CASE RetryByUser(n)
    BY <2>10 DEF RetryByUser, TypeOK, NodeStates, Live
  <2> QED
    BY <2>1, <2>2, <2>3, <2>4, <2>5, <2>6, <2>7, <2>8, <2>9, <2>10 DEF NodeNext
<1> QED
  BY <1>1 DEF NodeStep, NodeTypes, TypeOK

LEMMA DeleteNodeTypes ==
    ASSUME NodeTypes, NEW n \in Name, DeleteNode(n)
    PROVE  NodeTypes' /\ UNCHANGED <<machine, at, cache, userVars, status, memVars>>
BY DeletedType DEF DeleteNode, NodeTypes

LEMMA PassTypesStep ==
    ASSUME TypeOK, Pass
    PROVE  TypeOK'
<1>1. PassTypes /\ NodeTypes /\ RestTypes
  BY TypeParts
<1>2. SUFFICES PassTypes' /\ NodeTypes' /\ RestTypes'
  BY DEF TypeOK, PassTypes, NodeTypes, RestTypes
<1> USE <1>1
<1>3. CASE clearResumeRequest
  <2>1. status' \in Status /\ work' \in Status
    <3> DEFINE t == [status EXCEPT !.paused = "no", !.fails = 0, !.counted = {}, !.step = 0]
    <3>1. 0 \in 0 .. FailuresBeforePause /\ 0 \in 0 .. Choices - 1 /\ status \in Status
      BY NumbersAreNumbers DEF RestTypes
    <3>2. t \in Status
      BY <3>1 DEF Status
    <3>3. status' = Tidy(t) /\ work' = status'
      BY <1>3 DEF clearResumeRequest
    <3> HIDE DEF t
    <3> QED
      BY <3>2, <3>3, TidyType
  <2> QED
    BY <1>3, <2>1 DEF clearResumeRequest, PassTypes, NodeTypes, RestTypes, nodeVars,
       userVars, memVars
<1>4. CASE dropResume
  BY <1>4 DEF dropResume, PassTypes, NodeTypes, RestTypes, nodeVars, memVars
<1>5. CASE Reconcile
  <2>1. work' \in Status
    BY <1>5, AccountType, PauseOverType DEF Reconcile, PassTypes, RestTypes
  <2>2. mode' \in {"scale", "suspended", "hold"}
    BY <1>5 DEF Reconcile
  <2>3. list' \in [Name -> NodeStates] /\ just' \subseteq Name /\ recent' \subseteq Name
    BY <1>5 DEF Reconcile, listNodes, RestTypes
  <2> QED
    BY <1>5, <2>1, <2>2, <2>3 DEF Reconcile, PassTypes, NodeTypes, RestTypes, nodeVars,
       userVars
<1>6. CASE clearFailedNodes
  <2>1. ASSUME NEW n \in Name, DeleteNode(n), UNCHANGED passVars
        PROVE  PassTypes' /\ NodeTypes' /\ RestTypes'
    BY <2>1, DeleteNodeTypes DEF PassTypes, RestTypes, passVars, userVars, memVars
  <2>2. CASE PassOnly
    BY <1>6, <2>2 DEF clearFailedNodes, PassOnly, PassTypes, NodeTypes, RestTypes, nodeVars,
       userVars, memVars, passVars
  <2> QED
    BY <1>6, <2>1, <2>2 DEF clearFailedNodes, Among
<1>7. CASE advanceFallback
  <2>1. /\ pc' \in {"scale", "sweep"}
        /\ UNCHANGED <<pool, list, just, mode, provider, todo, rest>>
    BY <1>7 DEF advanceFallback, AfterFallback
  <2>2. NodeTypes' /\ RestTypes'
    <3>1. ASSUME NEW n \in Name, DeleteNode(n)
          PROVE  NodeTypes' /\ RestTypes'
      BY <3>1, DeleteNodeTypes DEF RestTypes, userVars, memVars
    <3>2. ASSUME PassOnly
          PROVE  NodeTypes' /\ RestTypes'
      BY <3>2 DEF PassOnly, NodeTypes, RestTypes, nodeVars, userVars, memVars
    <3> QED
      BY <1>7, <3>1, <3>2 DEF advanceFallback, Among
  <2>3. work' \in Status
    BY <1>7, NumbersAreNumbers DEF advanceFallback, PassTypes, Status
  <2> QED
    BY <2>1, <2>2, <2>3 DEF PassTypes
<1>8. CASE manageFixed \/ manageAutoscaled
  <2>1. /\ PassOnly /\ UNCHANGED <<pool, work, list, just, mode, provider>>
    BY <1>8 DEF manageFixed, manageAutoscaled
  <2>2. ASSUME NEW a \in Nat, createNodes(a)
        PROVE  todo' \in Nat /\ rest' \subseteq Name /\ pc' = "create"
    <3> DEFINE room == IF machineCount < MaxNodes THEN MaxNodes - machineCount ELSE 0
    <3>1. room \in Nat
      BY CountsType, NumbersAreNumbers
    <3>2. todo' = Least(a, Least(room, MaxScaleUp))
      BY <2>2 DEF createNodes
    <3> HIDE DEF room
    <3>3. todo' \in Nat
      BY <3>1, <3>2, LeastIsLeast, NumbersAreNumbers
    <3> QED
      BY <2>2, <3>3 DEF createNodes, PassTypes
  <2>3. pool.min \in Nat
    BY NumbersAreNumbers DEF PassTypes, Specs
  <2>4. todo' \in Nat /\ rest' \subseteq Name
        /\ pc' \in {"create", "remove", "drain", "sweep"}
    <3>1. CASE manageFixed
      <4>1. CASE liveCount < pool.min /\ createNodes(pool.min - liveCount)
        <5>1. pool.min - liveCount \in Nat
          BY <4>1, <2>3, CountsType
        <5> QED
          BY <4>1, <5>1, <2>2
      <4>2. CASE liveCount > pool.min /\ removeNodes(liveCount - pool.min)
        BY <4>2, <2>3, CountsType DEF removeNodes, Among
      <4>3. CASE liveCount = pool.min /\ ScaleOn("sweep")
        BY <4>3 DEF ScaleOn, PassTypes
      <4> QED
        BY <3>1, <4>1, <4>2, <4>3 DEF manageFixed
    <3>2. CASE manageAutoscaled
      <4>1. PICK asked \in 0 .. Cardinality(Name), waiting \in BOOLEAN :
              LET room == IF machineCount < MaxNodes THEN MaxNodes - machineCount ELSE 0
                  want == IF liveCount + asked < pool.min THEN pool.min - liveCount ELSE asked
                  make == Least(want, Least(room, MaxScaleUp))
              IN \/ make > 0 /\ createNodes(make)
                 \/ make = 0 /\ waiting /\ ScaleOn("sweep")
                 \/ make = 0 /\ ~waiting /\ ScaleOn("drain")
        BY <3>2 DEF manageAutoscaled
      <4> DEFINE room == IF machineCount < MaxNodes THEN MaxNodes - machineCount ELSE 0
                 want == IF liveCount + asked < pool.min THEN pool.min - liveCount ELSE asked
                 make == Least(want, Least(room, MaxScaleUp))
      <4>2. \/ make > 0 /\ createNodes(make)
            \/ ScaleOn("sweep")
            \/ ScaleOn("drain")
        BY <4>1
      <4>3. Cardinality(Name) \in Nat
        BY NamesCount
      <4>4. room \in Nat /\ want \in Nat
        BY <2>3, <4>3, CountsType, NumbersAreNumbers
      <4> HIDE DEF room, want
      <4>5. make \in Nat
        BY <4>4, LeastIsLeast, NumbersAreNumbers
      <4> HIDE DEF make
      <4>6. CASE createNodes(make)
        BY <4>5, <4>6, <2>2
      <4>7. CASE ScaleOn("sweep") \/ ScaleOn("drain")
        BY <4>7 DEF ScaleOn, PassTypes
      <4> QED
        BY <4>2, <4>6, <4>7
    <3> QED
      BY <1>8, <3>1, <3>2
  <2> QED
    BY <2>1, <2>4 DEF PassOnly, PassTypes, NodeTypes, RestTypes, nodeVars, userVars, memVars
<1>9. CASE createNode
  <2>1. PICK n \in Among(node, {"unmade"}), answered \in BOOLEAN, inSameSecond \in BOOLEAN :
         LET After(s) == IF inSameSecond THEN s ELSE Tidy([s EXCEPT !.late = @ \union {n}]) IN
         /\ node' = [node EXCEPT ![n] = "waiting"]
         /\ at' = [at EXCEPT ![n] = work.step]
         /\ status' = After(status)
         /\ IF answered
            THEN /\ list' = [list EXCEPT ![n] = "waiting"]
                 /\ work' = After(work)
                 /\ recent' = recent \union {n}
                 /\ todo' = todo - 1
                 /\ UNCHANGED <<cache, pc, pool, just, mode, provider, rest>>
            ELSE /\ EndPass(status')
                 /\ UNCHANGED <<cache, recent>>
    BY <1>9 DEF createNode
  <2>2. UNCHANGED <<machine, userVars, seen, aged>> /\ todo > 0
    BY <1>9 DEF createNode
  <2>3. n \in Name
    BY DEF Among
  <2> DEFINE After(s) == IF inSameSecond THEN s ELSE Tidy([s EXCEPT !.late = @ \union {n}])
  <2>4. ASSUME NEW s \in Status
        PROVE  After(s) \in Status
    <3>1. [s EXCEPT !.late = @ \union {n}] \in Status
      BY <2>3 DEF Status
    <3> QED
      BY <3>1, TidyType
  <2>5. status' \in Status
    <3>1. status' = After(status)
      BY <2>1
    <3> HIDE DEF After
    <3> QED
      BY <3>1, <2>4 DEF RestTypes
  <2>6. NodeTypes'
    BY <2>1, <2>2, <2>3 DEF NodeTypes, PassTypes, Status, NodeStates, Live
  <2>7. CASE answered
    <3>1. work' = After(work)
      BY <2>1, <2>7
    <3>2. work' \in Status
      <4> HIDE DEF After
      <4> QED
        BY <3>1, <2>4 DEF PassTypes
    <3>3. /\ list' = [list EXCEPT ![n] = "waiting"] /\ recent' = recent \union {n}
          /\ todo' = todo - 1 /\ UNCHANGED <<cache, pc, pool, just, mode, provider, rest>>
      BY <2>1, <2>7
    <3>4. PassTypes'
      BY <3>2, <3>3, <2>2, <2>3 DEF PassTypes, NodeStates, Live
    <3> QED
      BY <3>3, <3>4, <2>2, <2>3, <2>5, <2>6 DEF RestTypes, userVars
  <2>8. CASE ~answered
    <3>1. EndPass(status') /\ UNCHANGED <<cache, recent>>
      BY <2>1, <2>8
    <3>2. PassTypes'
      BY <3>1, <2>5, EndPassTypes
    <3> QED
      BY <3>1, <3>2, <2>2, <2>5, <2>6 DEF RestTypes, userVars
  <2> QED
    BY <2>7, <2>8
<1>10. CASE removeNode
  <2>1. PICK n \in rest : DeleteNode(n) /\ rest' = rest \ {n} /\ todo' = todo - 1
    BY <1>10 DEF removeNode
  <2>2. n \in Name
    BY DEF PassTypes
  <2>3. NodeTypes' /\ RestTypes'
    BY <2>1, <2>2, DeleteNodeTypes DEF RestTypes, userVars, memVars
  <2> QED
    BY <1>10, <2>1, <2>3 DEF removeNode, PassTypes
<1>11. CASE deleteDrained
  <2>1. PICK n \in Name : DeleteNode(n)
    BY <1>11 DEF deleteDrained, Among
  <2> QED
    BY <1>11, <2>1, DeleteNodeTypes DEF deleteDrained, PassTypes, RestTypes, passVars, userVars,
       memVars
<1>12. CASE scaled
  BY <1>12 DEF scaled, PassOnly, PassTypes, NodeTypes, RestTypes, nodeVars, userVars, memVars
<1>13. CASE sweepOrphans
  <2>1. machine' \subseteq Name /\ seen' \subseteq Name /\ aged' \subseteq Name
    BY <1>13 DEF sweepOrphans, Orphans, NodeTypes, RestTypes
  <2> QED
    BY <1>13, <2>1 DEF sweepOrphans, PassTypes, NodeTypes, RestTypes, userVars
<1>14. CASE skipSweep
  BY <1>14 DEF skipSweep, PassOnly, PassTypes, NodeTypes, RestTypes, nodeVars, userVars, memVars
<1>15. CASE finish
  <2>1. PassTypes'
    BY <1>15, EndPassTypes DEF finish, PassTypes
  <2> QED
    BY <1>15, <2>1 DEF finish, NodeTypes, PassTypes, RestTypes, nodeVars, userVars, memVars
<1> QED
  BY <1>3, <1>4, <1>5, <1>6, <1>7, <1>8, <1>9, <1>10, <1>11, <1>12, <1>13, <1>14, <1>15
  DEF Pass

LEMMA TypeStep ==
    ASSUME TypeOK, [Next]_vars
    PROVE  TypeOK'
<1>1. PassTypes /\ NodeTypes /\ RestTypes
  BY TypeParts
<1>2. SUFFICES ASSUME TRUE PROVE PassTypes' /\ NodeTypes' /\ RestTypes'
  BY DEF TypeOK, PassTypes, NodeTypes, RestTypes
<1> USE <1>1
<1>3. CASE Begin
  BY <1>3 DEF Begin, PassTypes, NodeTypes, RestTypes, nodeVars, userVars, memVars
<1>4. CASE Pass
  BY <1>4, PassTypesStep DEF TypeOK, PassTypes, NodeTypes, RestTypes
<1>5. CASE Return
  <2>1. PassTypes'
    BY <1>5, EndPassTypes DEF Return, RestTypes
  <2> QED
    BY <1>5, <2>1 DEF Return, NodeTypes, RestTypes, nodeVars, userVars, memVars
<1>6. CASE Crash
  <2>1. PassTypes'
    BY <1>6, EndPassTypes DEF Crash, RestTypes
  <2> QED
    BY <1>6, <2>1 DEF Crash, NodeTypes, RestTypes, nodeVars, userVars
<1>7. ASSUME NEW n \in Name, NodeNext(n)
      PROVE  PassTypes' /\ NodeTypes' /\ RestTypes'
  BY <1>7, NodeTypesStep DEF PassTypes, RestTypes, passVars, userVars, memVars
<1>8. ASSUME NEW n \in Name, Age(n)
      PROVE  PassTypes' /\ NodeTypes' /\ RestTypes'
  BY <1>8 DEF Age, PassTypes, NodeTypes, RestTypes, nodeVars, userVars, passVars
<1>9. CASE Ask
  BY <1>9 DEF Ask, PassTypes, NodeTypes, RestTypes, nodeVars, passVars, memVars
<1>10. CASE Sync
  BY <1>10 DEF Sync, PassTypes, NodeTypes, RestTypes, nodeVars, userVars, passVars, memVars
<1>11. CASE PauseEnds
  <2>1. status' \in Status /\ work' \in Status
    BY <1>11 DEF PauseEnds, RestTypes, Status
  <2> QED
    BY <1>11, <2>1 DEF PauseEnds, PassTypes, NodeTypes, RestTypes, nodeVars, userVars, memVars
<1>12. CASE UNCHANGED vars
  BY <1>12 DEF vars, PassTypes, NodeTypes, RestTypes, nodeVars, userVars, passVars, memVars
<1> QED
  BY <1>3, <1>4, <1>5, <1>6, <1>7, <1>8, <1>9, <1>10, <1>11, <1>12 DEF Next

LEMMA TypeInit == Init => TypeOK
<1>1. ASSUME Init
      PROVE  /\ status \in Status /\ spec \in Specs /\ at \in [Name -> 0 .. Choices - 1]
             /\ node \in [Name -> NodeStates]
  BY <1>1, NumbersAreNumbers DEF Init, Status, NodeStates
<1>2. ASSUME Init
      PROVE  resume \in BOOLEAN /\ provider \in BOOLEAN
  BY <1>2, Zenon DEF Init
<1>3. ASSUME Init
      PROVE  PassTypes /\ NodeTypes /\ RestTypes
  BY <1>1, <1>2, <1>3 DEF Init, PassTypes, NodeTypes, RestTypes, NoList
<1> QED
  BY <1>3, TypeParts

(* Every value a pool's passes hold is of its type, whatever may happen:   *)
(* counts are never negative and the fallback step is that of a choice.    *)
THEOREM PoolTypeCorrect == Spec => []TypeOK
<1> QED
  BY TypeInit, TypeStep, PTL DEF Spec

-----------------------------------------------------------------------------
(* The sweep.                                                              *)

(* The pass has listed its nodes.                                          *)
Listed == pc \notin {"idle", "resume", "dropResume", "list"}

(* Of a node that is not made nobody has heard.                            *)
UnheardOf(n) ==
    /\ cache[n] = "unmade" /\ list[n] = "unmade"
    /\ n \notin machine /\ n \notin seen /\ n \notin aged
    /\ n \notin recent /\ n \notin just
UnmadeInv == \A n \in Name : node[n] = "unmade" => UnheardOf(n)

(* A machine is old enough to go only if the cache, and the list of the    *)
(* pass that looks, show the node it may have.                             *)
Shown(n) == Exists(cache[n]) /\ (Listed => Exists(list[n]))
AgedInv == \A n \in aged : Exists(node[n]) => Shown(n)

SweepInv == TypeOK /\ UnmadeInv /\ AgedInv

(* What a node and a deletion never do.                                    *)
GoesOn(n) ==
    /\ node'[n] = "unmade" <=> node[n] = "unmade"
    /\ Exists(node'[n]) => Exists(node[n])

(* Only a node that is made takes a machine.                               *)
TakesAsNode == \A n \in machine' : n \in machine \/ node[n] # "unmade"

LEMMA NodesGoOn ==
    ASSUME TypeOK, NEW n \in Name, NodeNext(n)
    PROVE  TakesAsNode /\ \A m \in Name : GoesOn(m)
<1>1. /\ node \in [Name -> NodeStates]
      /\ Exists(node[n]) /\ node[n] # "unmade"
  <2>1. node[n] \in Live \union Failed \union Deleting
    BY DEF NodeNext, Acquire, Record, Stall, Up, Replace, Fail, FailedMachineGone, LetGo,
       DeleteByUser, RetryByUser, Live, Failed, Deleting
  <2> QED
    BY <2>1 DEF TypeOK, Exists, Live, Failed, Deleting
<1>2. PICK s : NodeStep(n, s) /\ s # "unmade"
  BY <1>1, DeletedType DEF NodeNext, Acquire, Record, Stall, Up, Replace, Fail, FailedMachineGone,
     LetGo, DeleteByUser, RetryByUser, Deleting
<1>3. \A m \in Name : GoesOn(m)
  BY <1>1, <1>2 DEF NodeStep, GoesOn
<1>4. machine' \subseteq machine \union {n}
  BY DEF NodeNext, Acquire, Record, Stall, Up, Replace, Fail, FailedMachineGone, LetGo,
     DeleteByUser, RetryByUser
<1> QED
  BY <1>1, <1>3, <1>4 DEF TakesAsNode

LEMMA DeletionsGoOn ==
    ASSUME TypeOK, NEW n \in Name, DeleteNode(n)
    PROVE  \A m \in Name : GoesOn(m)
<1>1. CASE Exists(node[n])
  <2>1. node' = [node EXCEPT ![n] = Deleted(node[n])] /\ node[n] # "unmade"
    BY <1>1 DEF DeleteNode, Exists, Live, Failed, Deleting
  <2>2. Deleted(node[n]) # "unmade"
    BY DEF Deleted
  <2> QED
    BY <1>1, <2>1, <2>2 DEF TypeOK, GoesOn
<1>2. CASE ~Exists(node[n])
  BY <1>2 DEF DeleteNode, GoesOn
<1> QED
  BY <1>1, <1>2

(* A step of the nodes, or a deletion, as far as the sweep is concerned.   *)
LEMMA SweepInvGoesOn ==
    ASSUME SweepInv, \A m \in Name : GoesOn(m), TakesAsNode,
           Listed' = Listed, UNCHANGED <<cache, list, just, memVars>>
    PROVE  UnmadeInv' /\ AgedInv'
<1>1. UnmadeInv'
  BY DEF SweepInv, UnmadeInv, UnheardOf, GoesOn, TakesAsNode, memVars
<1>2. AgedInv'
  BY DEF SweepInv, AgedInv, Shown, GoesOn, memVars, Exists, TypeOK
<1> QED
  BY <1>1, <1>2

(* A step that leaves the nodes alone and, at most, ends the pass.         *)
LEMMA SweepInvEnds ==
    ASSUME SweepInv, UNCHANGED <<node, machine, memVars, cache>>, ~Listed',
           \/ list' = NoList /\ just' = {}
           \/ UNCHANGED <<list, just>>
    PROVE  UnmadeInv' /\ AgedInv'
<1>1. UnmadeInv'
  BY DEF SweepInv, UnmadeInv, UnheardOf, memVars, NoList
<1>2. AgedInv'
  BY DEF SweepInv, AgedInv, Shown, memVars, Exists
<1> QED
  BY <1>1, <1>2

LEMMA SweepStep ==
    ASSUME SweepInv, [Next]_vars
    PROVE  SweepInv'
<1>1. TypeOK' /\ TypeOK
  BY TypeStep DEF SweepInv
<1>2. SUFFICES UnmadeInv' /\ AgedInv'
  BY <1>1 DEF SweepInv
<1>3. CASE Begin \/ clearResumeRequest \/ dropResume \/ PauseEnds
  <2>1. /\ UNCHANGED <<node, machine, memVars, cache, list, just>>
        /\ pc' \in {"idle", "resume", "dropResume", "list"}
    BY <1>3 DEF Begin, clearResumeRequest, dropResume, PauseEnds, nodeVars
  <2> QED
    BY <2>1, SweepInvEnds DEF Listed
<1>4. CASE Return \/ finish
  <2>1. UNCHANGED <<node, machine, memVars, cache>> /\ list' = NoList /\ just' = {} /\ pc' = "idle"
    BY <1>4 DEF Return, finish, EndPass, nodeVars
  <2> QED
    BY <2>1, SweepInvEnds DEF Listed
<1>5. CASE Crash
  <2>1. /\ node' = node /\ machine' = machine /\ cache' = node
        /\ list' = NoList /\ just' = {} /\ recent' = {} /\ seen' = {} /\ aged' = {}
    BY <1>5 DEF Crash, EndPass, nodeVars
  <2> QED
    BY <2>1 DEF SweepInv, UnmadeInv, UnheardOf, AgedInv, NoList
<1>6. CASE Reconcile
  <2>1. /\ UNCHANGED <<node, machine, cache, seen, aged>> /\ list' = cache
        /\ just' \subseteq recent /\ recent' \subseteq recent
    BY <1>6 DEF Reconcile, listNodes, nodeVars
  <2> QED
    BY <2>1 DEF SweepInv, UnmadeInv, UnheardOf, AgedInv, Shown, Exists
<1>7. CASE createNode
  <2>1. PICK n \in Among(node, {"unmade"}) :
           /\ node' = [node EXCEPT ![n] = "waiting"]
           /\ \/ /\ list' = [list EXCEPT ![n] = "waiting"] /\ recent' = recent \union {n}
                 /\ UNCHANGED <<just, pc>>
              \/ list' = NoList /\ just' = {} /\ pc' = "idle" /\ UNCHANGED recent
           /\ UNCHANGED <<cache, machine, seen, aged>>
    BY <1>7 DEF createNode, EndPass
  <2>2. n \in Name /\ node[n] = "unmade" /\ UnheardOf(n)
    BY DEF Among, SweepInv, UnmadeInv
  <2>3. UnmadeInv'
    BY <1>1, <2>1, <2>2 DEF SweepInv, UnmadeInv, UnheardOf, NoList, TypeOK
  <2>4. ASSUME NEW m \in aged', Exists(node'[m])
        PROVE  Shown(m)'
    <3>1. m # n /\ m \in aged /\ m \in Name
      BY <2>1, <2>2 DEF UnheardOf, SweepInv, TypeOK
    <3>2. node'[m] = node[m] /\ Exists(node[m])
      BY <1>1, <2>1, <2>4, <3>1 DEF TypeOK
    <3>3. Shown(m)
      BY <3>1, <3>2 DEF SweepInv, AgedInv
    <3> QED
      BY <1>1, <2>1, <3>1, <3>3 DEF Shown, Listed, TypeOK
  <2> QED
    BY <2>3, <2>4 DEF AgedInv
<1>8. CASE sweepOrphans
  <2>1. /\ UNCHANGED <<node, cache, list, just, recent>> /\ pc = "sweep" /\ pc' = "finish"
        /\ machine' \subseteq machine /\ seen' \subseteq machine /\ aged' \subseteq aged
    BY <1>8 DEF sweepOrphans, Orphans
  <2> QED
    BY <2>1 DEF SweepInv, UnmadeInv, UnheardOf, AgedInv, Shown, Listed, Exists
<1>9. CASE clearFailedNodes \/ advanceFallback \/ removeNode \/ deleteDrained
  <2>1. UNCHANGED <<machine, cache, list, just, memVars>> /\ Listed /\ Listed'
    BY <1>9 DEF clearFailedNodes, advanceFallback, AfterFallback, removeNode, deleteDrained,
       DeleteNode, PassOnly, Listed, nodeVars, passVars
  <2>2. \A m \in Name : GoesOn(m)
    <3>1. node' = node \/ \E n \in Name : DeleteNode(n)
      BY <1>1, <1>9 DEF clearFailedNodes, advanceFallback, removeNode, deleteDrained, PassOnly,
         nodeVars, Among, TypeOK
    <3> QED
      BY <1>1, <3>1, DeletionsGoOn DEF GoesOn
  <2> QED
    BY <2>1, <2>2, SweepInvGoesOn DEF TakesAsNode
<1>10. CASE manageFixed \/ manageAutoscaled \/ scaled \/ skipSweep
  <2>1. UNCHANGED <<node, machine, cache, list, just, memVars>> /\ Listed /\ Listed'
    BY <1>10 DEF manageFixed, manageAutoscaled, createNodes, removeNodes, ScaleOn, scaled,
       skipSweep, PassOnly, Listed, nodeVars
  <2> QED
    BY <2>1, SweepInvGoesOn DEF TakesAsNode, GoesOn
<1>11. ASSUME NEW n \in Name, NodeNext(n)
       PROVE  UnmadeInv' /\ AgedInv'
  <2>1. UNCHANGED <<cache, list, just, memVars, pc>>
    BY <1>1, <1>11, NodeTypesStep DEF passVars
  <2> QED
    BY <1>1, <1>11, <2>1, NodesGoOn, SweepInvGoesOn DEF Listed
<1>12. ASSUME NEW n \in Name, Age(n)
       PROVE  UnmadeInv' /\ AgedInv'
  <2>1. /\ UNCHANGED <<node, machine, cache, list, just, recent, seen>>
        /\ pc = "idle" /\ pc' = "idle"
        /\ n \in seen /\ (Exists(node[n]) => Exists(cache[n]))
        /\ aged' = aged \union {n}
    BY <1>12 DEF Age, nodeVars, passVars
  <2> QED
    BY <2>1 DEF SweepInv, UnmadeInv, UnheardOf, AgedInv, Shown, Listed, Exists
<1>13. CASE Ask
  <2>1. UNCHANGED <<node, machine, cache, list, just, memVars, pc>>
    BY <1>13 DEF Ask, nodeVars, passVars
  <2> QED
    BY <2>1, SweepInvGoesOn DEF TakesAsNode, GoesOn, Listed
<1>14. CASE Sync
  <2>1. UNCHANGED <<node, machine, list, just, memVars, pc>> /\ cache' = node
    BY <1>14 DEF Sync, nodeVars, passVars
  <2> QED
    BY <2>1 DEF SweepInv, UnmadeInv, UnheardOf, AgedInv, Shown, Listed, Exists, memVars
<1>15. CASE UNCHANGED vars
  <2>1. UNCHANGED <<node, machine, cache, list, just, memVars, pc>>
    BY <1>15 DEF vars, nodeVars, passVars
  <2> QED
    BY <2>1, SweepInvGoesOn DEF TakesAsNode, GoesOn, Listed
<1> QED
  BY <1>3, <1>4, <1>5, <1>6, <1>7, <1>8, <1>9, <1>10, <1>11, <1>12, <1>13, <1>14, <1>15
  DEF Next, Pass

LEMMA SweepInit == Init => SweepInv
<1>1. ASSUME Init
      PROVE  UnmadeInv /\ AgedInv
  BY <1>1 DEF Init, UnmadeInv, UnheardOf, AgedInv, NoList
<1> QED
  BY <1>1, TypeInit DEF SweepInv

LEMMA SweepAlways == Spec => []SweepInv
<1> QED
  BY SweepInit, SweepStep, PTL DEF Spec

LEMMA SweepSpares ==
    ASSUME SweepInv, [Next]_vars, pc = "sweep", pc' = "finish"
    PROVE  \A n \in machine \ machine' : ~Exists(node[n])
<1>1. CASE sweepOrphans
  <2>1. machine \ machine' \subseteq Orphans \intersect aged
    BY <1>1 DEF sweepOrphans
  <2> QED
    BY <2>1 DEF SweepInv, AgedInv, Shown, Listed, Orphans
<1>2. CASE skipSweep
  BY <1>2 DEF skipSweep, PassOnly, nodeVars
<1>3. ASSUME NEW n \in Name, NodeNext(n) \/ Age(n)
      PROVE  FALSE
  BY <1>3, NodeTypesStep DEF SweepInv, Age, passVars
<1>4. sweepOrphans \/ skipSweep
  BY <1>3 DEF Next, Pass, Begin, clearResumeRequest, dropResume, Reconcile, clearFailedNodes,
     advanceFallback, manageFixed, manageAutoscaled, createNode, removeNode, deleteDrained,
     scaled, finish, Return, Crash, EndPass, Ask, Sync, PauseEnds, vars, passVars
<1> QED
  BY <1>1, <1>2, <1>4

(* The sweep never deletes the machine of a node that exists, although it  *)
(* compares the machines the provider has now with a list of nodes from    *)
(* earlier and with what it remembers of earlier sweeps.                   *)
THEOREM SweepSparesNodes == Spec => SweepSparesClaimed
<1> DEFINE Spares == (pc = "sweep" /\ pc' = "finish")
                       => \A n \in machine \ machine' : ~Exists(node[n])
<1>1. SweepInv /\ [Next]_vars => [Spares]_vars
  BY SweepSpares
<1>2. SweepSparesClaimed <=> [][Spares]_vars
  BY DEF SweepSparesClaimed
<1> HIDE DEF Spares
<1> QED
  BY <1>1, <1>2, SweepAlways, PTL DEF Spec

-----------------------------------------------------------------------------
(* The counts.                                                             *)

(* What the theorems below assume: no creation takes effect and is told to *)
(* have failed (createNodes would not remember the node), and nobody       *)
(* retries a failed node (which is not counted, and would be again).       *)
CreationsAreCounted == "loseAnswer" \notin May /\ "retry" \notin May

(* The states in which a node has a machine or may still get one.  A node  *)
(* that left them, or left Live, does not come back.                       *)
Holding == Live \union {"failing", "deleting"}

(* A node that failed, and one that is cleared away for it, has none.      *)
BareInv == \A n \in Name : node[n] \in {"failed", "clearing"} => n \notin machine

(* A list shows a node as what it is, or as what it was before; or it is   *)
(* one of the new nodes that are counted besides.                          *)
Shows(l, n, new) ==
    /\ node[n] \in Live => l[n] \in Live \/ new
    /\ node[n] \in Holding => l[n] \in Holding \/ new

CacheInv == \A n \in Name : Shows(cache, n, n \in recent /\ cache[n] = "unmade")
ListInv  == Listed => \A n \in Name : Shows(list, n, n \in just)

(* What is still to be made fits under the limit, and what a pool of a     *)
(* fixed size still makes it lacks.                                        *)
Creating == pc = "create" /\ todo > 0
RoomInv ==
    Creating => /\ machineCount + todo <= MaxNodes
                /\ ~pool.auto => liveCount + todo <= pool.min

(* No more nodes than maxNodes have a machine or may still get one.        *)
HoldInv == Cardinality(Among(node, Holding)) <= MaxNodes

CountInv == SweepInv /\ BareInv /\ CacheInv /\ ListInv /\ RoomInv /\ HoldInv

(* What a node and a deletion do to the counts.                            *)
Shrinks(n) ==
    /\ node'[n] \in Live => node[n] \in Live
    /\ node'[n] \in Holding => node[n] \in Holding

LEMMA NodesShrink ==
    ASSUME CreationsAreCounted, TypeOK, BareInv, NEW n \in Name, NodeNext(n)
    PROVE  BareInv' /\ \A m \in Name : Shrinks(m)
<1>1. node \in [Name -> NodeStates]
  BY DEF TypeOK
<1>2. CASE Acquire(n)
  BY <1>1, <1>2 DEF Acquire, NodeStep, BareInv, Shrinks
<1>3. CASE Record(n)
  BY <1>1, <1>3 DEF Record, NodeStep, BareInv, Shrinks, Holding, Live
<1>4. CASE Stall(n)
  BY <1>1, <1>4 DEF Stall, NodeStep, BareInv, Shrinks, Holding, Live
<1>5. CASE Up(n)
  BY <1>1, <1>5 DEF Up, NodeStep, BareInv, Shrinks, Holding, Live
<1>6. CASE Replace(n)
  BY <1>1, <1>6 DEF Replace, NodeStep, BareInv, Shrinks, Holding, Live
<1>7. CASE Fail(n)
  BY <1>1, <1>7 DEF Fail, NodeStep, BareInv, Shrinks, Holding, Live
<1>8. CASE FailedMachineGone(n)
  BY <1>1, <1>8 DEF FailedMachineGone, NodeStep, BareInv, Shrinks, Holding, Live
<1>9. CASE LetGo(n)
  BY <1>1, <1>9 DEF LetGo, NodeStep, BareInv, Shrinks, Holding, Live
<1>10. CASE DeleteByUser(n)
  BY <1>1, <1>10 DEF DeleteByUser, NodeStep, BareInv, Shrinks, Holding, Live, Failed, Deleted
<1>11. ~RetryByUser(n)
  BY DEF RetryByUser, CreationsAreCounted
<1> QED
  BY <1>2, <1>3, <1>4, <1>5, <1>6, <1>7, <1>8, <1>9, <1>10, <1>11 DEF NodeNext

LEMMA DeletionsShrink ==
    ASSUME TypeOK, BareInv, NEW n \in Name, DeleteNode(n)
    PROVE  BareInv' /\ \A m \in Name : Shrinks(m)
<1>1. CASE Exists(node[n])
  <2>1. node' = [node EXCEPT ![n] = Deleted(node[n])] /\ machine' = machine
    BY <1>1 DEF DeleteNode
  <2> QED
    BY <1>1, <2>1 DEF TypeOK, BareInv, Shrinks, Holding, Live, Failed, Deleting, Deleted, Exists
<1>2. CASE ~Exists(node[n])
  BY <1>2 DEF DeleteNode, BareInv, Shrinks
<1> QED
  BY <1>1, <1>2

(* Fewer nodes hold machines after such a step.                            *)
LEMMA HoldShrinks ==
    ASSUME HoldInv, \A m \in Name : Shrinks(m)
    PROVE  HoldInv'
<1>1. Among(node, Holding) \in SUBSET Name /\ Among(node', Holding) \in SUBSET Name
      /\ Among(node', Holding) \subseteq Among(node, Holding)
  BY DEF Among, Shrinks
<1>2. Cardinality(Among(node', Holding)) <= Cardinality(Among(node, Holding))
  BY <1>1, NamesCount, FS_Subset
<1>3. /\ Cardinality(Among(node', Holding)) \in Nat
      /\ Cardinality(Among(node, Holding)) \in Nat
  BY <1>1, NamesCount
<1> QED
  BY <1>2, <1>3, NumbersAreNumbers DEF HoldInv

LEMMA CountInvGoesOn ==
    ASSUME CountInv, \A m \in Name : Shrinks(m), Listed' => Listed,
           UNCHANGED <<cache, list, just, recent>>
    PROVE  CacheInv' /\ ListInv' /\ HoldInv'
<1>1. CacheInv'
  BY DEF CountInv, CacheInv, Shows, Shrinks
<1>2. ListInv'
  BY DEF CountInv, ListInv, Shows, Shrinks
<1> QED
  BY <1>1, <1>2, HoldShrinks DEF CountInv

(* One more node.                                                          *)
LEMMA CountMore ==
    ASSUME CountInv, Creating, NEW n \in Name, node[n] = "unmade",
           node' = [node EXCEPT ![n] = "waiting"],
           list' = [list EXCEPT ![n] = "waiting"],
           recent' = recent \union {n}, todo' = todo - 1,
           UNCHANGED <<machine, cache, pc, pool, just>>
    PROVE  /\ BareInv' /\ CacheInv' /\ ListInv' /\ RoomInv' /\ HoldInv'
           /\ ~pool.auto => Cardinality(Among(node', Live)) <= pool.min
<1>1. /\ node \in [Name -> NodeStates] /\ list \in [Name -> NodeStates]
      /\ todo \in Nat /\ todo > 0 /\ just \in SUBSET Name /\ pool.min \in Nat
  BY NumbersAreNumbers DEF CountInv, SweepInv, TypeOK, Creating, Specs
<1>2. UnheardOf(n)
  BY DEF CountInv, SweepInv, UnmadeInv
<1>3. Listed
  BY DEF Creating, Listed
<1>4. BareInv'
  BY <1>1 DEF CountInv, BareInv
<1>5. CacheInv'
  BY <1>1, <1>2 DEF CountInv, CacheInv, Shows, UnheardOf
<1>6. \A m \in Name : Shows(list, m, m \in just)'
  BY <1>1, <1>3 DEF CountInv, ListInv, Shows, Live, Holding
<1>7. ListInv'
  BY <1>6 DEF ListInv
<1>8. /\ Among(list', Live) = Among(list, Live) \union {n} /\ n \notin Among(list, Live)
      /\ Machines(list') = Machines(list) \union {n} /\ n \notin Machines(list)
  BY <1>1, <1>2 DEF Among, Machines, UnheardOf, CostsMoney, Live, Deleting
<1>9. /\ Among(list, Live) \in SUBSET Name /\ Machines(list) \in SUBSET Name
      /\ Among(list', Live) \in SUBSET Name /\ Machines(list') \in SUBSET Name
      /\ Among(node', Live) \in SUBSET Name /\ Among(node', Holding) \in SUBSET Name
  BY DEF Among, Machines
<1>10. /\ Cardinality(Among(list', Live)) = Cardinality(Among(list, Live)) + 1
       /\ Cardinality(Machines(list')) = Cardinality(Machines(list)) + 1
  BY <1>8, <1>9, NamesCount, FS_AddElement
<1>11. machineCount' = machineCount + 1 /\ liveCount' = liveCount + 1
  <2>1. /\ Cardinality(Among(list, Live)) \in Nat /\ Cardinality(Machines(list)) \in Nat
        /\ Cardinality(just) \in Nat
    BY <1>1, <1>9, NamesCount
  <2> QED
    BY <1>10, <2>1 DEF machineCount, liveCount
<1>12. machineCount \in Nat /\ liveCount \in Nat
  BY CountsType DEF CountInv, SweepInv
<1>13. /\ machineCount' + todo' <= MaxNodes
       /\ ~pool.auto => liveCount' + todo' <= pool.min
  BY <1>1, <1>11, <1>12, NumbersAreNumbers DEF CountInv, RoomInv
<1>14. RoomInv'
  BY <1>13 DEF RoomInv
<1>15. ASSUME NEW A \in SUBSET Name, NEW B \in SUBSET Name, NEW C \in SUBSET Name,
              C \subseteq A \union B
       PROVE  Cardinality(C) <= Cardinality(A) + Cardinality(B)
  <2>1. IsFiniteSet(A) /\ IsFiniteSet(B) /\ A \union B \in SUBSET Name
    BY NamesCount
  <2>2. /\ Cardinality(A \union B)
             = Cardinality(A) + Cardinality(B) - Cardinality(A \intersect B)
        /\ Cardinality(C) <= Cardinality(A \union B)
    BY <1>15, <2>1, FS_Union, FS_Subset, NamesCount
  <2>3. /\ Cardinality(A) \in Nat /\ Cardinality(B) \in Nat /\ Cardinality(C) \in Nat
        /\ Cardinality(A \union B) \in Nat /\ Cardinality(A \intersect B) \in Nat
    BY <2>1, NamesCount
  <2> QED
    BY <2>2, <2>3
<1>16. /\ Among(node', Holding) \subseteq Machines(list') \union just
       /\ Among(node', Live) \subseteq Among(list', Live) \union just
  <2>1. \A s : s \in Holding => CostsMoney(s)
    BY DEF Holding, CostsMoney, Deleting
  <2> QED
    BY <1>6, <2>1 DEF Among, Machines, Shows
<1>17. /\ Cardinality(Among(node', Holding)) <= machineCount'
       /\ Cardinality(Among(node', Live)) <= liveCount'
  BY <1>1, <1>9, <1>15, <1>16 DEF machineCount, liveCount
<1>18. /\ Cardinality(Among(node', Holding)) \in Nat /\ Cardinality(Among(node', Live)) \in Nat
       /\ machineCount' \in Nat /\ liveCount' \in Nat /\ todo' \in Nat
  <2>1. machineCount' \in Nat /\ liveCount' \in Nat /\ todo' \in Nat
    BY <1>1, <1>11, <1>12
  <2> QED
    BY <1>9, <2>1, NamesCount
<1>19. HoldInv'
  BY <1>13, <1>17, <1>18, NumbersAreNumbers DEF HoldInv
<1>20. ~pool.auto => Cardinality(Among(node', Live)) <= pool.min
  BY <1>1, <1>13, <1>17, <1>18
<1> QED
  BY <1>4, <1>5, <1>7, <1>14, <1>19, <1>20

(* createNode, when its answer is not lost.                                *)
LEMMA CreateMore ==
    ASSUME CreationsAreCounted, CountInv, createNode
    PROVE  /\ BareInv' /\ CacheInv' /\ ListInv' /\ RoomInv' /\ HoldInv'
           /\ ~pool.auto => Cardinality(Among(node', Live)) <= pool.min
<1>1. PICK n \in Among(node, {"unmade"}) :
        /\ node' = [node EXCEPT ![n] = "waiting"]
        /\ list' = [list EXCEPT ![n] = "waiting"]
        /\ recent' = recent \union {n} /\ todo' = todo - 1
        /\ UNCHANGED <<machine, cache, pc, pool, just>>
  BY DEF createNode, CreationsAreCounted
<1>2. Creating /\ n \in Name /\ node[n] = "unmade"
  BY DEF createNode, Creating, Among
<1> QED
  BY <1>1, <1>2, CountMore

(* A pass works out how many to make.                                      *)
LEMMA RoomMade ==
    ASSUME TypeOK, NEW a \in Nat, createNodes(a), UNCHANGED <<list, just, pool>>,
           ~pool.auto => a <= pool.min - liveCount
    PROVE  RoomInv'
<1> DEFINE room == IF machineCount < MaxNodes THEN MaxNodes - machineCount ELSE 0
<1>1. /\ machineCount \in Nat /\ liveCount \in Nat /\ pool.min \in Nat
      /\ room \in Nat
  <2>1. machineCount \in Nat /\ liveCount \in Nat
    BY CountsType
  <2>2. pool.min \in Nat
    BY NumbersAreNumbers DEF TypeOK, Specs
  <2> QED
    BY <2>1, <2>2, NumbersAreNumbers
<1>2. todo' = Least(a, Least(room, MaxScaleUp))
  BY DEF createNodes
<1>3. todo' > 0 => machineCount + todo' <= MaxNodes
  BY <1>1, <1>2, NumbersAreNumbers DEF Least
<1> HIDE DEF room
<1>4. todo' \in Nat /\ todo' <= a
  BY <1>1, <1>2, LeastIsLeast, NumbersAreNumbers
<1>5. ~pool.auto => liveCount + todo' <= pool.min
  BY <1>1, <1>4
<1>6. machineCount' = machineCount /\ liveCount' = liveCount /\ pool' = pool
  BY DEF machineCount, liveCount
<1> QED
  BY <1>3, <1>5, <1>6 DEF RoomInv, Creating

LEMMA RoomWorkedOut ==
    ASSUME TypeOK, manageFixed \/ manageAutoscaled
    PROVE  RoomInv'
<1>1. liveCount \in Nat /\ machineCount \in Nat /\ pool.min \in Nat /\ Cardinality(Name) \in Nat
  BY CountsType, NumbersAreNumbers, NamesCount DEF TypeOK, Specs
<1>2. UNCHANGED <<list, just, pool>>
  BY DEF manageFixed, manageAutoscaled
<1>3. ASSUME pc' # "create"
      PROVE  RoomInv'
  BY <1>3 DEF RoomInv, Creating
<1>4. CASE manageFixed
  <2>1. CASE liveCount < pool.min /\ createNodes(pool.min - liveCount)
    BY <1>1, <1>2, <2>1, RoomMade
  <2>2. CASE removeNodes(liveCount - pool.min) \/ ScaleOn("sweep")
    BY <1>3, <2>2 DEF removeNodes, ScaleOn
  <2> QED
    BY <1>4, <2>1, <2>2 DEF manageFixed
<1>5. CASE manageAutoscaled
  <2>1. pool.auto
    BY <1>5 DEF manageAutoscaled
  <2>2. ASSUME NEW a \in Nat, createNodes(a)
        PROVE  RoomInv'
    BY <1>2, <2>1, <2>2, RoomMade
  <2>3. PICK asked \in 0 .. Cardinality(Name) :
          LET room == IF machineCount < MaxNodes THEN MaxNodes - machineCount ELSE 0
              want == IF liveCount + asked < pool.min THEN pool.min - liveCount ELSE asked
              make == Least(want, Least(room, MaxScaleUp))
          IN createNodes(make) \/ ScaleOn("sweep") \/ ScaleOn("drain")
    BY <1>5 DEF manageAutoscaled
  <2> DEFINE room == IF machineCount < MaxNodes THEN MaxNodes - machineCount ELSE 0
             want == IF liveCount + asked < pool.min THEN pool.min - liveCount ELSE asked
             make == Least(want, Least(room, MaxScaleUp))
  <2>4. createNodes(make) \/ ScaleOn("sweep") \/ ScaleOn("drain")
    BY <2>3
  <2>5. room \in Nat /\ want \in Nat
    BY <1>1, NumbersAreNumbers
  <2> HIDE DEF room, want
  <2>6. make \in Nat
    BY <2>5, LeastIsLeast, NumbersAreNumbers
  <2> HIDE DEF make
  <2>7. CASE createNodes(make)
    BY <2>2, <2>6, <2>7
  <2>8. CASE ScaleOn("sweep") \/ ScaleOn("drain")
    BY <1>3, <2>8 DEF ScaleOn
  <2> QED
    BY <2>4, <2>7, <2>8
<1> QED
  BY <1>4, <1>5

LEMMA CountStep ==
    ASSUME CreationsAreCounted, CountInv, [Next]_vars
    PROVE  CountInv'
<1>1. SweepInv' /\ SweepInv /\ TypeOK
  BY SweepStep DEF CountInv, SweepInv
<1>2. SUFFICES BareInv' /\ CacheInv' /\ ListInv' /\ RoomInv' /\ HoldInv'
  BY <1>1 DEF CountInv
<1>3. ASSUME UNCHANGED <<node, machine, cache, list, just, recent>>, Listed' => Listed, RoomInv'
      PROVE  BareInv' /\ CacheInv' /\ ListInv' /\ RoomInv' /\ HoldInv'
  <2>1. \A m \in Name : Shrinks(m)
    BY <1>3 DEF Shrinks
  <2> QED
    BY <1>3, <2>1, CountInvGoesOn DEF CountInv, BareInv
<1>4. ASSUME pc' # "create"
      PROVE  RoomInv'
  BY <1>4 DEF RoomInv, Creating
<1>5. ASSUME UNCHANGED <<list, just, pc, todo, pool>>
      PROVE  RoomInv'
  BY <1>5 DEF CountInv, RoomInv, Creating, machineCount, liveCount
<1>6. CASE Begin \/ clearResumeRequest \/ dropResume \/ PauseEnds
  <2>1. /\ UNCHANGED <<node, machine, cache, list, just, recent>>
        /\ pc' \in {"idle", "resume", "dropResume", "list"}
    BY <1>6 DEF Begin, clearResumeRequest, dropResume, PauseEnds, nodeVars, memVars
  <2> QED
    BY <1>3, <1>4, <2>1 DEF Listed
<1>7. CASE Return \/ finish
  <2>1. UNCHANGED <<node, machine, cache, recent>> /\ pc' = "idle"
    BY <1>7 DEF Return, finish, EndPass, nodeVars, memVars
  <2> QED
    BY <1>4, <2>1 DEF CountInv, BareInv, CacheInv, ListInv, HoldInv, Listed, Shows
<1>8. CASE Crash
  <2>1. UNCHANGED <<node, machine>> /\ cache' = node /\ pc' = "idle"
    BY <1>8 DEF Crash, EndPass, nodeVars
  <2> QED
    BY <1>4, <2>1 DEF CountInv, BareInv, CacheInv, ListInv, HoldInv, Listed, Shows
<1>9. CASE Reconcile
  <2>1. UNCHANGED <<node, machine, cache>> /\ list' = cache /\ pc' = "clear" /\ recent' = just'
    BY <1>9 DEF Reconcile, listNodes, nodeVars
  <2>2. \A n \in recent : cache[n] = "unmade" => n \in just'
    BY <1>9 DEF Reconcile, listNodes, Exists, Live, Failed, Deleting
  <2>3. CacheInv'
    BY <2>1, <2>2 DEF CountInv, CacheInv, Shows
  <2>4. ListInv'
    BY <2>1, <2>2 DEF CountInv, CacheInv, ListInv, Shows
  <2> QED
    BY <1>4, <2>1, <2>3, <2>4 DEF CountInv, BareInv, HoldInv
<1>10. CASE createNode
  BY <1>10, CreateMore
<1>11. CASE sweepOrphans
  <2>1. UNCHANGED <<node, cache, list, just, recent>> /\ pc' = "finish" /\ pc = "sweep"
        /\ machine' \subseteq machine
    BY <1>11 DEF sweepOrphans
  <2>2. BareInv'
    BY <2>1 DEF CountInv, BareInv
  <2>3. \A m \in Name : Shrinks(m)
    BY <2>1 DEF Shrinks
  <2> QED
    BY <1>4, <2>1, <2>2, <2>3, CountInvGoesOn DEF Listed
<1>12. CASE clearFailedNodes \/ advanceFallback \/ removeNode \/ deleteDrained
  <2>1. /\ UNCHANGED <<machine, cache, list, just, recent>> /\ Listed
        /\ pc' # "create"
    BY <1>12 DEF clearFailedNodes, advanceFallback, AfterFallback, removeNode, deleteDrained,
       DeleteNode, PassOnly, Listed, nodeVars, passVars, memVars
  <2>2. BareInv' /\ \A m \in Name : Shrinks(m)
    <3>1. node' = node \/ \E n \in Name : DeleteNode(n)
      BY <1>1, <1>12 DEF clearFailedNodes, advanceFallback, removeNode, deleteDrained, PassOnly,
         nodeVars, Among, TypeOK
    <3>2. CASE node' = node
      BY <2>1, <3>2 DEF CountInv, BareInv, Shrinks
    <3> QED
      BY <1>1, <3>1, <3>2, DeletionsShrink DEF CountInv
  <2> QED
    BY <1>4, <2>1, <2>2, CountInvGoesOn
<1>13. CASE manageFixed \/ manageAutoscaled
  <2>1. UNCHANGED <<node, machine, cache, list, just, recent>> /\ Listed
    BY <1>13 DEF manageFixed, manageAutoscaled, PassOnly, Listed, nodeVars, memVars
  <2> QED
    BY <1>1, <1>3, <1>13, <2>1, RoomWorkedOut
<1>14. CASE scaled \/ skipSweep
  <2>1. /\ UNCHANGED <<node, machine, cache, list, just, recent>> /\ Listed
        /\ pc' # "create"
    BY <1>14 DEF scaled, skipSweep, PassOnly, Listed, nodeVars, memVars
  <2> QED
    BY <1>3, <1>4, <2>1
<1>15. ASSUME NEW n \in Name, NodeNext(n)
       PROVE  BareInv' /\ CacheInv' /\ ListInv' /\ RoomInv' /\ HoldInv'
  <2>1. UNCHANGED <<cache, list, just, recent, pc, todo, pool>>
    BY <1>1, <1>15, NodeTypesStep DEF passVars, memVars
  <2>2. BareInv' /\ \A m \in Name : Shrinks(m)
    BY <1>1, <1>15, NodesShrink DEF CountInv
  <2> QED
    BY <1>5, <2>1, <2>2, CountInvGoesOn DEF Listed
<1>16. ASSUME Ask \/ UNCHANGED vars \/ \E n \in Name : Age(n)
       PROVE  BareInv' /\ CacheInv' /\ ListInv' /\ RoomInv' /\ HoldInv'
  <2>1. UNCHANGED <<node, machine, cache, list, just, recent, pc, todo, pool>>
    BY <1>16 DEF Ask, Age, vars, nodeVars, passVars, memVars
  <2> QED
    BY <1>3, <1>5, <2>1 DEF Listed
<1>17. CASE Sync
  <2>1. UNCHANGED <<node, machine, list, just, recent, pc, todo, pool>> /\ cache' = node
    BY <1>17 DEF Sync, nodeVars, passVars, memVars
  <2> QED
    BY <1>5, <2>1 DEF CountInv, BareInv, CacheInv, ListInv, HoldInv, Listed, Shows
<1> QED
  BY <1>6, <1>7, <1>8, <1>9, <1>10, <1>11, <1>12, <1>13, <1>14, <1>15, <1>16, <1>17
  DEF Next, Pass

LEMMA CountInit == Init => CountInv
<1> SUFFICES ASSUME Init PROVE CountInv
  OBVIOUS
<1>1. SweepInv
  BY SweepInit
<1>2. Among(node, Holding) = {}
  BY DEF Init, Among, Holding, Live
<1>3. HoldInv
  BY <1>2, FS_EmptySet, NumbersAreNumbers DEF HoldInv
<1>4. BareInv /\ CacheInv /\ ListInv /\ RoomInv
  BY DEF Init, BareInv, CacheInv, ListInv, RoomInv, Listed, Shows, Creating, Live, Holding
<1> QED
  BY <1>1, <1>3, <1>4 DEF CountInv

LEMMA CountAlways ==
    ASSUME CreationsAreCounted
    PROVE  Spec => []CountInv
<1>1. Init => CountInv
  BY CountInit
<1>2. CountInv /\ [Next]_vars => CountInv'
  BY CountStep
<1> QED
  BY <1>1, <1>2, PTL DEF Spec

(* The nodes of a pool never have more than maxNodes machines, for any     *)
(* limit, any number of nodes, and a list of nodes that is behind: crashes,*)
(* machines that fail and are replaced, nodes that are deleted in the      *)
(* middle of a pass, fallbacks and pauses included.                        *)
THEOREM PoolKeepsItsCap ==
    ASSUME CreationsAreCounted
    PROVE  Spec => []CapHolds
<1>1. CountInv => CapHolds
  <2> SUFFICES ASSUME CountInv PROVE CapHolds
    OBVIOUS
  <2>1. {n \in machine : Exists(node[n])} \subseteq Among(node, Holding)
    <3>1. machine \subseteq Name
      BY DEF CountInv, SweepInv, TypeOK
    <3> QED
      BY <3>1 DEF CountInv, BareInv, Among, Holding, Exists, Failed, Deleting
  <2>2. Among(node, Holding) \in SUBSET Name
    BY DEF Among
  <2>3. /\ Cardinality({n \in machine : Exists(node[n])}) <= Cardinality(Among(node, Holding))
        /\ Cardinality({n \in machine : Exists(node[n])}) \in Nat
        /\ Cardinality(Among(node, Holding)) \in Nat
    BY <2>1, <2>2, NamesCount, FS_Subset, FS_CardinalityType
  <2> QED
    BY <2>3, NumbersAreNumbers DEF CountInv, HoldInv, CapHolds
<1> QED
  BY <1>1, CountAlways, PTL

LEMMA OnlyCreateNodeMakes ==
    ASSUME TypeOK, [Next]_vars, NEW n \in Name, node[n] = "unmade", node'[n] = "waiting"
    PROVE  createNode
<1>1. ASSUME NEW m \in Name, NodeNext(m)
      PROVE  FALSE
  BY <1>1, NodesGoOn DEF GoesOn
<1>2. ASSUME NEW m \in Name, DeleteNode(m)
      PROVE  FALSE
  BY <1>2, DeletionsGoOn DEF GoesOn
<1>3. node' # node
  OBVIOUS
<1>4. ~\E m \in Name : Age(m)
  BY <1>3 DEF Age, nodeVars
<1>5. ~(Begin \/ Return \/ Crash \/ Ask \/ Sync \/ PauseEnds \/ UNCHANGED vars)
  BY <1>3 DEF Begin, Return, Crash, Ask, Sync, PauseEnds, vars, nodeVars
<1>6. ~(clearFailedNodes \/ advanceFallback \/ removeNode \/ deleteDrained)
  BY <1>2, <1>3 DEF clearFailedNodes, advanceFallback, removeNode, deleteDrained, PassOnly,
     nodeVars, Among, TypeOK
<1>7. ~(\/ clearResumeRequest \/ dropResume \/ Reconcile \/ manageFixed \/ manageAutoscaled
        \/ scaled \/ sweepOrphans \/ skipSweep \/ finish)
  BY <1>3 DEF clearResumeRequest, dropResume, Reconcile, manageFixed, manageAutoscaled, scaled,
     sweepOrphans, skipSweep, finish, PassOnly, nodeVars
<1> QED
  BY <1>1, <1>4, <1>5, <1>6, <1>7 DEF Next, Pass

(* A pool of a fixed size never makes a node when it already has as many   *)
(* as its pass was asked for, whatever its list does not show.             *)
THEOREM PoolMakesWhatItLacks ==
    ASSUME CreationsAreCounted
    PROVE  Spec => NeverOvershoots
<1> DEFINE Lacks == (~pool.auto /\ \E n \in Name : node[n] = "unmade" /\ node'[n] = "waiting")
                      => Cardinality(Among(node', Live)) <= pool.min
<1>1. CountInv /\ [Next]_vars => [Lacks]_vars
  BY OnlyCreateNodeMakes, CreateMore DEF CountInv, SweepInv
<1>2. NeverOvershoots <=> [][Lacks]_vars
  BY DEF NeverOvershoots
<1> HIDE DEF Lacks
<1> QED
  BY <1>1, <1>2, CountAlways, PTL DEF Spec
=============================================================================
