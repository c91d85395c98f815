--------------------------- MODULE PlatformProofs ---------------------------
(***************************************************************************)
(* Proofs about what projects are and have: how they are made and imported *)
(* (ProjectMaking), their environments of pull requests (PrEnvironments)   *)
(* and the folders of their databases' backups (DatabaseBackups), for any  *)
(* number of each.                                                         *)
(***************************************************************************)
EXTENDS ProjectMaking, PrEnvironments, DatabaseBackups, FiniteSetTheorems, TLAPS

-----------------------------------------------------------------------------
(* Making projects.                                                        *)

(* Neither a list that lags nor two projects of one second nor a server    *)
(* that stops nor a project that cannot be deleted, or is deleted at work. *)
(* An organization may still be emptied, and be given a project, at any    *)
(* moment.                                                                 *)
FewMakingIncidents == MakingHappens \subseteq {"emptied", "assigned"}

(* A request at work on its project has it; no project is newer than the   *)
(* clock; the platform's projects are in no organization.                  *)
WorkInv ==
    \A m \in Maker : /\ maker[m].at \in {"made", "counted", "named", "withdraws"} => projectOf[m].there
                     /\ projectOf[m].since <= second
                     /\ projectOf[m].inOrg => ~maker[m].platform

(* An import that has its name has no other of that name before it, at     *)
(* whatever stage the other is.                                            *)
FirstInv ==
    \A m, n \in Maker :
        Named(m) /\ n # m /\ projectOf[n].there /\ maker[n].kind = "import" /\ maker[n].platform = maker[m].platform
            => Earlier(m, n)

MakingInv == MakingTypeOK /\ WorkInv /\ FirstInv /\ LimitHolds /\ NothingOfIt

LEMMA SeesAll == ASSUME FewMakingIncidents PROVE Shown = {Maker}
  BY DEF FewMakingIncidents, Shown


(* What the types say, but for the last conjunct.                          *)
Stage == {"idle", "planned", "checked", "made", "counted", "named", "withdraws", "done", "failed"}
Request == [kind : {"create", "import"}, platform : BOOLEAN, at : Stage]
Project == [there : BOOLEAN, since : Nat, inOrg : BOOLEAN]
MakingSets == maker \in [Maker -> Request] /\ projectOf \in [Maker -> Project] /\ partsOf \in [Maker -> 0 .. Parts]
              /\ second \in Nat \ {0} /\ orgAt \in {"there", "emptying", "gone"} /\ mover \in {"out", "checked", "in"}

(* A request that goes on to another stage is the same request, and the    *)
(* others are as they were.                                                *)
Onwards(m, w) ==
    /\ maker' \in [Maker -> Request] /\ maker'[m].at = w
    /\ \A n \in Maker : n # m => maker'[n] = maker[n]
    /\ \A n \in Maker : maker'[n].kind = maker[n].kind /\ maker'[n].platform = maker[n].platform

LEMMA GoesOn ==
    ASSUME MakingSets, NEW m \in Maker, NEW w \in Stage, MakerAt(m, w) PROVE Onwards(m, w)
<1>1. maker' \in [Maker -> Request]
  BY DEF MakingSets, MakerAt, Request
<1>2. maker'[m] = [maker[m] EXCEPT !.at = w] /\ \A n \in Maker : n # m => maker'[n] = maker[n]
  BY DEF MakingSets, MakerAt
<1>3. maker'[m].at = w /\ maker'[m].kind = maker[m].kind /\ maker'[m].platform = maker[m].platform
  BY <1>2 DEF MakingSets, Request
<1> QED
  BY <1>1, <1>2, <1>3 DEF Onwards

(* A project that is made, and one that is deleted.                        *)
LEMMA Made ==
    ASSUME MakingSets, NEW m \in Maker, NEW t \in Nat, NEW b \in BOOLEAN,
           projectOf' = [projectOf EXCEPT ![m] = [there |-> TRUE, since |-> t, inOrg |-> b]]
    PROVE  /\ projectOf' \in [Maker -> Project] /\ projectOf'[m].there /\ projectOf'[m].since = t /\ (projectOf'[m].inOrg <=> b)
           /\ \A n \in Maker : n # m => projectOf'[n] = projectOf[n]
<1>1. [there |-> TRUE, since |-> t, inOrg |-> b] \in Project
  BY DEF Project
<1>2. projectOf'[m] = [there |-> TRUE, since |-> t, inOrg |-> b]
  BY DEF MakingSets
<1> QED
  BY <1>1, <1>2 DEF MakingSets

LEMMA Unmade ==
    ASSUME MakingSets, NEW m \in Maker, projectOf' = [projectOf EXCEPT ![m].there = FALSE]
    PROVE  /\ projectOf' \in [Maker -> Project] /\ ~projectOf'[m].there /\ projectOf'[m].since = projectOf[m].since
           /\ (projectOf'[m].inOrg <=> projectOf[m].inOrg) /\ \A n \in Maker : n # m => projectOf'[n] = projectOf[n]
<1>1. projectOf'[m] = [projectOf[m] EXCEPT !.there = FALSE] /\ \A n \in Maker : n # m => projectOf'[n] = projectOf[n]
  BY DEF MakingSets
<1>2. projectOf' \in [Maker -> Project]
  BY DEF MakingSets, Project
<1> QED
  BY <1>1, <1>2 DEF MakingSets, Project

LEMMA MakingStart == MakingInit => MakingInv
<1> SUFFICES ASSUME MakingInit PROVE MakingInv
  OBVIOUS
<1> USE MakingAssumption DEF MakingInit, NoProject
<1>1. MakingTypeOK
  BY DEF MakingTypeOK
<1>2. WorkInv /\ FirstInv /\ NothingOfIt
  BY DEF WorkInv, FirstInv, NothingOfIt, Named
<1>3. LimitHolds
  <2>1. {m \in Maker : Kept(m) /\ projectOf[m].inOrg} = {}
    BY DEF Kept
  <2> QED
    BY <2>1, FS_EmptySet DEF LimitHolds
<1> QED
  BY <1>1, <1>2, <1>3 DEF MakingInv

(* Without an organization that comes back, and with no more projects      *)
(* kept, the limit holds on.                                               *)
InOrg == {m \in Maker : Kept(m) /\ projectOf[m].inOrg}

LEMMA NoMoreKept ==
    ASSUME LimitHolds, orgAt = "gone" => orgAt' = "gone", InOrg' \subseteq InOrg PROVE LimitHolds'
<1>1. IsFiniteSet(InOrg) /\ IsFiniteSet(InOrg')
  BY MakingAssumption, FS_Subset DEF InOrg
<1>2. Cardinality(InOrg') <= Cardinality(InOrg) /\ Cardinality(InOrg) \in Nat /\ Cardinality(InOrg') \in Nat
  BY <1>1, FS_Subset, FS_CardinalityType
<1> QED
  BY <1>2, MakingAssumption DEF LimitHolds, InOrg

(* A request that has not made its project has made nothing.               *)
Unstarted == \A m \in Maker : maker[m].at \in {"idle", "planned", "checked"} => projectOf[m] = NoProject /\ partsOf[m] = 0

LEMMA MakingParts == MakingInv <=> MakingSets /\ WorkInv /\ FirstInv /\ LimitHolds /\ NothingOfIt /\ Unstarted
  BY DEF MakingInv, MakingTypeOK, MakingSets, Request, Project, Stage, Unstarted

(* The invariant from its parts, for the last step of each lemma below.    *)
LEMMA MakingJoined ==
    ASSUME MakingSets', WorkInv', FirstInv', LimitHolds', NothingOfIt', Unstarted'
    PROVE  MakingInv'
  BY DEF MakingInv, MakingTypeOK, MakingSets, Request, Project, Stage, Unstarted

(* A step that only takes a request to another stage, not to one at which  *)
(* its project is kept, nor to one at which its import has the name.       *)
LEMMA StageOnly ==
    ASSUME MakingInv, NEW m \in Maker, NEW w \in {"planned", "checked", "withdraws", "failed"}, MakerAt(m, w),
           UNCHANGED <<projectOf, partsOf, second, orgAt, mover>>,
           w \in {"planned", "checked"} => maker[m].at \in {"idle", "planned"},
           w = "withdraws" => projectOf[m].there,
           w = "failed" => ~projectOf[m].there /\ partsOf[m] = 0
    PROVE  MakingInv'
<1>1. Onwards(m, w)
  BY GoesOn, MakingParts DEF Stage
<1> USE <1>1, MakingParts DEF Onwards
<1>2. MakingSets'
  BY DEF MakingSets
<1>3. Unstarted'
  BY DEF Unstarted
<1>4. WorkInv'
  BY DEF WorkInv, MakingSets, Request
<1>5. NothingOfIt'
  BY DEF NothingOfIt, MakingSets, Request
<1>6. FirstInv'
  BY DEF FirstInv, Named, Earlier, MakingSets, Request
<1>7. LimitHolds'
  <2>1. InOrg' \subseteq InOrg
    BY DEF InOrg, Kept
  <2> QED
    BY <2>1, NoMoreKept
<1> QED
  BY <1>2, <1>3, <1>4, <1>5, <1>6, <1>7, MakingJoined

LEMMA LooksFirst ==
    ASSUME MakingInv, NEW m \in Maker, importTarget(m) \/ FirstLook(m) PROVE MakingInv'
<1>1. \E w \in {"planned", "checked", "failed"} : MakerAt(m, w) /\ maker[m].at \in {"idle", "planned"}
  BY DEF importTarget, PlanImport, FirstLook
<1>2. projectOf[m] = NoProject /\ partsOf[m] = 0 /\ maker[m].at \in {"idle", "planned"}
  BY <1>1, MakingParts DEF Unstarted
<1> QED
  BY <1>1, <1>2, StageOnly DEF importTarget, FirstLook, NoProject

LEMMA StopsEarly ==
    ASSUME MakingInv, FewMakingIncidents, NEW m \in Maker, MakerStops(m) PROVE MakingInv'
<1>1. ~projectOf[m].there /\ partsOf[m] = 0
  BY MakingParts DEF MakerStops, FewMakingIncidents, MakingSets
<1> QED
  BY <1>1, StageOnly DEF MakerStops

LEMMA KeepsProject ==
    ASSUME MakingInv, FewMakingIncidents, NEW m \in Maker, MakesProject(m) PROVE MakingInv'
<1>1. PICK t \in {second, second + 1} :
         /\ projectOf' = [projectOf EXCEPT ![m] = [there |-> TRUE, since |-> t, inOrg |-> ~maker[m].platform]]
         /\ second' = t /\ \A n \in Maker : projectOf[n].since # t
  BY DEF MakesProject, SameSecond, FewMakingIncidents
<1>2. Onwards(m, "made") /\ UNCHANGED <<partsOf, orgAt, mover>> /\ maker[m].at = "checked"
  BY GoesOn, MakingParts DEF Stage, MakesProject
<1>3. t \in Nat \ {0}
  BY MakingParts DEF MakingSets
<1>4. /\ projectOf' \in [Maker -> Project] /\ projectOf'[m].there /\ projectOf'[m].since = t /\ (projectOf'[m].inOrg <=> ~maker[m].platform)
      /\ \A n \in Maker : n # m => projectOf'[n] = projectOf[n]
  BY <1>1, <1>3, MakingParts, Made
<1> USE <1>2, <1>3, <1>4, MakingParts DEF Onwards
<1>5. MakingSets'
  BY <1>1 DEF MakingSets
<1>6. Unstarted'
  BY DEF Unstarted
<1>7. \A n \in Maker : projectOf[n].since \in Nat /\ projectOf[n].since < t
  <2>1. second \in Nat /\ t \in {second, second + 1}
    BY <1>1 DEF MakingSets
  <2>2. \A n \in Maker : projectOf[n].since \in Nat
    BY DEF MakingSets, Project
  <2>3. \A n \in Maker : projectOf[n].since <= second /\ projectOf[n].since # t
    BY <1>1 DEF WorkInv
  <2> QED
    BY <2>1, <2>2, <2>3
<1>8. WorkInv'
  BY <1>1, <1>7 DEF WorkInv, MakingSets, Request
<1>9. NothingOfIt'
  BY DEF NothingOfIt, MakingSets, Request
<1>10. FirstInv'
  <2> SUFFICES ASSUME NEW k \in Maker, NEW n \in Maker, Named(k)', n # k, projectOf'[n].there, maker'[n].kind = "import",
                      maker'[n].platform = maker'[k].platform
               PROVE  Earlier(k, n)'
    BY DEF FirstInv
  <2>1. k # m
    BY DEF Named
  <2>2. CASE n = m
    BY <1>7, <2>1, <2>2 DEF Earlier
  <2>3. CASE n # m
    BY <2>1, <2>3 DEF FirstInv, Named, Earlier
  <2> QED
    BY <2>2, <2>3
<1>11. LimitHolds'
  <2>1. InOrg' \subseteq InOrg
    BY DEF InOrg, Kept
  <2> QED
    BY <2>1, NoMoreKept
<1> QED
  BY <1>5, <1>6, <1>8, <1>9, <1>10, <1>11, MakingJoined

(* The second look counts every other project of the organization, so that *)
(* one that is kept is among as many as the limit allows.                  *)
LEMMA CountsAgain ==
    ASSUME MakingInv, FewMakingIncidents, NEW m \in Maker, SecondLook(m) PROVE MakingInv'
<1>1. MakerAt(m, IF ~Unlimited(m) /\ ~checkProjectLimit(Maker, m) THEN "withdraws"
                 ELSE IF maker[m].kind = "create" THEN "done" ELSE "counted")
  BY SeesAll DEF SecondLook
<1>2. maker[m].at = "made" /\ projectOf[m].there /\ UNCHANGED <<projectOf, partsOf, second, orgAt, mover>>
  BY MakingParts DEF SecondLook, WorkInv
<1>3. CASE ~Unlimited(m) /\ ~checkProjectLimit(Maker, m)
  BY <1>1, <1>2, <1>3, StageOnly
<1>4. CASE Unlimited(m) \/ checkProjectLimit(Maker, m)
  <2>1. PICK w \in {"done", "counted"} : MakerAt(m, w) /\ (w = "done" => maker[m].kind = "create")
    BY <1>1, <1>4
  <2>2. Onwards(m, w)
    BY <2>1, GoesOn, MakingParts DEF Stage
  <2> USE <1>2, <2>1, <2>2, MakingParts DEF Onwards
  <2>3. MakingSets' /\ Unstarted'
    BY DEF MakingSets, Unstarted
  <2>4. WorkInv' /\ NothingOfIt'
    BY DEF WorkInv, NothingOfIt, MakingSets, Request
  <2>5. FirstInv'
    <3> SUFFICES ASSUME NEW k \in Maker, NEW n \in Maker, Named(k)', n # k, projectOf'[n].there, maker'[n].kind = "import",
                        maker'[n].platform = maker'[k].platform
                 PROVE  Earlier(k, n)'
      BY DEF FirstInv
    <3>1. k # m
      BY DEF Named
    <3> QED
      BY <3>1 DEF FirstInv, Named, Earlier
  <2>6. LimitHolds'
    <3>1. CASE Unlimited(m)
      <4>1. InOrg' \subseteq InOrg
        BY <3>1 DEF InOrg, Kept, Unlimited, WorkInv
      <4> QED
        BY <4>1, NoMoreKept
    <3>2. CASE checkProjectLimit(Maker, m) /\ orgAt # "gone"
      <4> DEFINE Others == {n \in Maker \ {m} : projectOf[n].there /\ projectOf[n].inOrg}
      <4>1. IsFiniteSet(Others) /\ Cardinality(Others) \in Nat
        BY MakingAssumption, FS_Subset, FS_CardinalityType
      <4>2. Cardinality(Others) + 1 <= MaxProjects
        BY <3>2, <4>1, MakingAssumption DEF checkProjectLimit, projectsIn
      <4>3. IsFiniteSet(Others \cup {m}) /\ Cardinality(Others \cup {m}) = Cardinality(Others) + 1
        BY <4>1, FS_AddElement
      <4>4. InOrg' \subseteq Others \cup {m}
        BY DEF InOrg, Kept
      <4>5. Cardinality(InOrg') <= Cardinality(Others) + 1 /\ Cardinality(InOrg') \in Nat
        BY <4>3, <4>4, FS_Subset, FS_CardinalityType
      <4> QED
        BY <4>1, <4>2, <4>5, MakingAssumption DEF LimitHolds, InOrg
    <3>3. CASE orgAt = "gone"
      BY <3>3 DEF LimitHolds
    <3> QED
      BY <1>4, <3>1, <3>2, <3>3
  <2> QED
    BY <2>3, <2>4, <2>5, <2>6, MakingJoined
<1> QED
  BY <1>3, <1>4

LEMMA TakesName ==
    ASSUME MakingInv, FewMakingIncidents, NEW m \in Maker, projectNameRaced(m) PROVE MakingInv'
<1>1. MakerAt(m, IF \E n \in Namesakes(m, Maker) : Earlier(n, m) THEN "withdraws" ELSE "named")
  BY SeesAll DEF projectNameRaced
<1>2. maker[m].at = "counted" /\ projectOf[m].there /\ UNCHANGED <<projectOf, partsOf, second, orgAt, mover>>
  BY MakingParts DEF projectNameRaced, WorkInv
<1>3. CASE \E n \in Namesakes(m, Maker) : Earlier(n, m)
  BY <1>1, <1>2, <1>3, StageOnly
<1>4. CASE \A n \in Namesakes(m, Maker) : ~Earlier(n, m)
  <2>1. Onwards(m, "named")
    BY <1>1, <1>4, GoesOn, MakingParts DEF Stage
  <2> USE <1>2, <2>1, MakingParts DEF Onwards
  <2>2. MakingSets' /\ Unstarted'
    BY DEF MakingSets, Unstarted
  <2>3. WorkInv' /\ NothingOfIt'
    BY DEF WorkInv, NothingOfIt, MakingSets, Request
  <2>4. FirstInv'
    <3> SUFFICES ASSUME NEW k \in Maker, NEW n \in Maker, Named(k)', n # k, projectOf'[n].there, maker'[n].kind = "import",
                        maker'[n].platform = maker'[k].platform
                 PROVE  Earlier(k, n)'
      BY DEF FirstInv
    <3>1. CASE k = m
      <4>1. n \in Namesakes(m, Maker)
        BY <3>1 DEF Namesakes
      <4>2. ~Earlier(n, m) /\ n # m
        BY <1>4, <3>1, <4>1
      <4>3. projectOf[n].since \in Nat /\ projectOf[m].since \in Nat /\ n \in Nat /\ m \in Nat
        BY MakingAssumption DEF MakingSets, Project
      <4>4. Earlier(m, n)
        BY <4>2, <4>3 DEF Earlier
      <4> QED
        BY <3>1, <4>4 DEF Earlier
    <3>2. CASE k # m
      BY <3>2 DEF FirstInv, Named, Earlier
    <3> QED
      BY <3>1, <3>2
  <2>5. LimitHolds'
    <3>1. InOrg' \subseteq InOrg
      BY DEF InOrg, Kept
    <3> QED
      BY <3>1, NoMoreKept
  <2> QED
    BY <2>2, <2>3, <2>4, <2>5, MakingJoined
<1> QED
  BY <1>3, <1>4

LEMMA BringsParts ==
    ASSUME MakingInv, NEW m \in Maker, ImportsPart(m) PROVE MakingInv'
<1>1. maker[m].at = "named" /\ projectOf[m].there /\ UNCHANGED <<projectOf, second, orgAt, mover>>
  BY MakingParts DEF ImportsPart, WorkInv
<1>2. CASE MoreParts(m) /\ partsOf' = [partsOf EXCEPT ![m] = @ + 1] /\ UNCHANGED maker
  <2> USE <1>1, <1>2, MakingParts
  <2>1. partsOf[m] + 1 \in 0 .. Parts
    BY MakingAssumption DEF MoreParts, MakingSets
  <2>2. partsOf' \in [Maker -> 0 .. Parts] /\ \A n \in Maker : n # m => partsOf'[n] = partsOf[n]
    BY <2>1 DEF MakingSets
  <2>3. MakingSets' /\ Unstarted'
    BY <2>2 DEF MakingSets, Unstarted
  <2>4. WorkInv' /\ FirstInv' /\ LimitHolds'
    BY DEF WorkInv, FirstInv, LimitHolds, Named, Earlier, Kept
  <2>5. NothingOfIt'
    BY <2>2 DEF NothingOfIt
  <2> QED
    BY <2>3, <2>4, <2>5, MakingJoined
<1>3. CASE MakerAt(m, "withdraws") /\ UNCHANGED partsOf
  BY <1>1, <1>3, StageOnly
<1>4. CASE MakerAt(m, "done") /\ UNCHANGED partsOf
  <2>1. Onwards(m, "done")
    BY <1>4, GoesOn, MakingParts DEF Stage
  <2> USE <1>1, <1>4, <2>1, MakingParts DEF Onwards
  <2>2. MakingSets' /\ Unstarted'
    BY DEF MakingSets, Unstarted
  <2>3. WorkInv' /\ NothingOfIt'
    BY DEF WorkInv, NothingOfIt, MakingSets, Request
  <2>4. FirstInv'
    BY DEF FirstInv, Named, Earlier
  <2>5. LimitHolds'
    <3>1. InOrg' \subseteq InOrg
      BY DEF InOrg, Kept
    <3> QED
      BY <3>1, NoMoreKept
  <2> QED
    BY <2>2, <2>3, <2>4, <2>5, MakingJoined
<1> QED
  BY <1>2, <1>3, <1>4 DEF ImportsPart

(* A project that goes, with its request at the end of its work.           *)
LEMMA ProjectGoes ==
    ASSUME MakingInv, NEW m \in Maker, maker'[m].at \in {"idle", "done", "failed"}, maker'[m].at = "idle" => maker[m].at = "idle",
           maker' \in [Maker -> Request], \A n \in Maker : n # m => maker'[n] = maker[n],
           \A n \in Maker : maker'[n].kind = maker[n].kind /\ maker'[n].platform = maker[n].platform,
           projectOf[m].there, projectOf' = [projectOf EXCEPT ![m].there = FALSE],
           partsOf' \in [Maker -> 0 .. Parts], partsOf'[m] = 0, \A n \in Maker : n # m => partsOf'[n] = partsOf[n],
           UNCHANGED <<second, orgAt, mover>>
    PROVE  MakingInv'
<1> USE MakingParts
<1>1. /\ projectOf' \in [Maker -> Project] /\ ~projectOf'[m].there /\ projectOf'[m].since = projectOf[m].since
      /\ (projectOf'[m].inOrg <=> projectOf[m].inOrg) /\ \A n \in Maker : n # m => projectOf'[n] = projectOf[n]
  BY Unmade
<1>2. maker'[m].at \in {"done", "failed"}
  BY DEF NoProject, Unstarted
<1>3. MakingSets' /\ Unstarted'
  BY <1>1, <1>2 DEF MakingSets, Unstarted
<1>4. WorkInv' /\ NothingOfIt'
  BY <1>1, <1>2 DEF WorkInv, NothingOfIt
<1>5. FirstInv'
  <2> SUFFICES ASSUME NEW k \in Maker, NEW n \in Maker, Named(k)', n # k, projectOf'[n].there, maker'[n].kind = "import",
                      maker'[n].platform = maker'[k].platform
               PROVE  Earlier(k, n)'
    BY DEF FirstInv
  <2>1. k # m /\ n # m
    BY <1>1 DEF Named
  <2> QED
    BY <1>1, <2>1 DEF FirstInv, Named, Earlier
<1>6. LimitHolds'
  <2>1. InOrg' \subseteq InOrg
    BY <1>1 DEF InOrg, Kept
  <2> QED
    BY <2>1, NoMoreKept
<1> QED
  BY <1>3, <1>4, <1>5, <1>6, MakingJoined

LEMMA GivesBack ==
    ASSUME MakingInv, FewMakingIncidents, NEW m \in Maker, Withdraws(m) PROVE MakingInv'
<1>1. maker[m].at = "withdraws" /\ projectOf[m].there /\ UNCHANGED <<second, orgAt, mover>>
  BY MakingParts DEF Withdraws, WorkInv
<1>2. CASE partsOf[m] > 0 /\ partsOf' = [partsOf EXCEPT ![m] = @ - 1] /\ UNCHANGED <<maker, projectOf>>
  <2> USE <1>1, <1>2, MakingParts
  <2>1. partsOf[m] - 1 \in 0 .. Parts
    BY MakingAssumption DEF MakingSets
  <2>2. partsOf' \in [Maker -> 0 .. Parts] /\ \A n \in Maker : n # m => partsOf'[n] = partsOf[n]
    BY <2>1 DEF MakingSets
  <2>3. MakingSets' /\ Unstarted'
    BY <2>2 DEF MakingSets, Unstarted
  <2>4. WorkInv' /\ FirstInv' /\ LimitHolds'
    BY DEF WorkInv, FirstInv, LimitHolds, Named, Earlier, Kept
  <2>5. NothingOfIt'
    BY <2>2 DEF NothingOfIt
  <2> QED
    BY <2>3, <2>4, <2>5, MakingJoined
<1>3. CASE PartsOver(m) /\ projectOf' = [projectOf EXCEPT ![m].there = FALSE] /\ MakerAt(m, "failed") /\ UNCHANGED partsOf
  <2>1. Onwards(m, "failed")
    BY <1>3, GoesOn, MakingParts DEF Stage
  <2> QED
    BY <1>1, <1>3, <2>1, ProjectGoes, MakingParts DEF Onwards, PartsOver, MakingSets
<1> QED
  BY <1>2, <1>3 DEF Withdraws, FewMakingIncidents

LEMMA ProjectDeleted ==
    ASSUME MakingInv, FewMakingIncidents, NEW m \in Maker, deleteOwnedProjectResources(m) PROVE MakingInv'
<1>1. maker[m].at \in {"idle", "done", "failed"}
  BY DEF deleteOwnedProjectResources, FewMakingIncidents, AtWork
<1>2. partsOf' \in [Maker -> 0 .. Parts] /\ partsOf'[m] = 0 /\ \A n \in Maker : n # m => partsOf'[n] = partsOf[n]
  BY MakingParts, MakingAssumption DEF deleteOwnedProjectResources, MakingSets
<1> QED
  BY <1>1, <1>2, ProjectGoes, MakingParts DEF deleteOwnedProjectResources, MakingSets

LEMMA OrganizationActs ==
    ASSUME MakingInv, handleOrgDelete \/ handleProjectAssign \/ UNCHANGED makingVars PROVE MakingInv'
<1>1. UNCHANGED <<maker, projectOf, partsOf, second>> /\ orgAt' \in {"there", "emptying", "gone"} /\ mover' \in {"out", "checked", "in"}
      /\ (orgAt = "gone" => orgAt' = "gone")
  BY MakingParts DEF handleOrgDelete, handleProjectAssign, makingVars, MakingSets
<1>2. MakingSets' /\ WorkInv' /\ FirstInv' /\ NothingOfIt'
      /\ Unstarted'
  BY <1>1, MakingParts DEF MakingSets, WorkInv, FirstInv, NothingOfIt, Named, Earlier, Unstarted
<1>3. LimitHolds'
  BY <1>1, MakingParts DEF LimitHolds, Kept
<1> QED
  BY <1>2, <1>3, MakingJoined

(* However many projects are created and imported at once, with projects   *)
(* given to the organization and the organization deleted in between, no   *)
(* more are kept than its limit, no caller has two of one name, and what   *)
(* was refused or failed has left nothing (createProjectIn, importProject).*)
THEOREM ProjectsWithinLimits ==
    ASSUME FewMakingIncidents PROVE MakingSpec => []MakingSafe
<1>1. MakingInv /\ [MakingNext]_makingVars => MakingInv'
  BY LooksFirst, StopsEarly, KeepsProject, CountsAgain, TakesName, BringsParts, GivesBack, ProjectDeleted, OrganizationActs
     DEF MakingNext
<1>2. MakingInv => MakingSafe
  <2> SUFFICES ASSUME MakingInv PROVE OneName
    BY DEF MakingInv, MakingSafe
  <2>1. ASSUME NEW m \in Maker, NEW n \in Maker, Named(m), Named(n), maker[m].platform = maker[n].platform, m # n PROVE FALSE
    <3>1. Earlier(m, n) /\ Earlier(n, m)
      BY <2>1 DEF MakingInv, FirstInv, Named
    <3> QED
      BY <2>1, <3>1, MakingParts, MakingAssumption DEF Earlier, MakingSets, Project
  <2> QED
    BY <2>1 DEF OneName
<1> QED
  BY MakingStart, <1>1, <1>2, PTL DEF MakingSpec

-----------------------------------------------------------------------------
(* Environments of pull requests.                                          *)

NoPrIncident == PrHappens = {}

(* The project has one repository, so that a number is one pull request.   *)
OneRepository == \A r, s \in Repo : r = s

PrStage == {"idle", "read", "list", "note", "clone", "unlist", "sweep", "forget"}
Job == [kind : {"none", "ensure", "close", "remove"}, pr : PullRequest \cup {Nothing}, at : PrStage,
        env : EnvName \cup {Nothing}, piece : 0 .. Pieces + 1]

PrSets ==
    /\ envs \subseteq EnvName /\ dying \subseteq Copy /\ skipped \subseteq Copy
    /\ entries \in [PullRequest -> EnvName \cup {Nothing}] /\ clones \in [Copy -> EnvName \cup {Nothing}]
    /\ outcome \in [PullRequest -> {"none", "ensured", "closed"}]
    /\ handler \in [Handler -> Job]

(* The copies for a pull request.                                          *)
Of(c, p) == c[1] = p[2]

(* A copy that was made or kept, unless it was dying when it was come to.  *)
Fine(c, p) == c \in skipped \/ (clones[c] = PlainName(p) /\ c \notin dying)

(* The copies for a pull request that is not in the status are gone or on  *)
(* their way out, those of one that is are in its environment.  What the   *)
(* last request about it says stays true until the next one comes.         *)
Clean(p) == entries[p] = Nothing /\ PlainName(p) \notin envs
Whole(p) == entries[p] # Nothing /\ \A c \in Copy : Of(c, p) => Fine(c, p)
PrLocal(p) ==
    /\ entries[p] \in {Nothing, PlainName(p)}
    /\ \A c \in Copy : Of(c, p) => clones[c] = Nothing \/ (clones[c] = PlainName(p) /\ (entries[p] = Nothing => c \in dying))
    /\ outcome[p] = "closed" => Clean(p)
    /\ outcome[p] = "ensured" => Whole(p)
    /\ (\E h \in Handler : handler[h].pr = p) => outcome[p] = "none"

(* What a request at work has done so far.                                 *)
JobInv(h) ==
    /\ handler[h].pr = Nothing => handler[h] = NoWork
    /\ handler[h].pr # Nothing =>
         /\ \/ handler[h].kind = "ensure" /\ handler[h].at \in {"read", "list", "note", "clone"}
            \/ handler[h].kind \in {"close", "remove"} /\ handler[h].at \in {"read", "unlist", "sweep", "forget"}
         /\ handler[h].at # "read" => handler[h].env = PlainName(handler[h].pr)
         /\ handler[h].at = "clone" => /\ entries[handler[h].pr] = handler[h].env
                                       /\ \A c \in Copy : Of(c, handler[h].pr) /\ c[2] < handler[h].piece => Fine(c, handler[h].pr)
         /\ handler[h].at \in {"sweep", "forget"} => PlainName(handler[h].pr) \notin envs
         /\ handler[h].at = "forget" => \A c \in Copy : Of(c, handler[h].pr) => clones[c] = Nothing \/ c \in dying

(* No two requests are about one pull request; no copy is for none; what   *)
(* is dying is there; no environment has the long name.                    *)
OneEach == \A g, h \in Handler : handler[g].pr = handler[h].pr /\ handler[g].pr # Nothing => g = h
Owned == /\ \A c \in Copy : clones[c] # Nothing => \E p \in PullRequest : Of(c, p)
         /\ \A c \in dying : clones[c] # Nothing
         /\ envs \subseteq {PlainName(p) : p \in PullRequest}

PrInv ==
    /\ PrSets /\ OneEach /\ Owned
    /\ \A p \in PullRequest : PrLocal(p)
    /\ \A h \in Handler : JobInv(h)

LEMMA PlainNames ==
    ASSUME NEW p \in PullRequest, NEW q \in PullRequest
    PROVE  /\ PlainName(p) # Nothing /\ LongName(p) # Nothing /\ LongName(p) # PlainName(q) /\ p # Nothing
           /\ PlainName(p) \in EnvName
           /\ PlainName(p) = PlainName(q) => p[2] = q[2]
  BY DEF PlainName, LongName, Nothing, PullRequest, EnvName

LEMMA OneNumber ==
    ASSUME OneRepository, NEW p \in PullRequest, NEW q \in PullRequest, p[2] = q[2] PROVE p = q
  BY DEF OneRepository, PullRequest

LEMMA CopyIs == ASSUME NEW c \in Copy PROVE c = <<c[1], c[2]>> /\ c[2] \in 1 .. Pieces
  BY DEF Copy

LEMMA PlainAlways ==
    ASSUME OneRepository, NEW p \in PullRequest PROVE EnvironmentNameOf(p) = PlainName(p)
  BY DEF OneRepository, EnvironmentNameOf, PullRequest

LEMMA PrStart == ASSUME OneRepository PROVE PrInit => PrInv
<1> SUFFICES ASSUME PrInit PROVE PrInv
  OBVIOUS
<1>1. NoWork \in Job
  BY PrAssumption DEF NoWork, Job, PrStage
<1>2. PrSets
  BY <1>1 DEF PrInit, PrSets
<1>3. OneEach /\ Owned /\ \A h \in Handler : JobInv(h)
  BY DEF PrInit, OneEach, Owned, JobInv, NoWork
<1>4. \A p \in PullRequest : PrLocal(p)
  BY PlainNames DEF PrInit, PrLocal, NoWork
<1> QED
  BY <1>2, <1>3, <1>4 DEF PrInv

(* A request about p that takes a step, or ends: what is about other pull  *)
(* requests is as it was.                                                  *)
SameCopy(c) == clones'[c] = clones[c] /\ (c \in dying' <=> c \in dying) /\ (c \in skipped' <=> c \in skipped)
Elsewhere(p) ==
    \A q \in PullRequest : q # p =>
        /\ entries'[q] = entries[q] /\ outcome'[q] = outcome[q] /\ (PlainName(q) \in envs' <=> PlainName(q) \in envs)
        /\ \A c \in Copy : Of(c, q) => SameCopy(c)

LEMMA PrElsewhere ==
    ASSUME OneRepository, PrInv, NEW h \in Handler, NEW p \in PullRequest, handler[h].pr = p, PrSets', Owned',
           \A g \in Handler : g # h => handler'[g] = handler[g], handler'[h].pr \in {p, Nothing}, Elsewhere(p),
           PrLocal(p)', JobInv(h)'
    PROVE  PrInv'
<1>1. OneEach'
  BY PlainNames DEF PrInv, OneEach
<1>2. ASSUME NEW q \in PullRequest, q # p PROVE PrLocal(q)'
  <2>1. entries'[q] = entries[q] /\ outcome'[q] = outcome[q] /\ (PlainName(q) \in envs' <=> PlainName(q) \in envs)
        /\ \A c \in Copy : Of(c, q) => SameCopy(c)
    BY <1>2 DEF Elsewhere
  <2>2. \A g \in Handler : handler[g].pr = q => handler'[g] = handler[g]
    BY <1>2
  <2>3. PrLocal(q)
    BY DEF PrInv
  <2>4. (Clean(q) => Clean(q)') /\ (Whole(q) => Whole(q)')
    BY <2>1 DEF Clean, Whole, Of, Fine, SameCopy
  <2>5. (\E g \in Handler : handler'[g].pr = q) => \E g \in Handler : handler[g].pr = q
    BY <1>2, PlainNames
  <2> QED
    BY <2>1, <2>3, <2>4, <2>5 DEF PrLocal, Of, SameCopy
<1>3. ASSUME NEW g \in Handler, g # h PROVE JobInv(g)'
  <2>1. JobInv(g) /\ handler'[g] = handler[g]
    BY <1>3 DEF PrInv
  <2>2. CASE handler[g].pr = Nothing
    BY <2>1, <2>2 DEF JobInv
  <2>3. CASE handler[g].pr # Nothing
    <3>1. PICK q \in PullRequest : q = handler[g].pr
      BY <2>3 DEF PrInv, PrSets, Job
    <3>2. q # p
      BY <1>3, <3>1, PlainNames DEF PrInv, OneEach
    <3>3. entries'[q] = entries[q] /\ (PlainName(q) \in envs' <=> PlainName(q) \in envs)
          /\ \A c \in Copy : Of(c, q) => SameCopy(c)
      BY <3>2 DEF Elsewhere
    <3> QED
      BY <2>1, <2>3, <3>1, <3>3 DEF JobInv, Of, Fine, SameCopy
  <2> QED
    BY <2>2, <2>3
<1> QED
  BY <1>1, <1>2, <1>3 DEF PrInv

(* The steps of a request: on to another stage, or over.                   *)
Works(h, at, env, piece) ==
    /\ handler' \in [Handler -> Job] /\ \A g \in Handler : g # h => handler'[g] = handler[g]
    /\ handler'[h].pr = handler[h].pr /\ handler'[h].kind = handler[h].kind
    /\ handler'[h].at = at /\ handler'[h].env = env /\ handler'[h].piece = piece

LEMMA WorksOn ==
    ASSUME PrSets, NEW h \in Handler, NEW at \in PrStage, NEW env \in EnvName \cup {Nothing}, NEW piece \in 0 .. Pieces + 1
    PROVE  /\ handler' = [handler EXCEPT ![h].at = at, ![h].env = env, ![h].piece = piece] => Works(h, at, env, piece)
           /\ handler' = [handler EXCEPT ![h].at = at, ![h].env = env] => Works(h, at, env, handler[h].piece)
           /\ handler' = [handler EXCEPT ![h].at = at, ![h].piece = piece] => Works(h, at, handler[h].env, piece)
           /\ handler' = [handler EXCEPT ![h].at = at] => Works(h, at, handler[h].env, handler[h].piece)
           /\ handler' = [handler EXCEPT ![h].piece = piece] => Works(h, handler[h].at, handler[h].env, piece)
  BY DEF PrSets, Job, Works

Over(h, p, how) ==
    /\ handler' \in [Handler -> Job] /\ \A g \in Handler : g # h => handler'[g] = handler[g]
    /\ handler'[h] = NoWork
    /\ outcome' \in [PullRequest -> {"none", "ensured", "closed"}]
    /\ outcome'[p] = how /\ \A q \in PullRequest : q # p => outcome'[q] = outcome[q]

LEMMA IsOver ==
    ASSUME PrSets, NEW h \in Handler, NEW p \in PullRequest, handler[h].pr = p,
           NEW how \in {"none", "ensured", "closed"}, Ends(h, how)
    PROVE  Over(h, p, how)
<1>1. NoWork \in Job
  BY PrAssumption DEF NoWork, Job, PrStage
<1> QED
  BY <1>1 DEF PrSets, Over, Ends

LEMMA NoWorkIs == NoWork.pr = Nothing /\ NoWork.at = "idle"
  BY DEF NoWork

(* A request at work is about a pull request, and about no other's.        *)
LEMMA AtWorkOn ==
    ASSUME PrInv, NEW h \in Handler, handler[h] # NoWork
    PROVE  /\ handler[h].pr \in PullRequest /\ JobInv(h) /\ PrLocal(handler[h].pr) /\ handler[h].pr # Nothing
           /\ \A g \in Handler : handler[g].pr = handler[h].pr => g = h
<1>1. handler[h].pr # Nothing /\ JobInv(h)
  BY DEF PrInv, JobInv
<1>2. handler[h].pr \in PullRequest
  BY <1>1 DEF PrInv, PrSets, Job
<1> QED
  BY <1>1, <1>2 DEF PrInv, OneEach

(* A request that ends without having written anything, or having failed,  *)
(* says nothing of the environment.                                        *)
LEMMA EndsQuietly ==
    ASSUME OneRepository, PrInv, NEW h \in Handler, NEW p \in PullRequest, handler[h].pr = p, Ends(h, "none"),
           UNCHANGED <<envs, entries, clones, dying, skipped>>
    PROVE  PrInv'
<1>1. Over(h, p, "none")
  BY IsOver DEF PrInv
<1>2. PrSets' /\ Owned'
  BY <1>1 DEF PrInv, PrSets, Owned, Over
<1>3. Elsewhere(p)
  BY <1>1 DEF Over, Elsewhere, SameCopy
<1>4. JobInv(h)'
  BY <1>1, NoWorkIs DEF JobInv, Over
<1>5. PrLocal(p)'
  BY <1>1 DEF PrInv, PrLocal, Over, Of
<1> QED
  BY <1>1, <1>2, <1>3, <1>4, <1>5, PrElsewhere, NoWorkIs DEF Over

(* A request that goes on without having written anything.                 *)
LEMMA GoesOnQuietly ==
    ASSUME OneRepository, PrInv, NEW h \in Handler, NEW p \in PullRequest, handler[h].pr = p,
           NEW at, NEW env, NEW piece, Works(h, at, env, piece),
           UNCHANGED <<envs, entries, clones, dying, skipped, outcome>>, JobInv(h)'
    PROVE  PrInv'
<1>1. PrSets' /\ Owned'
  BY DEF PrInv, PrSets, Owned, Works
<1>2. Elsewhere(p)
  BY DEF Elsewhere, SameCopy
<1>3. PrLocal(p)'
  BY DEF PrInv, PrLocal, Works, Of, Whole, Clean, Fine
<1> QED
  BY <1>1, <1>2, <1>3, PrElsewhere DEF Works

LEMMA Ensures ==
    ASSUME OneRepository, PrInv, NEW h \in Handler, ensurePullRequestEnvironment(h) PROVE PrInv'
<1>1. handler[h].kind = "ensure" /\ handler[h].at = "read" /\ UNCHANGED <<envs, entries, clones, dying, skipped>>
  BY DEF ensurePullRequestEnvironment
<1>2. PICK p \in PullRequest : handler[h].pr = p /\ JobInv(h) /\ PrLocal(p) /\ p # Nothing
  BY <1>1, AtWorkOn, NoWorkIs
<1>4. CASE Ends(h, "none")
  BY <1>1, <1>2, <1>4, EndsQuietly
<1>5. CASE entries[p] # Nothing /\ handler' = [handler EXCEPT ![h].at = "clone", ![h].env = entries[p], ![h].piece = 1] /\ UNCHANGED outcome
  <2>1. entries[p] = PlainName(p) /\ 1 \in 0 .. Pieces + 1
    BY <1>2, <1>5, PrAssumption DEF PrLocal
  <2>2. Works(h, "clone", PlainName(p), 1)
    BY <1>2, <1>5, <2>1, PlainNames, WorksOn DEF PrInv, PrStage
  <2>3. JobInv(h)'
    BY <1>1, <1>2, <2>1, <2>2, CopyIs DEF JobInv, Works, Of
  <2> QED
    BY <1>1, <1>2, <1>5, <2>2, <2>3, GoesOnQuietly
<1>6. CASE handler' = [handler EXCEPT ![h].at = "list", ![h].env = EnvironmentNameOf(p)] /\ UNCHANGED outcome
  <2>0. 0 \in 0 .. Pieces + 1 /\ PlainName(p) \in EnvName /\ EnvironmentNameOf(p) = PlainName(p)
    BY PrAssumption, PlainNames, PlainAlways
  <2>1. Works(h, "list", PlainName(p), handler[h].piece)
    BY <1>2, <1>6, <2>0, WorksOn DEF PrInv, PrStage
  <2>2. JobInv(h)'
    BY <1>1, <1>2, <2>1 DEF JobInv, Works
  <2> QED
    BY <1>1, <1>2, <1>6, <2>1, <2>2, GoesOnQuietly
<1> QED
  BY <1>2, <1>4, <1>5, <1>6 DEF ensurePullRequestEnvironment

LEMMA Creates ==
    ASSUME OneRepository, PrInv, NEW h \in Handler, createPullRequestEnvironment(h) PROVE PrInv'
<1>1. handler[h].kind = "ensure" /\ UNCHANGED <<clones, dying, skipped, outcome>> /\ handler[h].at \in {"list", "note"}
  BY DEF createPullRequestEnvironment
<1>2. PICK p \in PullRequest : handler[h].pr = p /\ JobInv(h) /\ PrLocal(p) /\ p # Nothing /\ handler[h].env = PlainName(p)
  <2>1. handler[h].at # "idle" /\ handler[h].at # "read"
    BY <1>1
  <2> QED
    BY <2>1, AtWorkOn, NoWorkIs DEF JobInv
<1>3. PlainName(p) \in EnvName /\ PlainName(p) # Nothing /\ 0 \in 0 .. Pieces + 1 /\ 1 \in 0 .. Pieces + 1
  BY PrAssumption, PlainNames
<1>4. CASE handler[h].at = "list" /\ envs' = envs \cup {handler[h].env} /\ MovesOn(h, "note") /\ UNCHANGED entries
  <2>1. Works(h, "note", PlainName(p), handler[h].piece)
    BY <1>2, <1>3, <1>4, WorksOn DEF PrInv, PrStage, MovesOn
  <2>2. PrSets' /\ Owned'
    BY <1>1, <1>2, <1>3, <1>4, <2>1 DEF PrInv, PrSets, Owned, Works
  <2>3. Elsewhere(p)
    BY <1>1, <1>2, <1>4, PlainNames, OneNumber DEF Elsewhere, SameCopy
  <2>4. PrLocal(p)'
    BY <1>1, <1>2, <1>4, <2>1 DEF PrLocal, Works, Of
  <2>5. JobInv(h)'
    BY <1>1, <1>2, <2>1 DEF JobInv, Works
  <2> QED
    BY <1>2, <2>1, <2>2, <2>3, <2>4, <2>5, PrElsewhere DEF Works
<1>5. CASE /\ handler[h].at = "note" /\ UNCHANGED envs
           /\ handler' = [handler EXCEPT ![h].at = "clone", ![h].piece = 1]
           /\ entries' = [entries EXCEPT ![handler[h].pr] = IF @ = Nothing THEN handler[h].env ELSE @]
  <2>1. Works(h, "clone", PlainName(p), 1)
    BY <1>2, <1>3, <1>5, WorksOn DEF PrInv, PrStage
  <2>2. entries'[p] = PlainName(p) /\ \A q \in PullRequest : q # p => entries'[q] = entries[q]
    BY <1>2, <1>5 DEF PrInv, PrSets, PrLocal
  <2>3. PrSets' /\ Owned'
    BY <1>1, <1>2, <1>3, <1>5, <2>1 DEF PrInv, PrSets, Owned, Works
  <2>4. Elsewhere(p)
    BY <1>1, <1>5, <2>2 DEF Elsewhere, SameCopy
  <2>5. \A c \in Copy : Of(c, p) => clones[c] \in {Nothing, PlainName(p)}
    BY <1>2 DEF PrLocal
  <2>6. PrLocal(p)'
    BY <1>1, <1>2, <1>3, <2>1, <2>2, <2>5 DEF PrLocal, Works, Of
  <2>7. JobInv(h)'
    BY <1>1, <1>2, <2>1, <2>2, CopyIs DEF JobInv, Works, Of
  <2> QED
    BY <1>2, <2>1, <2>3, <2>4, <2>6, <2>7, PrElsewhere DEF Works
<1> QED
  BY <1>1, <1>4, <1>5 DEF createPullRequestEnvironment

LEMMA Clones ==
    ASSUME OneRepository, NoPrIncident, PrInv, NEW h \in Handler, cloneEnvironmentResources(h) PROVE PrInv'
<1>1. handler[h].kind = "ensure" /\ handler[h].at = "clone" /\ UNCHANGED <<envs, entries, dying>>
  BY DEF cloneEnvironmentResources
<1>2. PICK p \in PullRequest : handler[h].pr = p /\ JobInv(h) /\ PrLocal(p) /\ p # Nothing
                               /\ handler[h].env = PlainName(p) /\ entries[p] = PlainName(p)
                               /\ \A g \in Handler : handler[g].pr = p => g = h
  <2>1. handler[h].at # "idle" /\ handler[h].at # "read"
    BY <1>1
  <2> QED
    BY <1>1, <2>1, AtWorkOn, NoWorkIs DEF JobInv
<1>3. PlainName(p) \in EnvName /\ PlainName(p) # Nothing /\ handler[h].piece \in 0 .. Pieces + 1
      /\ \A c \in Copy : Of(c, p) /\ c[2] < handler[h].piece => Fine(c, p)
  BY <1>1, <1>2, PlainNames DEF PrInv, PrSets, Job, JobInv
<1>4. CASE AllCloned(h) /\ Ends(h, "ensured") /\ UNCHANGED <<clones, skipped>>
  <2>1. Over(h, p, "ensured")
    BY <1>2, <1>4, IsOver DEF PrInv
  <2>2. PrSets' /\ Owned' /\ Elsewhere(p)
    BY <1>1, <1>4, <2>1 DEF PrInv, PrSets, Owned, Over, Elsewhere, SameCopy
  <2>3. JobInv(h)'
    BY <2>1, NoWorkIs DEF JobInv, Over
  <2>4. \A c \in Copy : Of(c, p) => Fine(c, p)
    BY <1>3, <1>4, CopyIs, PrAssumption DEF AllCloned
  <2>5. Whole(p)'
    BY <1>1, <1>2, <1>3, <1>4, <2>4 DEF Whole, Of, Fine
  <2>6. PrLocal(p)'
    <3>1. \A g \in Handler : handler'[g].pr # p
      BY <1>2, <2>1, NoWorkIs DEF Over
    <3>2. outcome'[p] = "ensured"
      BY <2>1 DEF Over
    <3> QED
      BY <1>1, <1>2, <1>4, <2>5, <3>1, <3>2 DEF PrLocal, Of
  <2> QED
    BY <1>2, <2>1, <2>2, <2>3, <2>6, PrElsewhere, NoWorkIs DEF Over
<1>5. CASE /\ ~AllCloned(h) /\ handler' = [handler EXCEPT ![h].piece = @ + 1] /\ UNCHANGED outcome
           /\ clones' = [c \in Copy |-> IF c = cloneName(h) /\ clones[c] = Nothing THEN handler[h].env ELSE clones[c]]
           /\ skipped' = (skipped \ {cloneName(h)}) \cup (dying \cap {cloneName(h)})
  <2> DEFINE n == handler[h].piece
  <2>1. n + 1 \in 0 .. Pieces + 1 /\ n \in Nat
    BY <1>3, <1>5, PrAssumption DEF AllCloned
  <2>2. Works(h, "clone", PlainName(p), n + 1)
    <3>1. handler' = [handler EXCEPT ![h].piece = n + 1]
      BY <1>5
    <3>2. PrSets /\ "clone" \in PrStage
      BY DEF PrInv, PrStage
    <3> QED
      BY <1>1, <1>2, <1>3, <2>1, <3>1, <3>2, WorksOn
  <2>3. ASSUME NEW c \in Copy, Of(c, p) PROVE clones'[c] \in {Nothing, PlainName(p)} /\ (c[2] < n + 1 => Fine(c, p)')
    <3>1. clones[c] \in {Nothing, PlainName(p)} /\ (c[2] < n => Fine(c, p)) /\ (c \in dying => clones[c] # Nothing)
      BY <1>2, <1>3, <2>3 DEF PrLocal, PrInv, Owned
    <3>2. c[2] \in Nat /\ (c[2] = n <=> c = cloneName(h))
      BY <1>2, <2>3, CopyIs DEF cloneName, Of
    <3>3. clones'[c] = IF c = cloneName(h) /\ clones[c] = Nothing THEN PlainName(p) ELSE clones[c]
      BY <1>2, <1>5
    <3>4. CASE c = cloneName(h)
      <4>1. CASE c \in dying
        BY <1>5, <3>1, <3>3, <3>4, <4>1 DEF Fine
      <4>2. CASE c \notin dying
        BY <1>1, <3>1, <3>3, <3>4, <4>2 DEF Fine
      <4> QED
        BY <4>1, <4>2
    <3>5. CASE c # cloneName(h)
      <4>1. c[2] < n + 1 => c[2] < n
        BY <2>1, <3>2, <3>5
      <4>2. (c \in skipped' <=> c \in skipped) /\ clones'[c] = clones[c] /\ (c \in dying' <=> c \in dying)
        BY <1>1, <1>5, <3>3, <3>5
      <4> QED
        BY <3>1, <4>1, <4>2 DEF Fine
    <3> QED
      BY <3>4, <3>5
  <2>4. \A c \in Copy : ~Of(c, p) => SameCopy(c)
    BY <1>1, <1>2, <1>5 DEF cloneName, Of, SameCopy
  <2>5. PrSets' /\ Owned'
    <3>1. clones' \in [Copy -> EnvName \cup {Nothing}] /\ skipped' \subseteq Copy
      BY <1>2, <1>3, <1>5 DEF PrInv, PrSets
    <3>2. \A c \in dying' : clones'[c] # Nothing
      BY <1>1, <1>3, <1>5 DEF PrInv, PrSets, Owned
    <3>3. \A c \in Copy : clones'[c] # Nothing => \E q \in PullRequest : Of(c, q)
      BY <2>4 DEF PrInv, Owned, SameCopy
    <3> QED
      BY <1>1, <1>5, <2>2, <3>1, <3>2, <3>3 DEF PrInv, PrSets, Owned, Works
  <2>6. Elsewhere(p)
    BY <1>1, <1>5, <2>4, OneNumber DEF Elsewhere, Of
  <2>7. PrLocal(p)'
    BY <1>1, <1>2, <1>3, <1>5, <2>2, <2>3 DEF PrLocal, Works, Of
  <2>8. JobInv(h)'
    BY <1>1, <1>2, <2>2, <2>3 DEF JobInv, Works, Of
  <2> QED
    BY <1>2, <2>2, <2>5, <2>6, <2>7, <2>8, PrElsewhere DEF Works
<1> QED
  BY <1>4, <1>5 DEF cloneEnvironmentResources, NoPrIncident

LEMMA Closes ==
    ASSUME OneRepository, PrInv, NEW h \in Handler, closePullRequestEnvironment(h) PROVE PrInv'
<1>1. handler[h].kind \in {"close", "remove"} /\ handler[h].at = "read" /\ UNCHANGED <<envs, entries, clones, dying, skipped>>
  BY DEF closePullRequestEnvironment
<1>2. PICK p \in PullRequest : handler[h].pr = p /\ JobInv(h) /\ PrLocal(p) /\ p # Nothing
  BY <1>1, AtWorkOn, NoWorkIs
<1>4. CASE Ends(h, "none")
  BY <1>1, <1>2, <1>4, EndsQuietly
<1>5. CASE \E e \in {entries[p], PlainName(p)} : e # Nothing /\ handler' = [handler EXCEPT ![h].at = "unlist", ![h].env = e] /\ UNCHANGED outcome
  <2>1. 0 \in 0 .. Pieces + 1 /\ PlainName(p) \in EnvName /\ "unlist" \in PrStage
    BY PrAssumption, PlainNames DEF PrStage
  <2>2. handler' = [handler EXCEPT ![h].at = "unlist", ![h].env = PlainName(p)] /\ UNCHANGED outcome
    BY <1>2, <1>5 DEF PrLocal
  <2>3. Works(h, "unlist", PlainName(p), handler[h].piece)
    BY <2>1, <2>2, WorksOn DEF PrInv
  <2>4. JobInv(h)'
    BY <1>1, <1>2, <2>3 DEF JobInv, Works
  <2> QED
    BY <1>1, <1>2, <2>2, <2>3, <2>4, GoesOnQuietly
<1> QED
  BY <1>2, <1>4, <1>5, PlainNames DEF closePullRequestEnvironment

LEMMA Unlists ==
    ASSUME OneRepository, PrInv, NEW h \in Handler, removeEnvironment(h) PROVE PrInv'
<1>1. handler[h].at = "unlist" /\ UNCHANGED <<entries, clones, dying, skipped, outcome>> /\ envs' = envs \ {handler[h].env} /\ MovesOn(h, "sweep")
  BY DEF removeEnvironment
<1>2. PICK p \in PullRequest : handler[h].pr = p /\ JobInv(h) /\ PrLocal(p) /\ p # Nothing /\ handler[h].env = PlainName(p)
                               /\ handler[h].kind \in {"close", "remove"}
  BY <1>1, AtWorkOn, NoWorkIs DEF JobInv
<1>3. 0 \in 0 .. Pieces + 1 /\ PlainName(p) \in EnvName /\ "sweep" \in PrStage
  BY PrAssumption, PlainNames DEF PrStage
<1>4. Works(h, "sweep", PlainName(p), handler[h].piece)
  BY <1>1, <1>2, <1>3, WorksOn DEF PrInv, MovesOn
<1>5. PrSets' /\ Owned'
  BY <1>1, <1>4 DEF PrInv, PrSets, Owned, Works
<1>6. Elsewhere(p)
  BY <1>1, <1>2, PlainNames, OneNumber DEF Elsewhere, SameCopy
<1>7. PrLocal(p)'
  BY <1>1, <1>2, <1>4 DEF PrLocal, Works, Of
<1>8. JobInv(h)'
  BY <1>1, <1>2, <1>4 DEF JobInv, Works
<1> QED
  BY <1>2, <1>4, <1>5, <1>6, <1>7, <1>8, PrElsewhere DEF Works

(* Copies that are deleted: all of an environment, or some of them.        *)
LEMMA CopiesDie ==
    ASSUME OneRepository, PrInv, NEW p \in PullRequest, NEW found \in SUBSET CopiesIn(PlainName(p)),
           clones' = clones, dying' = dying \cup found, skipped' \in {skipped, skipped \ found}
    PROVE  /\ dying' \subseteq Copy /\ skipped' \subseteq Copy /\ \A c \in dying' : clones'[c] # Nothing
           /\ \A c \in Copy, q \in PullRequest : q # p /\ Of(c, q) => SameCopy(c)
<1>1. ASSUME NEW c \in Copy, NEW q \in PullRequest, q # p, Of(c, q) PROVE c \notin found
  <2>1. clones[c] \in {Nothing, PlainName(q)}
    BY <1>1 DEF PrInv, PrLocal
  <2> QED
    BY <1>1, <2>1, PlainNames, OneNumber DEF CopiesIn
<1>2. \A c \in found : c \in Copy /\ clones[c] = PlainName(p)
  BY DEF CopiesIn
<1>3. dying' \subseteq Copy /\ skipped' \subseteq Copy /\ \A c \in dying' : clones'[c] # Nothing
  BY <1>2, PlainNames DEF PrInv, PrSets, Owned
<1> QED
  BY <1>1, <1>3 DEF SameCopy

LEMMA Sweeps ==
    ASSUME OneRepository, NoPrIncident, PrInv, NEW h \in Handler, deleteEnvironmentResources(h) PROVE PrInv'
<1>1. handler[h].at = "sweep" /\ UNCHANGED <<envs, entries, clones>>
      /\ dying' = dying \cup CopiesIn(handler[h].env) /\ skipped' = skipped \ CopiesIn(handler[h].env)
  BY DEF deleteEnvironmentResources, NoPrIncident
<1>2. PICK p \in PullRequest : handler[h].pr = p /\ JobInv(h) /\ PrLocal(p) /\ p # Nothing /\ handler[h].env = PlainName(p)
                               /\ handler[h].kind \in {"close", "remove"} /\ PlainName(p) \notin envs
  BY <1>1, AtWorkOn, NoWorkIs DEF JobInv
<1>4. /\ dying' \subseteq Copy /\ skipped' \subseteq Copy /\ \A c \in dying' : clones'[c] # Nothing
      /\ \A c \in Copy, q \in PullRequest : q # p /\ Of(c, q) => SameCopy(c)
  <2>1. CopiesIn(PlainName(p)) \in SUBSET CopiesIn(PlainName(p))
    OBVIOUS
  <2>2. clones' = clones /\ dying' = dying \cup CopiesIn(PlainName(p)) /\ skipped' \in {skipped, skipped \ CopiesIn(PlainName(p))}
    BY <1>1, <1>2
  <2> QED
    BY <2>1, <2>2, CopiesDie
<1>5. \A c \in Copy : Of(c, p) => clones'[c] = Nothing \/ (clones'[c] = PlainName(p) /\ c \in dying')
  BY <1>1, <1>2 DEF PrLocal, CopiesIn
<1>6. Owned'
  BY <1>1, <1>4 DEF PrInv, Owned, Of
<1>7. CASE Ends(h, "none")
  <2>1. Over(h, p, "none")
    BY <1>2, <1>7, IsOver DEF PrInv
  <2>2. PrSets' /\ Elsewhere(p)
    BY <1>1, <1>4, <2>1 DEF PrInv, PrSets, Over, Elsewhere
  <2>3. JobInv(h)'
    BY <2>1, NoWorkIs DEF JobInv, Over
  <2>4. PrLocal(p)'
    BY <1>1, <1>2, <1>5, <2>1 DEF PrLocal, Over, Of
  <2> QED
    BY <1>2, <1>6, <2>1, <2>2, <2>3, <2>4, PrElsewhere, NoWorkIs DEF Over
<1>8. CASE MovesOn(h, "forget") /\ UNCHANGED outcome
  <2>1. 0 \in 0 .. Pieces + 1 /\ PlainName(p) \in EnvName /\ "forget" \in PrStage
    BY PrAssumption, PlainNames DEF PrStage
  <2>2. Works(h, "forget", PlainName(p), handler[h].piece)
    BY <1>2, <1>8, <2>1, WorksOn DEF PrInv, MovesOn
  <2>3. PrSets' /\ Elsewhere(p)
    BY <1>1, <1>4, <1>8, <2>2 DEF PrInv, PrSets, Works, Elsewhere
  <2>4. JobInv(h)'
    BY <1>1, <1>2, <1>5, <2>2 DEF JobInv, Works, Of
  <2>5. PrLocal(p)'
    BY <1>1, <1>2, <1>5, <1>8, <2>2 DEF PrLocal, Works, Of
  <2> QED
    BY <1>2, <1>6, <2>2, <2>3, <2>4, <2>5, PrElsewhere DEF Works
<1> QED
  BY <1>7, <1>8 DEF deleteEnvironmentResources

LEMMA Forgets ==
    ASSUME OneRepository, PrInv, NEW h \in Handler, ForgetsPullRequest(h) PROVE PrInv'
<1>1. handler[h].at = "forget" /\ UNCHANGED <<envs, clones, dying, skipped>> /\ entries' = [entries EXCEPT ![handler[h].pr] = Nothing]
      /\ Ends(h, "closed")
  BY DEF ForgetsPullRequest
<1>2. PICK p \in PullRequest : handler[h].pr = p /\ JobInv(h) /\ PlainName(p) \notin envs /\ p # Nothing
                               /\ PrLocal(p) /\ (\A c \in Copy : Of(c, p) => clones[c] = Nothing \/ c \in dying)
                               /\ \A g \in Handler : handler[g].pr = p => g = h
  BY <1>1, AtWorkOn, NoWorkIs DEF JobInv
<1>3. Over(h, p, "closed")
  BY <1>1, <1>2, IsOver DEF PrInv
<1>4. entries' \in [PullRequest -> EnvName \cup {Nothing}] /\ entries'[p] = Nothing /\ \A q \in PullRequest : q # p => entries'[q] = entries[q]
  BY <1>1, <1>2 DEF PrInv, PrSets
<1>5. PrSets' /\ Owned' /\ Elsewhere(p)
  BY <1>1, <1>3, <1>4 DEF PrInv, PrSets, Owned, Over, Elsewhere, SameCopy
<1>6. JobInv(h)'
  BY <1>3, NoWorkIs DEF JobInv, Over
<1>7. PrLocal(p)'
  <2>1. \A g \in Handler : handler'[g].pr # p
    BY <1>2, <1>3, NoWorkIs DEF Over
  <2>2. outcome'[p] = "closed"
    BY <1>3 DEF Over
  <2> QED
    BY <1>1, <1>2, <1>4, <2>1, <2>2 DEF PrLocal, Of, Clean
<1> QED
  BY <1>2, <1>3, <1>5, <1>6, <1>7, PrElsewhere, NoWorkIs DEF Over

LEMMA Fails ==
    ASSUME OneRepository, PrInv, NEW h \in Handler, RequestFails(h) PROVE PrInv'
<1>1. PICK p \in PullRequest : handler[h].pr = p /\ JobInv(h) /\ PrLocal(p) /\ p # Nothing
  BY AtWorkOn DEF RequestFails
<1>2. Ends(h, "none") /\ UNCHANGED <<envs, entries, clones, skipped>>
  BY DEF RequestFails
<1>3. PICK found \in SUBSET CopiesIn(PlainName(p)) : dying' = dying \cup found
  <2>1. CASE handler[h].at = "sweep"
    BY <1>1, <2>1 DEF RequestFails, JobInv
  <2>2. CASE handler[h].at # "sweep"
    BY <2>2 DEF RequestFails
  <2> QED
    BY <2>1, <2>2
<1>4. /\ dying' \subseteq Copy /\ \A c \in dying' : clones'[c] # Nothing
      /\ \A c \in Copy, q \in PullRequest : q # p /\ Of(c, q) => SameCopy(c)
  BY <1>2, <1>3, CopiesDie
<1>5. Over(h, p, "none")
  BY <1>1, <1>2, IsOver DEF PrInv
<1>6. PrSets' /\ Owned' /\ Elsewhere(p)
  BY <1>2, <1>4, <1>5 DEF PrInv, PrSets, Owned, Over, Elsewhere, Of
<1>7. JobInv(h)'
  BY <1>5, NoWorkIs DEF JobInv, Over
<1>8. PrLocal(p)'
  BY <1>1, <1>2, <1>3, <1>5 DEF PrLocal, Over, Of
<1> QED
  BY <1>1, <1>5, <1>6, <1>7, <1>8, PrElsewhere, NoWorkIs DEF Over

LEMMA Comes ==
    ASSUME OneRepository, NoPrIncident, PrInv, NEW h \in Handler, NEW p \in PullRequest, RequestComes(h, p) PROVE PrInv'
<1>1. handler[h] = NoWork /\ (\A g \in Handler : handler[g].pr # p) /\ UNCHANGED <<envs, entries, clones, dying, skipped>>
      /\ outcome' = [outcome EXCEPT ![p] = "none"]
  BY DEF RequestComes, NoPrIncident
<1>2. PICK k \in {"close", "remove", "ensure"} :
         handler' = [handler EXCEPT ![h] = [kind |-> k, pr |-> p, at |-> "read", env |-> Nothing, piece |-> 0]]
  BY DEF RequestComes
<1>3. [kind |-> k, pr |-> p, at |-> "read", env |-> Nothing, piece |-> 0] \in Job
  BY PrAssumption DEF Job, PrStage
<1>4. handler' \in [Handler -> Job] /\ (\A g \in Handler : g # h => handler'[g] = handler[g])
      /\ handler'[h].pr = p /\ handler'[h].at = "read" /\ handler'[h].kind = k
  BY <1>2, <1>3 DEF PrInv, PrSets
<1>5. PrSets' /\ Owned'
  BY <1>1, <1>4 DEF PrInv, PrSets, Owned
<1>6. OneEach'
  BY <1>1, <1>4 DEF PrInv, OneEach
<1>7. ASSUME NEW g \in Handler PROVE JobInv(g)'
  <2>1. CASE g = h
    BY <1>4, <2>1, PlainNames DEF JobInv
  <2>2. CASE g # h
    BY <1>1, <1>4, <2>2 DEF PrInv, JobInv, Of, Fine
  <2> QED
    BY <2>1, <2>2
<1>8. ASSUME NEW q \in PullRequest PROVE PrLocal(q)'
  <2>1. PrLocal(q) /\ (Clean(q) => Clean(q)') /\ (Whole(q) => Whole(q)')
    BY <1>1 DEF PrInv, Clean, Whole, Of, Fine
  <2>2. outcome'[q] = IF q = p THEN "none" ELSE outcome[q]
    BY <1>1 DEF PrInv, PrSets
  <2>3. q # p => ((\E g \in Handler : handler'[g].pr = q) => \E g \in Handler : handler[g].pr = q)
    BY <1>4
  <2> QED
    BY <1>1, <2>1, <2>2, <2>3 DEF PrLocal, Of
<1> QED
  BY <1>5, <1>6, <1>7, <1>8 DEF PrInv

(* A copy that was dying is gone: nothing counted on it.                   *)
LEMMA CopyGone == ASSUME PrInv, NEW c \in Copy, CopyGoes(c) PROVE PrInv'
<1>1. c \in dying /\ dying' = dying \ {c} /\ UNCHANGED <<envs, entries, skipped, handler, outcome>>
      /\ clones' = [clones EXCEPT ![c] = Nothing]
  BY DEF CopyGoes
<1>2. clones' \in [Copy -> EnvName \cup {Nothing}] /\ \A d \in Copy : clones'[d] = IF d = c THEN Nothing ELSE clones[d]
  BY <1>1 DEF PrInv, PrSets
<1>3. PrSets' /\ OneEach' /\ Owned'
  BY <1>1, <1>2 DEF PrInv, PrSets, OneEach, Owned, Of
<1>4. \A d \in Copy, p \in PullRequest : Fine(d, p) => Fine(d, p)'
  BY <1>1, <1>2 DEF Fine
<1>5. ASSUME NEW p \in PullRequest PROVE PrLocal(p)'
  <2>1. PrLocal(p) /\ (Clean(p) => Clean(p)') /\ (Whole(p) => Whole(p)')
    BY <1>1, <1>4 DEF PrInv, Clean, Whole, Of
  <2> QED
    <3>1. ASSUME NEW d \in Copy, Of(d, p) PROVE clones'[d] = Nothing \/ (clones'[d] = PlainName(p) /\ (entries'[p] = Nothing => d \in dying'))
      BY <1>1, <1>2, <2>1, <3>1 DEF PrLocal
    <3> QED
      BY <1>1, <2>1, <3>1 DEF PrLocal, Of
<1>6. ASSUME NEW h \in Handler PROVE JobInv(h)'
  <2>1. JobInv(h) /\ (handler[h].pr # Nothing => handler[h].pr \in PullRequest)
    BY DEF PrInv, PrSets, Job
  <2> QED
    BY <1>1, <1>2, <1>4, <2>1 DEF JobInv, Of
<1> QED
  BY <1>3, <1>5, <1>6 DEF PrInv

LEMMA PrStep ==
    ASSUME OneRepository, NoPrIncident, PrInv, [PrNext]_prVars PROVE PrInv'
<1>1. CASE UNCHANGED prVars
  <2>1. PrSets' /\ OneEach' /\ Owned'
    BY <1>1 DEF PrInv, PrSets, OneEach, Owned, Of, prVars
  <2>2. \A p \in PullRequest : PrLocal(p)'
    BY <1>1 DEF PrInv, PrLocal, Clean, Whole, Of, Fine, prVars
  <2>3. \A h \in Handler : JobInv(h)'
    BY <1>1 DEF PrInv, JobInv, Of, Fine, prVars
  <2> QED
    BY <2>1, <2>2, <2>3 DEF PrInv
<1> QED
  BY <1>1, CopyGone, Comes, Ensures, Creates, Clones, Closes, Unlists, Sweeps, Forgets, Fails DEF PrNext

LEMMA PrIsSafe ==
    ASSUME OneRepository, PrInv PROVE PrSafe
<1>1. PrTypeOK
  <2>1. \A h \in Handler : /\ handler[h].kind \in {"none", "ensure", "close", "remove"} /\ handler[h].at \in PrStage
                           /\ handler[h].piece \in 0 .. Pieces + 1
    BY DEF PrInv, PrSets, Job
  <2>2. dying \subseteq {c \in Copy : clones[c] # Nothing}
    BY DEF PrInv, PrSets, Owned
  <2> QED
    BY <2>1, <2>2, Zenon DEF PrInv, PrSets, PrTypeOK, PrStage
<1>2. ASSUME NEW c \in Copy, clones[c] # Nothing PROVE \E p \in PullRequest : Of(c, p) /\ clones[c] = PlainName(p) /\ (c \in dying \/ entries[p] = clones[c])
  <2>1. PICK p \in PullRequest : Of(c, p)
    BY <1>2 DEF PrInv, Owned
  <2>2. PrLocal(p)
    BY DEF PrInv
  <2> QED
    BY <1>2, <2>1, <2>2 DEF PrLocal
<1>3. NotStranded
  BY <1>2 DEF NotStranded
<1>4. ClosedLeavesNothing
  <2> SUFFICES ASSUME NEW p \in PullRequest, outcome[p] = "closed", ~Busy(p)
               PROVE  /\ entries[p] = Nothing /\ PlainName(p) \notin envs /\ LongName(p) \notin envs
                      /\ \A c \in Copy : clones[c] = PlainName(p) \/ clones[c] = LongName(p) => c \in dying
    BY DEF ClosedLeavesNothing, CopiesIn
  <2>1. Clean(p) /\ PrLocal(p)
    BY DEF PrInv, PrLocal
  <2>2. LongName(p) \notin envs
    BY PlainNames DEF PrInv, Owned
  <2>3. ASSUME NEW c \in Copy, clones[c] = PlainName(p) \/ clones[c] = LongName(p) PROVE c \in dying
    <3>1. PICK q \in PullRequest : Of(c, q) /\ clones[c] = PlainName(q) /\ (c \in dying \/ entries[q] = clones[c])
      BY <1>2, <2>3, PlainNames
    <3>2. q = p
      BY <2>3, <3>1, PlainNames, OneNumber
    <3> QED
      BY <2>1, <3>1, <3>2, PlainNames DEF Clean
  <2> QED
    BY <2>1, <2>2, <2>3 DEF Clean
<1>5. EnsuredIsWhole
  <2> SUFFICES ASSUME NEW p \in PullRequest, outcome[p] = "ensured", ~Busy(p)
               PROVE  /\ entries[p] # Nothing /\ \A q \in PullRequest \ {p} : entries[q] # entries[p]
                      /\ \A c \in Copy \ skipped : c[1] = p[2] => clones[c] = entries[p] /\ c \notin dying
    BY DEF EnsuredIsWhole
  <2>1. Whole(p) /\ PrLocal(p) /\ \A q \in PullRequest : PrLocal(q)
    BY DEF PrInv, PrLocal
  <2>2. ASSUME NEW q \in PullRequest, q # p PROVE entries[q] # entries[p]
    BY <2>1, <2>2, PlainNames, OneNumber DEF PrLocal, Whole
  <2>3. entries[p] = PlainName(p)
    BY <2>1 DEF PrLocal, Whole
  <2> QED
    BY <2>1, <2>2, <2>3 DEF Whole, Of, Fine
<1> QED
  BY <1>1, <1>3, <1>4, <1>5 DEF PrSafe

(* Wherever an event of GitHub or a button stops, and whatever fails: a    *)
(* pull request that was handled has a whole environment, but for copies   *)
(* that were still dying when they were looked for; one that was closed    *)
(* has left nothing but such copies; and no copy is where nothing finds it *)
(* (ensurePullRequestEnvironment, closePullRequestEnvironment,             *)
(* removeEnvironment), for a project of one repository.                    *)
THEOREM EnvironmentsAreWhole ==
    ASSUME OneRepository, NoPrIncident PROVE PrSpec => []PrSafe
<1>1. PrInit => PrInv
  BY PrStart
<1>2. PrInv /\ [PrNext]_prVars => PrInv'
  BY PrStep
<1>3. PrInv => PrSafe
  BY PrIsSafe
<1> QED
  BY <1>1, <1>2, <1>3, PTL DEF PrSpec

-----------------------------------------------------------------------------
(* Folders of backups.                                                     *)

NoBackupIncident == BackupHappens = {}

ArchiveState == {"none", "live", "retired", "due"}
SpecSet == [ns : Namespace, backups : BOOLEAN, deployed : BOOLEAN, deleted : BOOLEAN]
ServerSet == [id : Nat, dest : 0 .. MaxArchives, ready : BOOLEAN]
PlanSet == [wanted : BOOLEAN, archive : 0 .. MaxArchives]
PassStage == {"idle", "moved", "retire", "deployed", "awaiting", "server", "backups", "wind", "ready", "final", "last", "delete"}

BackupsSets ==
    /\ backupKind \in BackupKinds /\ spec \in SpecSet /\ asked \in SpecSet /\ targetNS \in 0 .. 2 /\ made \in Nat /\ edits \in Nat
    /\ servers \in [Namespace -> ServerSet] /\ archives \in [Archive -> ArchiveState] /\ archiveCache \in [Archive -> ArchiveState]
    /\ folder \in [Archive -> SUBSET Nat] /\ final \in {"none", "running", "overdue", "completed", "failed"}
    /\ dbPass \in PassStage /\ backupPlan \in PlanSet

(* A server is made only after a change of mind that took the one before:  *)
(* one that is missing, or about to go, has its change; one that a pass is *)
(* about to make for a wish that has passed has another.                   *)
Going == dbPass # "idle"
Wants(s) == s.deployed /\ ~s.deleted
Up == servers[spec.ns].id # 0
MadeInv ==
    /\ edits <= MaxEdits /\ made <= edits + 1
    /\ ~(Up /\ Wants(spec) /\ (Going => Wants(asked))) => made <= edits
    /\ Going /\ Wants(asked) /\ ~Wants(spec) /\ ~Up => made < edits

(* There is one server, where the database is or was; a pass past the      *)
(* first look has it where it is.                                          *)
PlaceInv ==
    /\ Going => asked.ns = spec.ns /\ (asked.deleted => spec.deleted) /\ (asked.deleted <=> dbPass \in {"final", "last", "delete"})
    /\ \A n \in Namespace : servers[n].id # 0 =>
          /\ n \in {spec.ns, targetNS}
          /\ spec.deleted \/ dbPass \notin {"idle", "moved"} => n = spec.ns
          /\ \A m \in Namespace : servers[m].id # 0 => n = m
    /\ \A n \in Namespace : servers[n].id = 0 => servers[n] = NoServer

(* Where the passes of a pass's branches are.                              *)
BranchInv ==
    /\ dbPass = "retire" => targetNS \notin {0, asked.ns}
    /\ dbPass = "awaiting" => ~asked.deployed
    /\ dbPass \in {"server", "backups", "wind", "ready"} => asked.deployed

(* Folders hold the data of one server, those of free names that of none;  *)
(* a server writes to an archive that is not going to be deleted, whose    *)
(* folder no other server has.                                             *)
FolderInv ==
    /\ \A a \in Archive : /\ folder[a] \subseteq 1 .. made /\ \A i, j \in folder[a] : i = j
                          /\ archives[a] = "none" => folder[a] = {}
    /\ \A n \in Namespace : servers[n].id <= made
    /\ \A n \in Namespace : servers[n].dest # 0 => /\ archives[servers[n].dest] \in {"live", "retired"}
                                                   /\ folder[servers[n].dest] \subseteq {servers[n].id}

(* At most one archive is live, and the one of a plan is.                  *)
LiveInv ==
    /\ \A a, b \in Archive : archives[a] = "live" /\ archives[b] = "live" => a = b
    /\ dbPass = "delete" => \A a \in Archive : archives[a] # "live"
    /\ backupPlan.archive # 0 /\ dbPass \in {"server", "backups"} => archives[backupPlan.archive] = "live"

(* A server that is gone has its archive retired before another is made:   *)
(* the pass that removed it does, or the next one, which finds the same    *)
(* asked for.                                                              *)
Mending ==
    \/ dbPass = "idle" /\ ~spec.deleted /\ (targetNS \notin {0, spec.ns} \/ ~spec.deployed)
    \/ dbPass = "moved" /\ (targetNS \notin {0, asked.ns} \/ ~asked.deployed)
    \/ dbPass = "retire"
    \/ dbPass \in {"deployed", "awaiting"} /\ ~asked.deployed
DangleInv == Dangling => Mending

BackupsInv == BackupsSets /\ MadeInv /\ PlaceInv /\ BranchInv /\ FolderInv /\ LiveInv /\ DangleInv

LEMMA BackupsStart == BackupsInit => BackupsInv
<1> SUFFICES ASSUME BackupsInit PROVE BackupsInv
  OBVIOUS
<1> USE BackupsAssumption DEF BackupsInit
<1>1. FirstSpec \in SpecSet /\ NoServer \in ServerSet /\ NoPlan \in PlanSet
  BY DEF FirstSpec, SpecSet, NoServer, ServerSet, NoPlan, PlanSet, Namespace
<1>2. BackupsSets
  BY <1>1 DEF BackupsSets, ArchiveState, PassStage
<1>3. MadeInv /\ PlaceInv /\ BranchInv
  BY DEF MadeInv, PlaceInv, BranchInv, Going, Up, NoServer
<1>4. FolderInv /\ LiveInv
  BY DEF FolderInv, LiveInv, NoServer
<1>5. DangleInv
  BY DEF DangleInv, Dangling
<1> QED
  BY <1>2, <1>3, <1>4, <1>5 DEF BackupsInv

(* Nothing becomes dangling by a step that makes no archive live, puts     *)
(* nothing in a folder and keeps the servers.                              *)
LEMMA DanglesNoMore ==
    ASSUME \A a \in Archive : archives'[a] = "live" => archives[a] = "live",
           \A a \in Archive : folder'[a] \subseteq folder[a],
           \A n \in Namespace : servers'[n].id = servers[n].id
    PROVE  Dangling' => Dangling
  BY DEF Dangling

LEMMA EditsKeep == ASSUME NoBackupIncident, BackupsInv, Edits PROVE BackupsInv'
<1>1. /\ ~spec.deleted /\ edits' = edits + 1 /\ edits + 1 <= MaxEdits /\ ~Dangling
      /\ UNCHANGED <<backupKind, dbThere, targetNS, servers, made, archives, archiveCache, folder, final, dbPass, asked, backupPlan>>
  BY BackupsAssumption DEF Edits, NoBackupIncident, dbPassVars, BackupsInv, BackupsSets
<1>2. spec \in SpecSet
  BY DEF BackupsInv, BackupsSets
<1>3. /\ spec' \in SpecSet
      /\ spec'.ns = spec.ns \/ (dbPass = "idle" /\ \A m \in Namespace : servers[m].id # 0 => m = targetNS)
      /\ spec'.deleted => spec'.ns = spec.ns /\ \A m \in Namespace : servers[m].id # 0 => m = spec.ns
  <2>1. CASE spec' = [spec EXCEPT !.backups = ~@]
    BY <1>1, <1>2, <2>1 DEF SpecSet
  <2>2. CASE spec' = [spec EXCEPT !.deployed = ~@]
    BY <1>1, <1>2, <2>2 DEF SpecSet
  <2>3. CASE dbPass = "idle" /\ Known(targetNS) /\ spec' = [spec EXCEPT !.ns = 3 - @]
    BY <1>1, <1>2, <2>3 DEF SpecSet, Namespace, Known
  <2>4. CASE Known(spec.ns) /\ spec' = [spec EXCEPT !.deleted = TRUE]
    BY <1>1, <1>2, <2>4 DEF SpecSet, Known
  <2> QED
    BY <2>1, <2>2, <2>3, <2>4 DEF Edits, NoBackupIncident
<1>4. BackupsSets'
  BY <1>1, <1>3 DEF BackupsInv, BackupsSets
<1>5. MadeInv'
  BY <1>1, <1>3 DEF BackupsInv, BackupsSets, MadeInv, Going, Up
<1>6. PlaceInv'
  BY <1>1, <1>3 DEF BackupsInv, PlaceInv, Going
<1>7. BranchInv' /\ FolderInv' /\ LiveInv'
  BY <1>1 DEF BackupsInv, BranchInv, FolderInv, LiveInv
<1>8. DangleInv'
  BY <1>1 DEF DangleInv, Dangling
<1> QED
  BY <1>4, <1>5, <1>6, <1>7, <1>8 DEF BackupsInv

LEMMA ServerRunsKeep == ASSUME BackupsInv, NEW n \in Namespace, ServerRuns(n) PROVE BackupsInv'
<1>1. /\ servers[n].id # 0
      /\ UNCHANGED <<backupKind, edits, spec, dbThere, targetNS, made, archives, archiveCache, final, dbPass, asked, backupPlan>>
  BY DEF ServerRuns, dbPassVars
<1>2. CASE servers' = [servers EXCEPT ![n].ready = TRUE] /\ UNCHANGED folder
  <2>1. /\ servers' \in [Namespace -> ServerSet]
        /\ \A m \in Namespace : servers'[m].id = servers[m].id /\ servers'[m].dest = servers[m].dest
        /\ \A m \in Namespace : m # n => servers'[m] = servers[m]
    BY <1>2 DEF BackupsInv, BackupsSets, ServerSet
  <2>2. BackupsSets' /\ MadeInv'
    BY <1>1, <1>2, <2>1 DEF BackupsInv, BackupsSets, MadeInv, Going, Up, SpecSet
  <2>3. PlaceInv' /\ BranchInv'
    BY <1>1, <2>1 DEF BackupsInv, PlaceInv, BranchInv, Going
  <2>4. FolderInv' /\ LiveInv'
    BY <1>1, <1>2, <2>1 DEF BackupsInv, FolderInv, LiveInv
  <2>5. DangleInv'
    BY <1>1, <1>2, <2>1, DanglesNoMore DEF BackupsInv, DangleInv, Mending
  <2> QED
    BY <2>2, <2>3, <2>4, <2>5 DEF BackupsInv
<1>3. CASE servers[n].dest # 0 /\ folder' = [folder EXCEPT ![servers[n].dest] = @ \cup {servers[n].id}] /\ UNCHANGED servers
  <2> DEFINE d == servers[n].dest
  <2>1. d \in Archive /\ servers[n].id \in Nat
    BY <1>3, BackupsAssumption DEF BackupsInv, BackupsSets, ServerSet, Archive
  <2>2. /\ archives[d] \in {"live", "retired"} /\ folder[d] \subseteq {servers[n].id} /\ servers[n].id \in 1 .. made
    BY <1>1, <1>3, <2>1 DEF BackupsInv, FolderInv, BackupsSets
  <2>3. folder'[d] = {servers[n].id} /\ \A a \in Archive : a # d => folder'[a] = folder[a]
    BY <1>3, <2>1, <2>2 DEF BackupsInv, BackupsSets
  <2>4. BackupsSets' /\ MadeInv' /\ PlaceInv' /\ BranchInv' /\ LiveInv'
    BY <1>1, <1>3, <2>1 DEF BackupsInv, BackupsSets, MadeInv, PlaceInv, BranchInv, LiveInv, Going, Up
  <2>5. FolderInv'
    <3>1. \A m \in Namespace : m # n => servers[m].dest # d
      BY <1>1, <1>3 DEF BackupsInv, PlaceInv, NoServer
    <3> QED
      BY <1>1, <1>3, <2>1, <2>2, <2>3, <3>1 DEF BackupsInv, FolderInv, BackupsSets, ServerSet
  <2>6. DangleInv'
    <3>1. Dangling' => Dangling
      BY <1>1, <1>3, <2>3 DEF Dangling
    <3> QED
      BY <1>1, <3>1 DEF BackupsInv, DangleInv, Mending
  <2> QED
    BY <2>4, <2>5, <2>6 DEF BackupsInv
<1> QED
  BY <1>2, <1>3 DEF ServerRuns

(* The cluster, the janitor and the last backup.                           *)
LEMMA AroundKeep ==
    ASSUME NoBackupIncident, BackupsInv,
           FinalBackupEnds \/ FinalBackupOverdue \/ ArchiveCacheCatchesUp \/ UNCHANGED backupVars \/ \E a \in Archive : ArchiveDue(a) \/ RetireOrphan(a) \/ purge(a),
           ~dbThere => ~Going
    PROVE  BackupsInv'
<1>1. UNCHANGED <<backupKind, edits, spec, targetNS, servers, made, dbPass, asked, backupPlan>>
  BY DEF FinalBackupEnds, FinalBackupOverdue, ArchiveCacheCatchesUp, backupVars, ArchiveDue, RetireOrphan, purge, dbPassVars
<1>2. MadeInv' /\ PlaceInv' /\ BranchInv'
  BY <1>1 DEF BackupsInv, MadeInv, PlaceInv, BranchInv, Going, Up
<1>3. CASE FinalBackupEnds \/ FinalBackupOverdue \/ ArchiveCacheCatchesUp \/ UNCHANGED backupVars
  <2>1. UNCHANGED <<archives, folder>> /\ archiveCache' \in {archiveCache, archives} /\ final' \in {"completed", "failed", "overdue", final}
    BY <1>3 DEF FinalBackupEnds, FinalBackupOverdue, ArchiveCacheCatchesUp, backupVars
  <2>2. BackupsSets'
    BY <1>1, <2>1 DEF BackupsInv, BackupsSets
  <2>3. FolderInv' /\ LiveInv'
    BY <1>1, <2>1 DEF BackupsInv, FolderInv, LiveInv
  <2>4. DangleInv'
    BY <1>1, <2>1, DanglesNoMore DEF BackupsInv, DangleInv, Mending
  <2> QED
    BY <1>2, <2>2, <2>3, <2>4 DEF BackupsInv
<1>4. ASSUME NEW a \in Archive, ArchiveDue(a) \/ RetireOrphan(a) \/ purge(a) PROVE BackupsInv'
  <2>1. /\ archives' \in [Archive -> ArchiveState] /\ folder' \in [Archive -> SUBSET Nat] /\ UNCHANGED <<archiveCache, final>>
        /\ \A b \in Archive : archives'[b] = "live" => archives[b] = "live"
        /\ \A b \in Archive : folder'[b] \subseteq folder[b]
    BY <1>4 DEF BackupsInv, BackupsSets, ArchiveDue, RetireOrphan, purge, ArchiveState
  <2>2. BackupsSets'
    BY <1>1, <2>1 DEF BackupsInv, BackupsSets
  <2>3. /\ \A b \in Archive : archives'[b] = "none" => folder'[b] = {}
        /\ \A n \in Namespace : servers[n].dest # 0 => archives'[servers[n].dest] \in {"live", "retired"}
    <3>1. \A n \in Namespace : servers[n].dest # 0 => servers[n].dest \in Archive /\ archives[servers[n].dest] \in {"live", "retired"}
      BY BackupsAssumption DEF BackupsInv, BackupsSets, ServerSet, Archive, FolderInv
    <3>2. \A b \in Archive : archives[b] = "none" => folder[b] = {}
      BY DEF BackupsInv, FolderInv
    <3> QED
      BY <1>4, <3>1, <3>2 DEF NoBackupIncident, BackupsInv, BackupsSets, ArchiveDue, RetireOrphan, purge
  <2>4. FolderInv'
    <3>1. \A n \in Namespace : servers[n].dest # 0 => servers[n].dest \in Archive
      BY BackupsAssumption DEF BackupsInv, BackupsSets, ServerSet, Archive
    <3> QED
      BY <1>1, <2>1, <2>3, <3>1 DEF BackupsInv, FolderInv
  <2>5. LiveInv'
    <3>1. Going => UNCHANGED archives \/ archives[a] # "live"
      BY <1>4 DEF ArchiveDue, RetireOrphan, purge
    <3>2. \A b \in Archive : b # a => archives'[b] = archives[b]
      BY <1>4 DEF BackupsInv, BackupsSets, ArchiveDue, RetireOrphan, purge
    <3>3. backupPlan.archive # 0 => backupPlan.archive \in Archive
      BY BackupsAssumption DEF BackupsInv, BackupsSets, PlanSet, Archive
    <3> QED
      BY <1>1, <2>1, <3>1, <3>2, <3>3 DEF BackupsInv, LiveInv, Going
  <2>6. DangleInv'
    BY <1>1, <2>1, DanglesNoMore DEF BackupsInv, DangleInv, Mending
  <2> QED
    BY <1>2, <2>2, <2>4, <2>5, <2>6 DEF BackupsInv
<1> QED
  BY <1>3, <1>4

(* A step of a pass that changes neither servers nor archives.             *)
LEMMA PassesOn ==
    ASSUME BackupsInv, UNCHANGED <<backupKind, edits, spec, archiveCache, folder, servers, made, archives>>,
           targetNS' \in 0 .. 2, final' \in {"none", "running", "overdue", "completed", "failed"}, dbPass' \in PassStage,
           asked' \in SpecSet, backupPlan' \in PlanSet, MadeInv', PlaceInv', BranchInv', LiveInv', Dangling => Mending'
    PROVE  BackupsInv'
<1>1. BackupsSets'
  BY DEF BackupsInv, BackupsSets
<1>2. FolderInv'
  BY DEF BackupsInv, FolderInv
<1>3. DangleInv'
  BY DanglesNoMore DEF BackupsInv, DangleInv
<1> QED
  BY <1>1, <1>2, <1>3 DEF BackupsInv

LEMMA Emptied == FirstSpec \in SpecSet /\ NoPlan \in PlanSet /\ "idle" \in PassStage
  BY BackupsAssumption DEF FirstSpec, SpecSet, NoPlan, PlanSet, Namespace, PassStage

LEMMA StartsKeep == ASSUME BackupsInv, PassStarts PROVE BackupsInv'
<1>1. /\ dbPass = "idle" /\ asked' = spec /\ dbPass' = (IF spec.deleted THEN "final" ELSE "moved")
      /\ UNCHANGED <<backupKind, edits, spec, archiveCache, folder, targetNS, servers, made, archives, final, backupPlan>>
  BY DEF PassStarts, around
<1>2. spec.deleted \in BOOLEAN
  BY DEF BackupsInv, BackupsSets, SpecSet
<1>3. MadeInv'
  BY <1>1, <1>2 DEF BackupsInv, MadeInv, Going, Up, Wants
<1>4. PlaceInv'
  BY <1>1, <1>2 DEF BackupsInv, PlaceInv, Going
<1>5. BranchInv' /\ LiveInv'
  BY <1>1 DEF BackupsInv, BranchInv, LiveInv
<1>6. Dangling => Mending'
  BY <1>1 DEF BackupsInv, DangleInv, Mending
<1> QED
  BY <1>1, <1>3, <1>4, <1>5, <1>6, PassesOn DEF BackupsInv, BackupsSets, PassStage

LEMMA FailsKeep == ASSUME NoBackupIncident, BackupsInv, DatabasePassFails PROVE BackupsInv'
<1>1. /\ dbPass # "idle" /\ dbPass' = "idle" /\ asked' = FirstSpec /\ backupPlan' = NoPlan /\ (Dangling => spec = asked)
      /\ UNCHANGED <<backupKind, edits, spec, archiveCache, folder, targetNS, servers, made, archives, final>>
  BY DEF DatabasePassFails, PassOver, around, NoBackupIncident
<1>3. MadeInv'
  BY <1>1 DEF BackupsInv, BackupsSets, MadeInv, Going, Up, Wants
<1>4. PlaceInv'
  BY <1>1 DEF BackupsInv, PlaceInv, Going
<1>5. BranchInv' /\ LiveInv'
  BY <1>1 DEF BackupsInv, BranchInv, LiveInv, NoPlan
<1>6. Dangling => Mending'
  BY <1>1 DEF BackupsInv, DangleInv, Mending, PlaceInv, BranchInv, Going
<1> QED
  BY <1>1, <1>3, <1>4, <1>5, <1>6, PassesOn, Emptied DEF BackupsInv, BackupsSets

(* A pass that is over, its work done.                                     *)
LEMMA OverKeep ==
    ASSUME BackupsInv, dbPass \in {"backups", "ready", "final"}, PassOver, targetNS' \in {targetNS, asked.ns},
           targetNS' # targetNS => dbPass = "ready",
           final' \in {"none", "running", "overdue", "completed", "failed"},
           UNCHANGED <<backupKind, edits, spec, archiveCache, folder, servers, made, archives>>
    PROVE  BackupsInv'
<1>1. dbPass' = "idle" /\ asked' = FirstSpec /\ backupPlan' = NoPlan /\ asked.ns \in Namespace
  BY DEF PassOver, BackupsInv, BackupsSets, SpecSet
<1>2. targetNS' \in 0 .. 2
  BY <1>1 DEF BackupsInv, BackupsSets, Namespace
<1>3. MadeInv'
  BY <1>1 DEF BackupsInv, BackupsSets, MadeInv, Going, Up, Wants
<1>4. PlaceInv'
  BY <1>1 DEF BackupsInv, PlaceInv, Going
<1>5. BranchInv' /\ LiveInv'
  BY <1>1 DEF BackupsInv, BranchInv, LiveInv, NoPlan
<1>6. ~Dangling
  BY DEF BackupsInv, DangleInv, Mending
<1> QED
  BY <1>1, <1>2, <1>3, <1>4, <1>5, <1>6, PassesOn, Emptied

LEMMA ReadyKeeps == ASSUME BackupsInv, setReady PROVE BackupsInv'
  BY OverKeep DEF setReady, around, BackupsInv, BackupsSets

LEMMA FinalKeeps == ASSUME BackupsInv, finalizeBackups PROVE BackupsInv'
<1>1. dbPass = "final" /\ UNCHANGED <<backupKind, edits, spec, archiveCache, folder, targetNS, servers, made, archives>>
  BY DEF finalizeBackups, around
<1>2. CASE PassOver
  <2>1. final' \in {"none", "running", "overdue", "completed", "failed"}
    BY DEF finalizeBackups, BackupsInv, BackupsSets
  <2> QED
    BY <1>1, <1>2, <2>1, OverKeep
<1>3. CASE Goes("last") /\ UNCHANGED final
  <2>1. dbPass' = "last" /\ UNCHANGED <<asked, backupPlan, final>>
    BY <1>3 DEF Goes
  <2>2. MadeInv' /\ PlaceInv' /\ BranchInv' /\ LiveInv'
    BY <1>1, <2>1 DEF BackupsInv, MadeInv, PlaceInv, BranchInv, LiveInv, Going, Up
  <2>3. ~Dangling
    BY <1>1 DEF BackupsInv, DangleInv, Mending
  <2> QED
    BY <1>1, <2>1, <2>2, <2>3, PassesOn DEF BackupsInv, BackupsSets, PassStage
<1> QED
  BY <1>2, <1>3 DEF finalizeBackups

(* The live archive is retired.                                            *)
LEMMA RetiresAll ==
    ASSUME NoBackupIncident, BackupsInv, retireLiveArchive
    PROVE  /\ archives' \in [Archive -> ArchiveState]
           /\ \A a \in Archive : archives'[a] = IF archives[a] = "live" THEN "retired" ELSE archives[a]
  BY DEF NoBackupIncident, BackupsInv, BackupsSets, retireLiveArchive, ReadsArchives, liveArchives, ArchiveState

LEMMA RetireKeeps ==
    ASSUME NoBackupIncident, BackupsInv, retireLiveArchive, dbPass' \in PassStage, asked' \in SpecSet, backupPlan' \in PlanSet,
           UNCHANGED <<backupKind, edits, spec, archiveCache, folder, targetNS, servers, made, final>>,
           MadeInv', PlaceInv', BranchInv', dbPass' \notin {"server", "backups"}
    PROVE  BackupsInv'
<1>1. /\ archives' \in [Archive -> ArchiveState]
      /\ \A a \in Archive : archives'[a] = IF archives[a] = "live" THEN "retired" ELSE archives[a]
  BY RetiresAll
<1>2. BackupsSets'
  BY <1>1 DEF BackupsInv, BackupsSets
<1>3. FolderInv'
  <2>1. \A n \in Namespace : servers[n].dest # 0 => servers[n].dest \in Archive
    BY BackupsAssumption DEF BackupsInv, BackupsSets, ServerSet, Archive
  <2> QED
    BY <1>1, <2>1 DEF BackupsInv, FolderInv
<1>4. LiveInv'
  BY <1>1 DEF LiveInv
<1>5. DangleInv'
  BY <1>1 DEF DangleInv, Dangling
<1> QED
  BY <1>2, <1>3, <1>4, <1>5 DEF BackupsInv

(* A server is removed.                                                    *)
LEMMA Removed ==
    ASSUME NoBackupIncident, BackupsInv, NEW n \in Namespace, deleteTargetResources(n)
    PROVE  servers' \in [Namespace -> ServerSet] /\ servers'[n] = NoServer /\ \A m \in Namespace : m # n => servers'[m] = servers[m]
<1>1. NoServer \in ServerSet
  BY BackupsAssumption DEF NoServer, ServerSet
<1>2. servers' = [servers EXCEPT ![n] = NoServer]
  BY DEF deleteTargetResources, NoBackupIncident
<1> QED
  BY <1>1, <1>2 DEF BackupsInv, BackupsSets

LEMMA RemoveKeeps ==
    ASSUME BackupsInv, NEW n \in Namespace,
           servers' \in [Namespace -> ServerSet], servers'[n] = NoServer, \A m \in Namespace : m # n => servers'[m] = servers[m],
           dbPass' \in PassStage, asked' \in SpecSet, backupPlan' \in PlanSet, final' \in {"none", "running", "overdue", "completed", "failed"},
           UNCHANGED <<backupKind, edits, spec, archiveCache, folder, targetNS, made, archives>>,
           dbPass' \notin {"server", "backups", "delete"}, MadeInv', PlaceInv', BranchInv',
           Mending' \/ \A a \in Archive : archives[a] # "live"
    PROVE  BackupsInv'
<1>1. NoServer.id = 0 /\ NoServer.dest = 0 /\ made \in Nat
  BY DEF BackupsInv, BackupsSets, NoServer
<1>2. BackupsSets'
  BY DEF BackupsInv, BackupsSets
<1>3. FolderInv'
  BY <1>1 DEF BackupsInv, FolderInv
<1>4. LiveInv'
  BY DEF BackupsInv, LiveInv
<1>5. DangleInv'
  BY DEF DangleInv, Dangling
<1> QED
  BY <1>2, <1>3, <1>4, <1>5 DEF BackupsInv

LEMMA MovedKeeps == ASSUME NoBackupIncident, BackupsInv, Moved PROVE BackupsInv'
<1>1. UNCHANGED <<backupKind, edits, spec, archiveCache, folder, targetNS, made, final>>
  BY DEF Moved, around
<1>2. asked \in SpecSet /\ backupPlan \in PlanSet /\ targetNS \in 0 .. 2 /\ final \in {"none", "running", "overdue", "completed", "failed"}
  BY DEF BackupsInv, BackupsSets
<1>3. CASE dbPass = "moved" /\ targetNS \in {0, asked.ns} /\ Goes("deployed") /\ UNCHANGED <<servers, archives>>
  <2>1. dbPass' = "deployed" /\ UNCHANGED <<asked, backupPlan>> /\ dbPass' \in PassStage
    BY <1>3 DEF Goes, PassStage
  <2>2. MadeInv' /\ BranchInv' /\ LiveInv'
    BY <1>1, <1>3, <2>1 DEF BackupsInv, MadeInv, BranchInv, LiveInv, Going, Up
  <2>3. PlaceInv'
    BY <1>1, <1>3, <2>1 DEF BackupsInv, PlaceInv, Going, Namespace
  <2>4. Dangling => Mending'
    BY <1>1, <1>3, <2>1 DEF BackupsInv, DangleInv, Mending
  <2> QED
    BY <1>1, <1>2, <1>3, <2>1, <2>2, <2>3, <2>4, PassesOn
<1>4. CASE dbPass = "moved" /\ targetNS \notin {0, asked.ns} /\ Goes("retire") /\ deleteTargetResources(targetNS) /\ UNCHANGED archives
  <2>1. dbPass' = "retire" /\ UNCHANGED <<asked, backupPlan>> /\ dbPass' \in PassStage /\ targetNS \in Namespace
    BY <1>2, <1>4 DEF Goes, PassStage, Namespace
  <2>2. servers' \in [Namespace -> ServerSet] /\ servers'[targetNS] = NoServer /\ \A m \in Namespace : m # targetNS => servers'[m] = servers[m]
    BY <1>4, <2>1, Removed
  <2>3. spec.ns \in Namespace /\ spec.ns # targetNS
    BY <1>4 DEF BackupsInv, BackupsSets, SpecSet, PlaceInv, Going
  <2>4. MadeInv'
    BY <1>1, <1>4, <2>1, <2>2, <2>3 DEF BackupsInv, MadeInv, Going, Up
  <2>5. PlaceInv'
    BY <1>1, <1>4, <2>1, <2>2, <2>3 DEF BackupsInv, PlaceInv, Going, NoServer
  <2>6. BranchInv' /\ Mending'
    BY <1>1, <1>4, <2>1 DEF BranchInv, Mending
  <2> QED
    BY <1>1, <1>2, <1>4, <2>1, <2>2, <2>4, <2>5, <2>6, RemoveKeeps
<1>5. CASE dbPass = "retire" /\ retireLiveArchive /\ Goes("deployed") /\ UNCHANGED servers
  <2>1. dbPass' = "deployed" /\ UNCHANGED <<asked, backupPlan>> /\ dbPass' \in PassStage
    BY <1>5 DEF Goes, PassStage
  <2>2. MadeInv' /\ PlaceInv' /\ BranchInv'
    BY <1>1, <1>5, <2>1 DEF BackupsInv, MadeInv, PlaceInv, BranchInv, Going, Up
  <2> QED
    BY <1>1, <1>2, <1>5, <2>1, <2>2, RetireKeeps
<1> QED
  BY <1>3, <1>4, <1>5 DEF Moved

LEMMA AwaitingKeeps == ASSUME NoBackupIncident, BackupsInv, AwaitingDeploy PROVE BackupsInv'
<1>1. UNCHANGED <<backupKind, edits, spec, archiveCache, folder, targetNS, made, final>> /\ ~asked.deployed
  BY DEF AwaitingDeploy, around
<1>2. asked \in SpecSet /\ backupPlan \in PlanSet /\ targetNS \in 0 .. 2 /\ final \in {"none", "running", "overdue", "completed", "failed"}
  BY DEF BackupsInv, BackupsSets
<1>3. CASE dbPass = "deployed" /\ deleteTargetResources(asked.ns) /\ Goes("awaiting") /\ UNCHANGED archives
  <2>1. dbPass' = "awaiting" /\ UNCHANGED <<asked, backupPlan>> /\ dbPass' \in PassStage /\ asked.ns = spec.ns /\ asked.ns \in Namespace
    BY <1>2, <1>3 DEF Goes, PassStage, BackupsInv, PlaceInv, Going, SpecSet
  <2>2. servers' \in [Namespace -> ServerSet] /\ servers'[asked.ns] = NoServer /\ \A m \in Namespace : m # asked.ns => servers'[m] = servers[m]
    BY <1>3, <2>1, Removed
  <2>3. MadeInv'
    BY <1>1, <1>3, <2>1, <2>2 DEF BackupsInv, MadeInv, Going, Up, Wants
  <2>4. PlaceInv'
    BY <1>1, <1>3, <2>1, <2>2 DEF BackupsInv, PlaceInv, Going, NoServer
  <2>5. BranchInv' /\ Mending'
    BY <1>1, <1>3, <2>1 DEF BranchInv, Mending
  <2> QED
    BY <1>1, <1>2, <1>3, <2>1, <2>2, <2>3, <2>4, <2>5, RemoveKeeps
<1>4. CASE dbPass = "awaiting" /\ retireLiveArchive /\ PassOver /\ UNCHANGED servers
  <2>1. dbPass' = "idle" /\ asked' = FirstSpec /\ backupPlan' = NoPlan
    BY <1>4 DEF PassOver
  <2>2. MadeInv'
    BY <1>1, <1>4, <2>1 DEF BackupsInv, BackupsSets, MadeInv, Going, Up, Wants
  <2>3. PlaceInv' /\ BranchInv'
    BY <1>1, <1>4, <2>1 DEF BackupsInv, PlaceInv, BranchInv, Going
  <2> QED
    BY <1>1, <1>4, <2>1, <2>2, <2>3, RetireKeeps, Emptied
<1> QED
  BY <1>3, <1>4 DEF AwaitingDeploy

LEMMA WindKeeps == ASSUME NoBackupIncident, BackupsInv, windDownBackups PROVE BackupsInv'
<1>1. /\ UNCHANGED <<backupKind, edits, spec, archiveCache, folder, targetNS, servers, made, final, asked, backupPlan>>
      /\ dbPass = "wind" /\ dbPass' = "ready" /\ dbPass' \in PassStage /\ retireLiveArchive
  BY DEF windDownBackups, around, Goes, PassStage
<1>2. MadeInv' /\ PlaceInv' /\ BranchInv'
  BY <1>1 DEF BackupsInv, MadeInv, PlaceInv, BranchInv, Going, Up
<1> QED
  BY <1>1, <1>2, RetireKeeps DEF BackupsInv, BackupsSets

LEMMA DeletesKeep == ASSUME NoBackupIncident, BackupsInv, Deletes PROVE BackupsInv'
<1>1. UNCHANGED <<backupKind, edits, spec, archiveCache, folder, targetNS, made>>
  BY DEF Deletes, around
<1>2. asked \in SpecSet /\ backupPlan \in PlanSet /\ targetNS \in 0 .. 2 /\ final \in {"none", "running", "overdue", "completed", "failed"}
  BY DEF BackupsInv, BackupsSets
<1>3. CASE dbPass = "last" /\ retireLiveArchive /\ Goes("delete") /\ UNCHANGED <<servers, final>>
  <2>1. dbPass' = "delete" /\ UNCHANGED <<asked, backupPlan>> /\ dbPass' \in PassStage
    BY <1>3 DEF Goes, PassStage
  <2>2. MadeInv' /\ PlaceInv' /\ BranchInv'
    BY <1>1, <1>3, <2>1 DEF BackupsInv, MadeInv, PlaceInv, BranchInv, Going, Up
  <2> QED
    BY <1>1, <1>2, <1>3, <2>1, <2>2, RetireKeeps
<1>4. CASE dbPass = "delete" /\ UNCHANGED archives /\ deleteTargetResources(asked.ns) /\ PassOver /\ final' = "none"
  <2>1. dbPass' = "idle" /\ asked' = FirstSpec /\ backupPlan' = NoPlan /\ asked.ns = spec.ns /\ asked.ns \in Namespace
        /\ asked.deleted /\ spec.deleted
    BY <1>2, <1>4 DEF PassOver, BackupsInv, PlaceInv, Going, SpecSet
  <2>2. servers' \in [Namespace -> ServerSet] /\ servers'[asked.ns] = NoServer /\ \A m \in Namespace : m # asked.ns => servers'[m] = servers[m]
    BY <1>4, <2>1, Removed
  <2>3. MadeInv'
    BY <1>1, <1>4, <2>1, <2>2 DEF BackupsInv, BackupsSets, MadeInv, Going, Up, Wants
  <2>4. PlaceInv' /\ BranchInv'
    BY <1>1, <1>4, <2>1, <2>2 DEF BackupsInv, PlaceInv, BranchInv, Going, NoServer
  <2>5. \A a \in Archive : archives[a] # "live"
    BY <1>4 DEF BackupsInv, LiveInv
  <2> QED
    BY <1>1, <1>2, <1>4, <2>1, <2>2, <2>3, <2>4, <2>5, RemoveKeeps, Emptied
<1> QED
  BY <1>3, <1>4 DEF Deletes

LEMMA PlansKeep == ASSUME NoBackupIncident, BackupsInv, planBackups PROVE BackupsInv'
<1>1. /\ dbPass = "deployed" /\ asked.deployed /\ dbPass' = "server" /\ archiveCache = archives
      /\ UNCHANGED <<backupKind, edits, spec, archiveCache, folder, targetNS, servers, made, final, asked>>
  BY DEF planBackups, around, ReadsArchives, NoBackupIncident
<1>2. MadeInv' /\ PlaceInv' /\ BranchInv'
  BY <1>1 DEF BackupsInv, MadeInv, PlaceInv, BranchInv, Going, Up
<1>3. ~Dangling
  BY <1>1 DEF BackupsInv, DangleInv, Mending
<1>4. archives \in [Archive -> ArchiveState] /\ Archive = 1 .. MaxArchives /\ \A a \in Archive : a # 0
  BY BackupsAssumption DEF BackupsInv, BackupsSets, Archive
<1>5. CASE UNCHANGED archives /\ \E w \in BOOLEAN, a \in liveArchives \cup {0} : backupPlan' = [wanted |-> w, archive |-> a]
  <2>1. PICK w \in BOOLEAN, a \in liveArchives \cup {0} : backupPlan' = [wanted |-> w, archive |-> a]
    BY <1>5
  <2>2. a \in 0 .. MaxArchives /\ (a # 0 => archives[a] = "live")
    BY <1>1, <1>4, BackupsAssumption DEF liveArchives
  <2>3. backupPlan' \in PlanSet /\ backupPlan'.archive = a
    BY <2>1, <2>2 DEF PlanSet
  <2>4. LiveInv'
    BY <1>1, <1>5, <2>2, <2>3 DEF BackupsInv, LiveInv
  <2>5. dbPass' \in PassStage /\ targetNS \in 0 .. 2 /\ final \in {"none", "running", "overdue", "completed", "failed"} /\ asked \in SpecSet
    BY <1>1 DEF BackupsInv, BackupsSets, PassStage
  <2> QED
    BY <1>1, <1>2, <1>3, <1>5, <2>3, <2>4, <2>5, PassesOn
<1>6. CASE \E a \in Archive : /\ liveArchives = {} /\ archives[a] = "none" /\ archives' = [archives EXCEPT ![a] = "live"]
                              /\ backupPlan' = [wanted |-> TRUE, archive |-> a]
  <2>1. PICK a \in Archive : /\ liveArchives = {} /\ archives[a] = "none" /\ archives' = [archives EXCEPT ![a] = "live"]
                             /\ backupPlan' = [wanted |-> TRUE, archive |-> a]
    BY <1>6
  <2>2. archives' \in [Archive -> ArchiveState] /\ archives'[a] = "live" /\ \A b \in Archive : b # a => archives'[b] = archives[b] /\ archives[b] # "live"
    BY <1>1, <1>4, <2>1 DEF liveArchives, ArchiveState
  <2>3. backupPlan' \in PlanSet /\ backupPlan'.archive = a
    BY <1>4, <2>1, BackupsAssumption DEF PlanSet
  <2>4. BackupsSets'
    BY <1>1, <2>2, <2>3 DEF BackupsInv, BackupsSets, PassStage
  <2>5. FolderInv'
    <3>1. \A n \in Namespace : servers[n].dest # 0 => servers[n].dest \in Archive /\ servers[n].dest # a
      BY <1>4, <2>1, BackupsAssumption DEF BackupsInv, BackupsSets, ServerSet, FolderInv
    <3> QED
      BY <1>1, <2>2, <3>1 DEF BackupsInv, FolderInv
  <2>6. LiveInv'
    BY <1>1, <2>2, <2>3 DEF LiveInv
  <2>7. DangleInv'
    <3>1. folder[a] = {}
      BY <2>1 DEF BackupsInv, FolderInv
    <3> QED
      BY <1>1, <1>3, <2>2, <3>1 DEF DangleInv, Dangling
  <2> QED
    BY <1>2, <2>4, <2>5, <2>6, <2>7 DEF BackupsInv
<1> QED
  <2>1. CASE asked.backups /\ NoStorage
    <3>1. CASE liveArchives = {}
      BY <1>5, <2>1, <3>1 DEF NoStorage
    <3>2. CASE liveArchives # {}
      <4>1. (CHOOSE a \in liveArchives : TRUE) \in liveArchives
        BY <3>2
      <4> QED
        BY <1>5, <2>1, <3>2, <4>1 DEF NoStorage
    <3> QED
      BY <3>1, <3>2
  <2>2. CASE asked.backups /\ ensureBackupArchive
    BY <1>5, <1>6, <2>2 DEF ensureBackupArchive
  <2>3. CASE ~asked.backups
    BY <1>5, <2>3 DEF planBackups, NoPlan
  <2> QED
    BY <2>1, <2>2, <2>3 DEF planBackups

(* A server is made, or told where to write: its archive is live and holds *)
(* nothing of another server, because none that is gone has a live one.    *)
LEMMA TellsServer ==
    ASSUME BackupsInv, dbPass \in {"server", "backups"}, NEW n \in Namespace, n = asked.ns,
           servers' \in [Namespace -> ServerSet], \A m \in Namespace : m # n => servers'[m] = servers[m],
           servers[n].id # 0 => servers'[n].id = servers[n].id /\ made' = made,
           servers[n].id = 0 => made' = made + 1 /\ servers'[n].id = made',
           servers'[n].dest \in {servers[n].dest, backupPlan.archive},
           dbPass' \in PassStage \ {"idle", "moved", "retire", "deployed", "awaiting", "server", "final", "last", "delete"},
           UNCHANGED <<backupKind, edits, spec, archiveCache, folder, targetNS, archives, final, asked, backupPlan>>
    PROVE  BackupsInv'
<1>1. /\ n = spec.ns /\ asked.deployed /\ ~asked.deleted /\ ~Dangling /\ made \in Nat /\ edits \in Nat /\ servers'[n].id # 0
      /\ servers[n].id \in Nat
  BY DEF BackupsInv, BackupsSets, PlaceInv, BranchInv, DangleInv, Mending, Going, ServerSet
<1>2. BackupsSets'
  BY <1>1 DEF BackupsInv, BackupsSets
<1>3. MadeInv'
  BY <1>1 DEF BackupsInv, MadeInv, Going, Up, Wants, PassStage
<1>4. PlaceInv'
  BY <1>1 DEF BackupsInv, PlaceInv, Going, PassStage
<1>5. BranchInv' /\ LiveInv'
  BY DEF BackupsInv, BranchInv, LiveInv, PassStage
<1>6. FolderInv'
  <2>1. \A m \in Namespace : m # n => servers[m].id = 0 /\ servers[m] = NoServer
    BY <1>1 DEF BackupsInv, PlaceInv
  <2>2. NoServer.id = 0 /\ NoServer.dest = 0
    BY DEF NoServer
  <2>3. ASSUME NEW a \in Archive, archives[a] = "live" PROVE folder[a] \subseteq {servers[n].id} /\ (servers[n].id = 0 => folder[a] = {})
    <3>1. ASSUME NEW i \in folder[a] PROVE i = servers[n].id /\ i # 0
      <4>1. i # 0
        BY <1>1 DEF BackupsInv, FolderInv
      <4>2. PICK m \in Namespace : servers[m].id = i
        BY <1>1, <2>3 DEF Dangling
      <4> QED
        BY <2>1, <2>2, <4>1, <4>2
    <3> QED
      BY <3>1
  <2>4. backupPlan.archive # 0 => backupPlan.archive \in Archive /\ archives[backupPlan.archive] = "live"
    BY BackupsAssumption DEF BackupsInv, BackupsSets, PlanSet, Archive, LiveInv
  <2>5. servers[n].dest # 0 => servers[n].id # 0
    BY <2>2 DEF BackupsInv, PlaceInv
  <2>6. servers'[n].dest # 0 => archives[servers'[n].dest] \in {"live", "retired"} /\ folder[servers'[n].dest] \subseteq {servers'[n].id}
    <3>1. CASE servers'[n].dest = servers[n].dest
      BY <2>5, <3>1 DEF BackupsInv, FolderInv
    <3>2. CASE servers'[n].dest = backupPlan.archive
      BY <2>3, <2>4, <3>2
    <3> QED
      BY <3>1, <3>2
  <2>7. \A m \in Namespace : servers'[m].id <= made' /\ made' \in Nat /\ made <= made'
    BY <1>1, <2>1, <2>2 DEF BackupsInv, FolderInv
  <2>8. \A a \in Archive : folder[a] \subseteq 1 .. made'
    BY <1>1, <2>7 DEF BackupsInv, FolderInv
  <2> QED
    BY <2>1, <2>2, <2>6, <2>7, <2>8 DEF BackupsInv, FolderInv
<1>7. DangleInv'
  <2>1. \A a \in Archive : \A i \in folder[a] : i # 0
    BY <1>1 DEF BackupsInv, FolderInv
  <2> QED
    BY <1>1, <2>1 DEF DangleInv, Dangling
<1> QED
  BY <1>2, <1>3, <1>4, <1>5, <1>6, <1>7 DEF BackupsInv

LEMMA ServerKeeps == ASSUME BackupsInv, reconcileServer PROVE BackupsInv'
<1> DEFINE n == asked.ns
           old == servers[n]
           new == IF old.id = 0 THEN [NoServer EXCEPT !.id = made + 1] ELSE old
<1>1. /\ dbPass = "server" /\ dbPass' = "backups" /\ made' = (IF old.id = 0 THEN made + 1 ELSE made)
      /\ servers' = [servers EXCEPT ![n] = IF backupKind = "Continuous" THEN [new EXCEPT !.dest = Dest(new)] ELSE new]
      /\ UNCHANGED <<backupKind, edits, spec, archiveCache, folder, targetNS, archives, final, asked, backupPlan>>
  BY DEF reconcileServer, Goes, around
<1>2. n \in Namespace /\ old \in ServerSet /\ made \in Nat /\ backupPlan \in PlanSet /\ servers \in [Namespace -> ServerSet]
      /\ (old.id = 0 => old = NoServer)
  BY <1>1 DEF BackupsInv, BackupsSets, SpecSet, PlaceInv
<1>3. new \in ServerSet /\ new.dest = old.dest /\ (old.id = 0 => new.id = made + 1) /\ (old.id # 0 => new.id = old.id)
  <2>1. CASE old.id = 0
    BY <1>2, <2>1, BackupsAssumption DEF NoServer, ServerSet
  <2>2. CASE old.id # 0
    BY <1>2, <2>2
  <2> QED
    BY <2>1, <2>2
<1> HIDE DEF new
<1>4. Dest(new) \in {new.dest, backupPlan.archive} /\ Dest(new) \in 0 .. MaxArchives
  BY <1>2, <1>3 DEF Dest, PlanSet, ServerSet
<1> DEFINE told == IF backupKind = "Continuous" THEN [new EXCEPT !.dest = Dest(new)] ELSE new
<1>5. told \in ServerSet /\ told.id = new.id /\ told.dest \in {new.dest, backupPlan.archive}
  <2>1. CASE backupKind = "Continuous"
    BY <1>3, <1>4, <2>1 DEF ServerSet
  <2>2. CASE backupKind # "Continuous"
    BY <1>3, <2>2
  <2> QED
    BY <2>1, <2>2
<1>6. servers'[n] = told /\ servers' \in [Namespace -> ServerSet] /\ \A m \in Namespace : m # n => servers'[m] = servers[m]
  BY <1>1, <1>2, <1>5
<1> HIDE DEF told
<1>7. dbPass' \in PassStage \ {"idle", "moved", "retire", "deployed", "awaiting", "server", "final", "last", "delete"}
  BY <1>1 DEF PassStage
<1> QED
  BY <1>1, <1>2, <1>3, <1>5, <1>6, <1>7, TellsServer

LEMMA LifecycleKeeps == ASSUME BackupsInv, reconcileBackupLifecycle PROVE BackupsInv'
<1> DEFINE n == asked.ns
           s == servers[n]
<1>1. dbPass = "backups" /\ UNCHANGED <<backupKind, edits, spec, archiveCache, folder, targetNS, made, final>>
  BY DEF reconcileBackupLifecycle, around
<1>2. CASE PassOver /\ UNCHANGED <<servers, archives>>
  BY <1>1, <1>2, OverKeep DEF BackupsInv, BackupsSets
<1>3. CASE /\ Goes(IF backupPlan.wanted THEN "ready" ELSE "wind") /\ UNCHANGED archives /\ s.ready
           /\ servers' = [servers EXCEPT ![n].dest = IF s.id = 0 THEN @ ELSE Dest(s)]
  <2>1. n \in Namespace /\ s \in ServerSet /\ backupPlan \in PlanSet /\ servers \in [Namespace -> ServerSet]
        /\ (s.id = 0 => s = NoServer) /\ s.id # 0
    BY <1>1, <1>3 DEF BackupsInv, BackupsSets, SpecSet, PlaceInv, NoServer
  <2>2. Dest(s) \in {s.dest, backupPlan.archive} /\ Dest(s) \in 0 .. MaxArchives
    BY <2>1 DEF Dest, PlanSet, ServerSet
  <2>3. /\ servers' \in [Namespace -> ServerSet] /\ (\A m \in Namespace : m # n => servers'[m] = servers[m])
        /\ servers'[n].id = s.id /\ servers'[n].dest = Dest(s)
    BY <1>3, <2>1, <2>2 DEF ServerSet
  <2>4. dbPass' \in PassStage \ {"idle", "moved", "retire", "deployed", "awaiting", "server", "final", "last", "delete"}
        /\ UNCHANGED <<asked, backupPlan>>
    BY <1>3 DEF Goes, PassStage
  <2> QED
    BY <1>1, <1>3, <2>1, <2>2, <2>3, <2>4, TellsServer
<1> QED
  BY <1>2, <1>3 DEF reconcileBackupLifecycle

(* A database that is gone has no pass.                                    *)
ThereInv == dbThere \in BOOLEAN /\ (~dbThere => ~Going)

LEMMA ThereStep == ASSUME ThereInv, [BackupsNext]_backupVars PROVE ThereInv'
<1>1. CASE UNCHANGED backupVars
  BY <1>1, Zenon DEF backupVars, dbPassVars, ThereInv, Going
<1>2. CASE Edits \/ (\E n \in Namespace : ServerRuns(n)) \/ FinalBackupEnds \/ FinalBackupOverdue \/ ArchiveCacheCatchesUp
           \/ \E a \in Archive : ArchiveDue(a) \/ RetireOrphan(a) \/ purge(a)
  BY <1>2, Zenon DEF Edits, ServerRuns, FinalBackupEnds, FinalBackupOverdue, ArchiveCacheCatchesUp, ArchiveDue, RetireOrphan, purge, dbPassVars,
                     ThereInv, Going
<1>3. CASE DatabasePassFails \/ DatabasePass
  <2>1. dbThere
    BY <1>3 DEF ThereInv, Going, DatabasePassFails, DatabasePass, PassStarts, Moved, AwaitingDeploy, planBackups, reconcileServer,
                reconcileBackupLifecycle, windDownBackups, setReady, finalizeBackups, Deletes
  <2>2. dbThere' = dbThere \/ (dbThere' = FALSE /\ dbPass' = "idle")
    BY <1>3, Zenon DEF DatabasePassFails, DatabasePass, PassStarts, Moved, AwaitingDeploy, planBackups, reconcileServer,
                       reconcileBackupLifecycle, windDownBackups, setReady, finalizeBackups, Deletes, PassOver
  <2> QED
    BY <2>1, <2>2, Zenon DEF ThereInv, Going
<1> QED
  BY <1>1, <1>2, <1>3 DEF BackupsNext

LEMMA AtMostOne ==
    ASSUME NEW S, \A x, y \in S : x = y PROVE Cardinality(S) <= 1
<1>1. CASE S = {}
  BY <1>1, FS_EmptySet
<1>2. CASE S # {}
  <2>1. PICK x \in S : S = {x}
    BY <1>2
  <2> QED
    BY <2>1, FS_Singleton
<1> QED
  BY <1>1, <1>2

LEMMA BackupsAreSafe == ASSUME BackupsInv, ThereInv PROVE BackupsSafe
<1>1. Cardinality({a \in Archive : archives[a] = "live"}) <= 1
  BY AtMostOne DEF BackupsInv, LiveInv
<1>2. made \in Server /\ folder \in [Archive -> SUBSET Server] /\ 0 \in Server /\ 1 .. made \subseteq Server
  <2>1. made \in Nat /\ made <= MaxEdits + 1 /\ MaxEdits \in Nat
    BY BackupsAssumption DEF BackupsInv, BackupsSets, MadeInv
  <2>2. made \in Server /\ 1 .. made \subseteq Server /\ 0 \in Server
    BY <2>1 DEF Server
  <2> QED
    BY <2>2 DEF BackupsInv, BackupsSets, FolderInv
<1>3. servers \in [Namespace -> [id : Server, dest : 0 .. MaxArchives, ready : BOOLEAN]]
  <2>1. \A n \in Namespace : servers[n] \in ServerSet /\ servers[n].id \in Server
    <3>1. made \in Nat /\ made <= MaxEdits + 1 /\ MaxEdits \in Nat
      BY BackupsAssumption DEF BackupsInv, BackupsSets, MadeInv
    <3> QED
      BY <3>1 DEF BackupsInv, BackupsSets, ServerSet, FolderInv, Server
  <2> QED
    BY <2>1 DEF BackupsInv, BackupsSets, ServerSet
<1>4. BackupsTypeOK
  BY <1>1, <1>2, <1>3, Zenon DEF BackupsInv, BackupsSets, ThereInv, BackupsTypeOK, SpecSet, ArchiveState
<1>5. FolderOfOne
  BY AtMostOne DEF BackupsInv, FolderInv, FolderOfOne
<1>6. NameFreeIsEmpty
  BY DEF BackupsInv, FolderInv, NameFreeIsEmpty
<1> QED
  BY <1>4, <1>5, <1>6 DEF BackupsSafe

(* However a database is moved, taken down, deployed, deleted and its      *)
(* backups switched, with passes that stop anywhere: no backup folder      *)
(* holds the data of two servers, and a name is free only when its folder  *)
(* is empty (Reconcile, ensureBackupArchive, retireArchive, purge).        *)
THEOREM FoldersAreApart ==
    ASSUME NoBackupIncident PROVE BackupsSpec => []BackupsSafe
<1> DEFINE Inv == BackupsInv /\ ThereInv
<1>1. BackupsInit => Inv
  <2>1. BackupsInit => ThereInv
    BY Zenon DEF BackupsInit, ThereInv, Going
  <2> QED
    BY <2>1, BackupsStart
<1>2. Inv /\ [BackupsNext]_backupVars => Inv'
  <2> SUFFICES ASSUME BackupsInv, ThereInv, [BackupsNext]_backupVars PROVE BackupsInv'
    BY ThereStep
  <2>1. ~dbThere => ~Going
    BY DEF ThereInv
  <2> QED
    BY <2>1, EditsKeep, ServerRunsKeep, AroundKeep, StartsKeep, MovedKeeps, AwaitingKeeps, PlansKeep, ServerKeeps, LifecycleKeeps,
       WindKeeps, ReadyKeeps, FinalKeeps, DeletesKeep, FailsKeep DEF BackupsNext, DatabasePass
<1>3. Inv => BackupsSafe
  BY BackupsAreSafe
<1> HIDE DEF Inv
<1> QED
  BY <1>1, <1>2, <1>3, PTL DEF BackupsSpec

=============================================================================
