--------------------------- MODULE ProjectMaking ---------------------------
(***************************************************************************)
(* How projects are made, imported, given to an organization and deleted   *)
(* by the dashboard (internal/dashboard server.go, project_move.go,        *)
(* orgs.go).  Nothing makes a count or a name atomic, so a request looks,  *)
(* makes its project, looks again and withdraws what it made.              *)
(***************************************************************************)
EXTENDS Naturals, FiniteSets

CONSTANTS
    Maker,         \* requests that make a project, in the order of the ids
    MaxProjects,   \* Spec.MaxProjects of the organization
    Parts,         \* databases, buckets and services of a bundle
    MakingHappens  \* what else may happen, see MakingIncidents

(* lag: a list is read from the cache of the client before it has what     *)
(* was just made; assigned: a project is moved into the organization in    *)
(* the moment another is made there; emptied: the organization is deleted  *)
(* in that moment; second: two projects are made in one second; stops: the *)
(* server stops at work; undeleted: what is withdrawn cannot be deleted;   *)
(* deleted: a project is deleted while its import is at work.              *)
MakingIncidents == {"lag", "assigned", "emptied", "second", "stops", "undeleted", "deleted"}

ASSUME MakingAssumption ==
    /\ Maker \subseteq Nat \ {0} /\ IsFiniteSet(Maker) /\ MaxProjects \in Nat /\ Parts \in Nat
    /\ MakingHappens \subseteq MakingIncidents

VARIABLES
    maker,     \* kind of request, its caller is the platform's, where it is
    projectOf, \* the project a request made: there, since, whether it is in the organization
    partsOf,   \* how many objects of it are there
    second,    \* the time
    orgAt,     \* there, emptying (found without projects), gone
    mover      \* the project of no organization that is assigned: out, checked, in

makingVars == <<maker, projectOf, partsOf, second, orgAt, mover>>

NoProject == [there |-> FALSE, since |-> 0, inOrg |-> FALSE]

MakingInit ==
    /\ \E kinds \in [Maker -> {"create", "import"}], owners \in [Maker -> BOOLEAN] :
          maker = [m \in Maker |-> [kind |-> kinds[m], platform |-> owners[m], at |-> "idle"]]
    /\ projectOf = [m \in Maker |-> NoProject] /\ partsOf = [m \in Maker |-> 0]
    /\ second = 1 /\ orgAt = "there" /\ mover = "out"

MakerAt(m, where) == maker' = [maker EXCEPT ![m].at = where]

(***************************************************************************)
(* checkProjectLimit and projectsIn: the projects of the organization but  *)
(* the one asked about, and one more.  An organization that is gone has no *)
(* limit.                                                                  *)
(***************************************************************************)
AtWork == {n \in Maker : maker[n].at \notin {"idle", "done", "failed"}}
Shown == {S \in SUBSET Maker : \A n \in Maker \ S : n \in AtWork /\ "lag" \in MakingHappens}

projectsIn(S) == Cardinality({n \in S : projectOf[n].there /\ projectOf[n].inOrg}) + IF mover = "in" THEN 1 ELSE 0

checkProjectLimit(S, m) == orgAt # "gone" => projectsIn(S \ {m}) + 1 <= MaxProjects

Unlimited(m) == maker[m].platform

(* importTarget: the names of the projects the caller sees; PlanImport     *)
(* refuses a name that is taken.  All imports here ask for one name.       *)
Namesakes(m, S) == {n \in S \ {m} : projectOf[n].there /\ maker[n].kind = "import" /\ maker[n].platform = maker[m].platform}

PlansAnyName(m) == MakerAt(m, "planned")
PlanImport(m) == \E S \in Shown : MakerAt(m, IF maker[m].kind = "create" \/ Namesakes(m, S) = {} THEN "planned" ELSE "failed")

importTarget(m) ==
    /\ maker[m].at = "idle" /\ (~maker[m].platform => orgAt # "gone") /\ PlanImport(m)
    /\ UNCHANGED <<projectOf, partsOf, second, orgAt, mover>>

FirstLook(m) ==
    /\ maker[m].at = "planned"
    /\ \E S \in Shown : MakerAt(m, IF Unlimited(m) \/ checkProjectLimit(S, m) THEN "checked" ELSE "failed")
    /\ UNCHANGED <<projectOf, partsOf, second, orgAt, mover>>

(* Create, stamped with the caller's organization.  A creation time is in  *)
(* whole seconds.                                                          *)
SameSecond(t) == \E n \in Maker : projectOf[n].since = t
MakesProject(m) ==
    /\ maker[m].at = "checked" /\ MakerAt(m, "made")
    /\ \E t \in {second, second + 1} :
          /\ SameSecond(t) => "second" \in MakingHappens
          /\ second' = t /\ projectOf' = [projectOf EXCEPT ![m] = [there |-> TRUE, since |-> t, inOrg |-> ~maker[m].platform]]
    /\ ~maker[m].platform /\ orgAt # "there" => "emptied" \in MakingHappens
    /\ UNCHANGED <<partsOf, orgAt, mover>>

(* The count again, now that the project exists.                           *)
SecondLook(m) ==
    /\ maker[m].at = "made"
    /\ \E S \in Shown :
          MakerAt(m, IF ~Unlimited(m) /\ ~checkProjectLimit(S, m) THEN "withdraws"
                     ELSE IF maker[m].kind = "create" THEN "done" ELSE "counted")
    /\ UNCHANGED <<projectOf, partsOf, second, orgAt, mover>>

(* A mutant: no import gives way to another.                               *)
NeverEarlier(n, m) == FALSE

(* projectNameRaced: another of the name, made earlier.                    *)
Earlier(n, m) == projectOf[n].since < projectOf[m].since \/ (projectOf[n].since = projectOf[m].since /\ n < m)

projectNameRaced(m) ==
    /\ maker[m].at = "counted"
    /\ \E S \in Shown : MakerAt(m, IF \E n \in Namesakes(m, S) : Earlier(n, m) THEN "withdraws" ELSE "named")
    /\ UNCHANGED <<projectOf, partsOf, second, orgAt, mover>>

(***************************************************************************)
(* createNamed, for each database, bucket and service of the bundle.  The  *)
(* client of an organization refuses an object of a project it does not    *)
(* see; the platform's does not look.  Any of them may fail.               *)
(***************************************************************************)
MoreParts(m) == partsOf[m] < Parts
MayCreateIn(m) == maker[m].platform \/ projectOf[m].there

ImportsPart(m) ==
    /\ maker[m].at = "named"
    /\ \/ MoreParts(m) /\ MayCreateIn(m) /\ partsOf' = [partsOf EXCEPT ![m] = @ + 1] /\ UNCHANGED maker
       \/ MoreParts(m) /\ MakerAt(m, "withdraws") /\ UNCHANGED partsOf
       \/ ~MoreParts(m) /\ MakerAt(m, "done") /\ UNCHANGED partsOf
    /\ UNCHANGED <<projectOf, second, orgAt, mover>>

(* What was made is removed, last first; what cannot be is passed over.    *)
PartsOver(m) == partsOf[m] = 0

Withdraws(m) ==
    /\ maker[m].at = "withdraws"
    /\ \/ ~PartsOver(m) /\ partsOf[m] > 0 /\ partsOf' = [partsOf EXCEPT ![m] = @ - 1] /\ UNCHANGED <<maker, projectOf>>
       \/ /\ PartsOver(m) \/ "undeleted" \in MakingHappens
          /\ \E left \in IF "undeleted" \in MakingHappens THEN BOOLEAN ELSE {FALSE} :
                projectOf' = [projectOf EXCEPT ![m].there = left]
          /\ MakerAt(m, "failed") /\ UNCHANGED partsOf
    /\ UNCHANGED <<second, orgAt, mover>>

MakerStops(m) ==
    /\ m \in AtWork /\ MakerAt(m, "failed") /\ (projectOf[m].there \/ partsOf[m] > 0 => "stops" \in MakingHappens)
    /\ UNCHANGED <<projectOf, partsOf, second, orgAt, mover>>

(* handleProjectDelete: what the project has, then the project.            *)
deleteOwnedProjectResources(m) ==
    /\ projectOf[m].there /\ (m \in AtWork => "deleted" \in MakingHappens)
    /\ partsOf' = [partsOf EXCEPT ![m] = 0] /\ projectOf' = [projectOf EXCEPT ![m].there = FALSE]
    /\ UNCHANGED <<maker, second, orgAt, mover>>

(***************************************************************************)
(* handleOrgDelete and handleProjectAssign look, and then write.           *)
(***************************************************************************)
OrgAnyway == TRUE
OrgEmpty == projectsIn(Maker) = 0
OrgAtWork == mover = "checked" \/ \E m \in AtWork : ~maker[m].platform

handleOrgDelete ==
    /\ \/ orgAt = "there" /\ OrgEmpty /\ orgAt' = "emptying"
       \/ orgAt = "emptying" /\ orgAt' = "there"
       \/ orgAt = "emptying" /\ orgAt' = "gone"
          /\ (OrgAtWork \/ ~OrgEmpty => "emptied" \in MakingHappens)
    /\ UNCHANGED <<maker, projectOf, partsOf, second, mover>>

AssignLook == orgAt # "gone" /\ checkProjectLimit(Maker, 0)
handleProjectAssign ==
    /\ \/ mover = "out" /\ AssignLook /\ mover' = "checked"
       \/ mover = "checked" /\ mover' = "out"
       \/ mover = "checked" /\ mover' = "in" /\ (orgAt # "there" => "emptied" \in MakingHappens)
          /\ (AtWork # {} \/ ~checkProjectLimit(Maker, 0) => "assigned" \in MakingHappens)
       \/ mover = "in" /\ mover' = "out"
    /\ UNCHANGED <<maker, projectOf, partsOf, second, orgAt>>

MakingNext ==
    \/ \E m \in Maker : \/ importTarget(m) \/ FirstLook(m) \/ MakesProject(m) \/ SecondLook(m) \/ projectNameRaced(m)
                        \/ ImportsPart(m) \/ Withdraws(m) \/ MakerStops(m) \/ deleteOwnedProjectResources(m)
    \/ handleOrgDelete \/ handleProjectAssign

MakingSpec == MakingInit /\ [][MakingNext]_makingVars
-----------------------------------------------------------------------------
(* Types; and a request that has not made its project has made nothing.    *)
MakingTypeOK ==
    /\ maker \in [Maker -> [kind : {"create", "import"}, platform : BOOLEAN,
                            at : {"idle", "planned", "checked", "made", "counted", "named", "withdraws", "done", "failed"}]]
    /\ projectOf \in [Maker -> [there : BOOLEAN, since : Nat, inOrg : BOOLEAN]]
    /\ partsOf \in [Maker -> 0 .. Parts] /\ second \in Nat \ {0}
    /\ orgAt \in {"there", "emptying", "gone"} /\ mover \in {"out", "checked", "in"}
    /\ \A m \in Maker : maker[m].at \in {"idle", "planned", "checked"} => projectOf[m] = NoProject /\ partsOf[m] = 0

(* "whichever finds the organization over its limit withdraws its own"     *)
(* (createProjectIn, importProject): no more projects than the limit have  *)
(* been counted and kept, however many were made at the same moment.       *)
Kept(m) == projectOf[m].there /\ maker[m].at \in {"counted", "named", "done"}
LimitHolds == orgAt # "gone" => Cardinality({m \in Maker : Kept(m) /\ projectOf[m].inOrg}) <= MaxProjects

(* The same of all projects, the one that was assigned too.                *)
LimitHoldsForAll ==
    orgAt # "gone" =>
        Cardinality({m \in Maker : Kept(m) /\ projectOf[m].inOrg}) + (IF mover = "in" THEN 1 ELSE 0) <= MaxProjects

(* "two imports at the same moment can both pass the check that came       *)
(* first, so whichever finds an earlier one withdraws" (projectNameRaced): *)
(* no caller is left with two projects of one name.                        *)
Named(m) == maker[m].kind = "import" /\ projectOf[m].there /\ maker[m].at \in {"named", "done"}
OneName == \A m, n \in Maker : Named(m) /\ Named(n) /\ maker[m].platform = maker[n].platform => m = n

(* "a refused import leaves nothing behind" (importProject), and a project *)
(* that is gone leaves nothing either.                                     *)
NothingOfIt == \A m \in Maker : /\ maker[m].at = "failed" => ~projectOf[m].there
                                /\ ~projectOf[m].there /\ maker[m].at \in {"done", "failed"} => partsOf[m] = 0

(* Projects that are created and imported at the same moment               *)
(* (createProjectIn, importProject): the limit and the name hold, and what *)
(* was refused leaves nothing.                                             *)
MakingSafe == MakingTypeOK /\ LimitHolds /\ OneName /\ NothingOfIt

(* An organization is deleted when it has no projects (handleOrgDelete):   *)
(* no project is left with an organization that is gone, where only the    *)
(* platform would see it.                                                  *)
NoProjectOfNoOrg == orgAt = "gone" => projectsIn(Maker) = 0
=============================================================================
