--------------------------- MODULE ClusterProofs ---------------------------
(***************************************************************************)
(* Proofs about what the operator does with machines and services, for any *)
(* number of them: the K3s upgrade keeps its order and the cordons of      *)
(* others, a recovery keeps the data and the pods that run, and a rollout  *)
(* lets sleep and tells only what ran.                                     *)
(***************************************************************************)
EXTENDS K3sUpgrade, LostNode, AppRollout,
        FiniteSetTheorems, SequenceTheorems, WellFoundedInduction, TLAPS

(***************************************************************************)
(* The K3s upgrade.                                                        *)
(***************************************************************************)

(* Nobody cordons or uncordons the node at work, and the cache of nodes    *)
(* has the operator's own cordons.                                         *)
NoUpgradeIncident == UpgradeHappens = {}

(* What a pass may still have to do.                                       *)
Plans == {<<>>, <<"release">>, <<"uncordon">>, <<"write">>, <<"start">>, <<"advance">>,
          <<"release", "write">>, <<"uncordon", "write">>,
          <<"release", "advance">>, <<"uncordon", "advance">>, <<"drop", "advance">>,
          <<"release", "drop", "advance">>, <<"uncordon", "drop", "advance">>,
          <<"start", "drop", "advance">>,
          <<"forget", "start">>, <<"cordon", "start">>, <<"ssh", "write">>}

(* The plans that end in a call of advance.                                *)
Advancing == {<<"advance">>, <<"drop", "advance">>, <<"release", "advance">>, <<"uncordon", "advance">>,
              <<"release", "drop", "advance">>, <<"uncordon", "drop", "advance">>,
              <<"start", "drop", "advance">>}

(* The next call is c.                                                     *)
Next1(c) == calls # <<>> /\ Head(calls) = c

(* The pass lets its node go.                                              *)
Freeing == Next1("release") \/ Next1("uncordon")

(* Only the node of the status is ever cordoned, and the status leaves     *)
(* that node only once it is not.                                          *)
NodeInv ==
    /\ calls \in Plans
    /\ work.node = 0 => work.step = ""
    /\ ours \subseteq {upgrade.node}
    /\ Freeing => calls \in {<<"release">>, <<"uncordon">>} \/ work.node = 0
    /\ (Next1("uncordon") /\ ours # {}) => seen.marked /\ seen.cordoned
    /\ (calls # <<>> /\ ~Freeing) => ours \subseteq {work.node}
    /\ (calls \in Advancing /\ ~Freeing) => work.node \in {0, upgrade.node}
    /\ (Next1("cordon") \/ Next1("ssh")) => work.node # 0 /\ work.node = upgrade.node
    /\ (calls \in Advancing /\ Next1("start")) => work.node = upgrade.node
    /\ Next1("forget") => ours = {} /\ work.node # 0

(* The mark is on the node that is cordoned for the upgrade, which is not  *)
(* one that somebody else has cordoned.                                    *)
CordonInv ==
    /\ known = TRUE
    /\ marked = ours /\ ours \subseteq unschedulable /\ theirs \subseteq unschedulable
    /\ ours \intersect theirs = {}
    /\ (Next1("uncordon") /\ seen.marked) => upgrade.node \notin theirs
    /\ (Next1("cordon") /\ ~seen.cordoned) => work.node \notin unschedulable

(* What is installed is a release the control plane has.                   *)
AheadInv ==
    /\ NoAgentAhead
    /\ calls \in Advancing => seen.want \in Release
    /\ Next1("ssh") => seen.want \in Release /\ seen.want <= control

(* The types, the flags apart.                                             *)
FlagsInv == retry \in BOOLEAN /\ going \in BOOLEAN /\ known \in BOOLEAN /\ overdue \in BOOLEAN
TypesInv ==
    /\ want \in Wanted /\ control \in Release
    /\ managed \subseteq present /\ present \subseteq Worker
    /\ installed \in [Worker -> Release]
    /\ unschedulable \subseteq present /\ marked \subseteq present
    /\ theirs \subseteq present /\ ours \subseteq present
    /\ upgrade \in Upgrades /\ work \in Upgrades
    /\ upgrade.node = 0 => upgrade.step = ""
    /\ seen \in [want : Wanted, cordoned : BOOLEAN, marked : BOOLEAN]

UpgradeInv == FlagsInv /\ TypesInv /\ NodeInv /\ CordonInv /\ AheadInv

-----------------------------------------------------------------------------
(* What the first call of a plan is, and what is left after it.            *)
LEMMA One == ASSUME NEW a PROVE <<a>> # <<>> /\ Head(<<a>>) = a /\ Tail(<<a>>) = <<>> /\ Len(<<a>>) = 1
  OBVIOUS

LEMMA Two == ASSUME NEW a, NEW b
             PROVE  <<a, b>> # <<>> /\ Head(<<a, b>>) = a /\ Tail(<<a, b>>) = <<b>> /\ Len(<<a, b>>) = 2
  OBVIOUS

LEMMA Three == ASSUME NEW a, NEW b, NEW c
               PROVE  <<a, b, c>> # <<>> /\ Head(<<a, b, c>>) = a /\ Tail(<<a, b, c>>) = <<b, c>> /\ Len(<<a, b, c>>) = 3
  OBVIOUS

(* What a sequence with one more in front is.                              *)
LEMMA Prepend == ASSUME NEW S, NEW a \in S, NEW t \in Seq(S), NEW w \in Seq(S), Len(w) = Len(t) + 1, w[1] = a, \A i \in 1 .. Len(t) : w[i+1] = t[i]
 PROVE <<a>> \o t = w
<1> DEFINE u == <<a>>
<1>1. u \in Seq(S) /\ Len(u) = 1 /\ u[1] = a
 OBVIOUS
<1> HIDE DEF u
<1>2. /\ u \o t \in Seq(S) /\ Len(u \o t) = Len(u) + Len(t)
      /\ \A i \in 1 .. Len(u) + Len(t) : (u \o t)[i] = IF i <= Len(u) THEN u[i] ELSE t[i - Len(u)]
  BY <1>1, ConcatProperties
<1>3. Len(t) \in Nat
  OBVIOUS
<1>4. \A i \in 1 .. Len(t) + 1 : (u \o t)[i] = w[i]
  <2> TAKE i \in 1 .. Len(t) + 1
  <2>1. CASE i = 1
    BY <2>1, <1>1, <1>2, <1>3
  <2>2. CASE i > 1
    <3>1. (u \o t)[i] = t[i - 1]
      BY <2>2, <1>1, <1>2, <1>3
    <3>2. i - 1 \in 1 .. Len(t) /\ (i - 1) + 1 = i
      BY <2>2, <1>3
    <3> QED BY <3>1, <3>2
  <2>3. i = 1 \/ i > 1
    BY <1>3
  <2> QED BY <2>1, <2>2, <2>3
<1>5. u \o t = w
  BY <1>1, <1>2, <1>3, <1>4, SeqEqual
<1> QED  BY <1>5 DEF u
LEMMA Join ==
  ASSUME NEW S, NEW a \in S, NEW b \in S, NEW c \in S
  PROVE  /\ <<a>> \o <<>> = <<a>> /\ <<a>> \o <<b>> = <<a, b>>
         /\ <<a>> \o <<b, c>> = <<a, b, c>>
<1>1. <<a>> \o <<>> = <<a>>
  BY Prepend
<1>2. <<a>> \o <<b>> = <<a, b>>
  <2> DEFINE t == <<b>> w == <<a, b>>
  <2>1. t \in Seq(S) /\ w \in Seq(S) /\ Len(t) = 1 /\ Len(w) = 2 /\ w[1] = a /\ w[2] = t[1]
    OBVIOUS
  <2> HIDE DEF t, w
  <2>2. Len(w) = Len(t) + 1 /\ \A i \in 1 .. Len(t) : w[i + 1] = t[i]
    BY <2>1
  <2>3. <<a>> \o t = w
    BY <2>1, <2>2, Prepend
  <2> QED BY <2>3 DEF t, w
<1>3. <<a>> \o <<b, c>> = <<a, b, c>>
  <2> DEFINE t == <<b, c>> w == <<a, b, c>>
  <2>1. t \in Seq(S) /\ w \in Seq(S) /\ Len(t) = 2 /\ Len(w) = 3 /\ w[1] = a /\ w[2] = t[1] /\ w[3] = t[2]
    OBVIOUS
  <2> HIDE DEF t, w
  <2>2. Len(w) = Len(t) + 1 /\ \A i \in 1 .. Len(t) : w[i + 1] = t[i]
    BY <2>1
  <2>3. <<a>> \o t = w
    BY <2>1, <2>2, Prepend
  <2> QED BY <2>3 DEF t, w
<1> QED BY <1>1, <1>2, <1>3

(* A set of workers has a first one.                                       *)
LEMMA FirstIsOne == ASSUME NEW s, s \subseteq Worker, s # {} PROVE First(s) \in s
<1> DEFINE L == {ss \in Nat \X Nat : ss[1] < ss[2]}
<1>1. IsWellFoundedOn(L, Nat)
  BY NatLessThanWellFounded, Zenon DEF OpToRel
<1>2. \A x, y \in Nat : <<y, x>> \notin L => x <= y
  <2> SUFFICES ASSUME NEW x \in Nat, NEW y \in Nat, y < x PROVE <<y, x>> \in L
    OBVIOUS
  <2> QED OBVIOUS
<1>3. s \subseteq Nat
  BY UpgradeAssumption
<1> HIDE DEF L
<1>4. \E x \in s : \A y \in s : ~ (<<y, x>> \in L)
  BY <1>1, <1>3, WFMin, Zenon
<1>5. \E x \in s : \A y \in s : x <= y
  BY <1>2, <1>3, <1>4
<1> QED
  BY <1>5 DEF First

LEMMA Releases ==
    /\ 1 \in Release /\ 0 \in Wanted /\ NotARelease \in Wanted /\ Requests \subseteq Wanted
    /\ \A r \in Release : r \in Nat /\ 1 <= r /\ r \in Wanted
    /\ \A v \in Wanted : v \in Nat
    /\ \A v \in Wanted : v \in Release \/ v = 0 \/ v = NotARelease
    /\ \A r \in Release : \A v \in r + 1 .. MaxRelease : v \in Release /\ r <= v
    /\ 0 \notin Worker
  BY UpgradeAssumption DEF Release, Wanted, NotARelease

(* What the cache says of a node while it has every cordon.                *)
LEMMA SawKnown ==
    ASSUME known = TRUE, NEW n
    PROVE  /\ Saw(n).want = seen.want
           /\ Saw(n).cordoned <=> n \in unschedulable
           /\ Saw(n).marked <=> n \in marked
           /\ seen.want \in Wanted => Saw(n) \in [want : Wanted, cordoned : BOOLEAN, marked : BOOLEAN]
<1> DEFINE c == n \in unschedulable /\ (known \/ n # upgrade.node)
           m == n \in marked /\ (known \/ n # upgrade.node)
<1>1. c \in BOOLEAN /\ m \in BOOLEAN
  OBVIOUS
<1>2. (c <=> n \in unschedulable) /\ (m <=> n \in marked)
  BY Zenon
<1>3. Saw(n) = [want |-> seen.want, cordoned |-> c, marked |-> m]
  BY DEF Saw
<1> HIDE DEF c, m
<1>4. Saw(n).want = seen.want /\ Saw(n).cordoned = c /\ Saw(n).marked = m
  BY <1>3
<1>5. seen.want \in Wanted => Saw(n) \in [want : Wanted, cordoned : BOOLEAN, marked : BOOLEAN]
  BY <1>1, <1>3
<1> QED
  BY <1>2, <1>4, <1>5, Zenon

LEMMA Uncordons ==
    /\ <<"uncordon">> \o <<>> = <<"uncordon">>
    /\ <<"uncordon">> \o <<"write">> = <<"uncordon", "write">>
    /\ <<"uncordon">> \o <<"advance">> = <<"uncordon", "advance">>
    /\ <<"uncordon">> \o <<"drop", "advance">> = <<"uncordon", "drop", "advance">>
<1>1. "uncordon" \in Calls /\ "write" \in Calls /\ "drop" \in Calls /\ "advance" \in Calls
  BY DEF Calls
<1> QED
  BY <1>1, Join, Zenon

LEMMA Releasing ==
    /\ <<"release">> \o <<>> = <<"release">>
    /\ <<"release">> \o <<"write">> = <<"release", "write">>
    /\ <<"release">> \o <<"advance">> = <<"release", "advance">>
    /\ <<"release">> \o <<"drop", "advance">> = <<"release", "drop", "advance">>
    /\ <<>> \o <<>> = <<>> /\ <<>> \o <<"write">> = <<"write">>
    /\ <<>> \o <<"advance">> = <<"advance">> /\ <<>> \o <<"drop", "advance">> = <<"drop", "advance">>
    /\ <<>> \o <<"start", "drop", "advance">> = <<"start", "drop", "advance">>
<1>1. "release" \in Calls /\ "write" \in Calls /\ "drop" \in Calls /\ "advance" \in Calls /\ "start" \in Calls
  BY DEF Calls
<1>2. /\ <<>> \in Seq(Calls) /\ <<"write">> \in Seq(Calls) /\ <<"advance">> \in Seq(Calls)
      /\ <<"drop", "advance">> \in Seq(Calls) /\ <<"start", "drop", "advance">> \in Seq(Calls)
  BY <1>1
<1>3. \A t \in Seq(Calls) : <<>> \o t = t
  BY ConcatEmptySeq
<1>4. /\ <<>> \o <<>> = <<>> /\ <<>> \o <<"write">> = <<"write">>
      /\ <<>> \o <<"advance">> = <<"advance">> /\ <<>> \o <<"drop", "advance">> = <<"drop", "advance">>
      /\ <<>> \o <<"start", "drop", "advance">> = <<"start", "drop", "advance">>
  BY <1>2, <1>3, Zenon
<1> QED
  BY <1>1, <1>4, Join, Zenon

(* Every plan, and what is left of it once its first call is made.         *)
LEMMA PlanParts ==
    ASSUME NEW c \in Plans
    PROVE  /\ c \in Seq(Calls)
           /\ c # <<>> => /\ Tail(c) \in Plans /\ Len(c) \in 1 .. 3
                          /\ Len(c) = 1 <=> Tail(c) = <<>>
           /\ (c # <<>> /\ Head(c) = "release") =>
                 \/ c = <<"release">> /\ Tail(c) = <<>>
                 \/ c = <<"release", "write">> /\ Tail(c) = <<"write">>
                 \/ c = <<"release", "advance">> /\ Tail(c) = <<"advance">>
                 \/ c = <<"release", "drop", "advance">> /\ Tail(c) = <<"drop", "advance">>
           /\ (c # <<>> /\ Head(c) = "uncordon") =>
                 \/ c = <<"uncordon">> /\ Tail(c) = <<>>
                 \/ c = <<"uncordon", "write">> /\ Tail(c) = <<"write">>
                 \/ c = <<"uncordon", "advance">> /\ Tail(c) = <<"advance">>
                 \/ c = <<"uncordon", "drop", "advance">> /\ Tail(c) = <<"drop", "advance">>
           /\ (c # <<>> /\ Head(c) = "forget") => c = <<"forget", "start">> /\ Tail(c) = <<"start">>
           /\ (c # <<>> /\ Head(c) = "cordon") => c = <<"cordon", "start">> /\ Tail(c) = <<"start">>
           /\ (c # <<>> /\ Head(c) = "ssh") => c = <<"ssh", "write">> /\ Tail(c) = <<"write">>
           /\ (c # <<>> /\ Head(c) = "write") => c = <<"write">> /\ Tail(c) = <<>>
           /\ (c # <<>> /\ Head(c) = "start") =>
                 \/ c = <<"start">> /\ Tail(c) = <<>>
                 \/ c = <<"start", "drop", "advance">> /\ Tail(c) = <<"drop", "advance">>
           /\ (c # <<>> /\ Head(c) = "drop") => c = <<"drop", "advance">> /\ Tail(c) = <<"advance">>
           /\ (c # <<>> /\ Head(c) = "advance") => c = <<"advance">> /\ Tail(c) = <<>>
<1>0. CASE c = <<>>
  BY <1>0 DEF Calls
<1>1. CASE c = <<"release">>
  BY <1>1, One DEF Plans, Calls
<1>2. CASE c = <<"uncordon">>
  BY <1>2, One DEF Plans, Calls
<1>3. CASE c = <<"write">>
  BY <1>3, One DEF Plans, Calls
<1>4. CASE c = <<"start">>
  BY <1>4, One DEF Plans, Calls
<1>5. CASE c = <<"advance">>
  BY <1>5, One DEF Plans, Calls
<1>6. CASE c = <<"release", "write">>
  BY <1>6, Two DEF Plans, Calls
<1>7. CASE c = <<"uncordon", "write">>
  BY <1>7, Two DEF Plans, Calls
<1>8. CASE c = <<"release", "advance">>
  BY <1>8, Two DEF Plans, Calls
<1>9. CASE c = <<"uncordon", "advance">>
  BY <1>9, Two DEF Plans, Calls
<1>10. CASE c = <<"drop", "advance">>
  BY <1>10, Two DEF Plans, Calls
<1>11. CASE c = <<"release", "drop", "advance">>
  BY <1>11, Three DEF Plans, Calls
<1>12. CASE c = <<"uncordon", "drop", "advance">>
  BY <1>12, Three DEF Plans, Calls
<1>13. CASE c = <<"start", "drop", "advance">>
  BY <1>13, Three DEF Plans, Calls
<1>14. CASE c = <<"forget", "start">>
  BY <1>14, Two DEF Plans, Calls
<1>15. CASE c = <<"cordon", "start">>
  BY <1>15, Two DEF Plans, Calls
<1>16. CASE c = <<"ssh", "write">>
  BY <1>16, Two DEF Plans, Calls
<1> QED
  BY <1>0, <1>1, <1>2, <1>3, <1>4, <1>5, <1>6, <1>7, <1>8, <1>9, <1>10, <1>11, <1>12, <1>13, <1>14, <1>15, <1>16 DEF Plans

-----------------------------------------------------------------------------
LEMMA UpgradeStart == UpgradeInit => UpgradeInv
<1> SUFFICES ASSUME UpgradeInit PROVE UpgradeInv
  OBVIOUS
<1> USE Releases DEF UpgradeInit
<1>1. FlagsInv
  BY DEF FlagsInv
<1>2. TypesInv
  BY DEF TypesInv, NoUpgrade, Upgrades, Phases, NothingSeen
<1>3. NodeInv
  BY DEF NodeInv, Plans, Next1, Freeing, NoUpgrade
<1>4. CordonInv
  BY DEF CordonInv, Next1
<1>5. AheadInv
  BY DEF AheadInv, Advancing, Next1, NoAgentAhead
<1> QED
  BY <1>1, <1>2, <1>3, <1>4, <1>5 DEF UpgradeInv

(* What the users, the control plane and the nodes do.                     *)
LEMMA UpgradeWorldStep ==
    ASSUME NoUpgradeIncident, UpgradeInv,
           \/ UNCHANGED upgradeVars \/ AskUpgrade \/ ControlMoves \/ CacheCatchesUp \/ TimeLimit
           \/ \E n \in Worker : WorkerLeaves(n) \/ SomeoneCordons(n) \/ SomeoneUncordons(n)
    PROVE  UpgradeInv'
<1> USE Releases DEF UpgradeInv, request, upgradePass, nodeState, cordons
<1>1. CASE UNCHANGED upgradeVars
  <2>1. FlagsInv'
    BY <1>1 DEF upgradeVars, FlagsInv
  <2>2. TypesInv' /\ NodeInv'
    BY <1>1 DEF upgradeVars, TypesInv, NodeInv, Next1, Freeing
  <2>3. CordonInv' /\ AheadInv'
    BY <1>1 DEF upgradeVars, CordonInv, AheadInv, Advancing, Next1, NoAgentAhead
  <2> QED
    BY <2>1, <2>2, <2>3
<1>2. CASE AskUpgrade
  <2>1. FlagsInv'
    BY <1>2 DEF AskUpgrade, FlagsInv
  <2>2. TypesInv'
    BY <1>2 DEF AskUpgrade, TypesInv
  <2> QED
    BY <1>2, <2>1, <2>2 DEF AskUpgrade, NodeInv, CordonInv, AheadInv, Advancing, Next1, Freeing, NoAgentAhead
<1>3. CASE ControlMoves
  <2>1. FlagsInv'
    BY <1>3 DEF ControlMoves, FlagsInv
  <2>2. control' >= control /\ control \in Nat /\ control' \in Release
    BY <1>3 DEF ControlMoves, TypesInv
  <2>3. TypesInv'
    BY <1>3, <2>2 DEF ControlMoves, TypesInv
  <2>4. AheadInv'
    <3>1. NoAgentAhead'
      <4> SUFFICES ASSUME NEW n \in present PROVE installed[n] <= control'
        BY <1>3 DEF ControlMoves, NoAgentAhead
      <4>1. installed[n] \in Nat /\ installed[n] <= control /\ control' \in Nat
        BY <2>2 DEF TypesInv, AheadInv, Advancing, NoAgentAhead
      <4> QED
        BY <2>2, <4>1
    <3>2. Next1("ssh")' => seen'.want \in Release /\ seen'.want <= control'
      <4> SUFFICES ASSUME Next1("ssh") PROVE seen.want \in Release /\ seen.want <= control'
        BY <1>3 DEF ControlMoves, Next1
      <4>1. seen.want \in Release /\ seen.want \in Nat /\ seen.want <= control /\ control' \in Nat
        BY <2>2 DEF AheadInv
      <4> QED
        BY <2>2, <4>1
    <3> QED
      BY <1>3, <3>1, <3>2 DEF ControlMoves, AheadInv
  <2> QED
    BY <1>3, <2>1, <2>3, <2>4 DEF ControlMoves, NodeInv, CordonInv, Next1, Freeing
<1>4. CASE CacheCatchesUp
  BY <1>4 DEF CacheCatchesUp, CordonInv
<1>5. CASE TimeLimit
  <2>1. FlagsInv'
    BY <1>5 DEF TimeLimit, FlagsInv
  <2> QED
    BY <1>5, <2>1 DEF TimeLimit, TypesInv, NodeInv, CordonInv, AheadInv, Advancing, Next1, Freeing, NoAgentAhead
<1>6. ASSUME NEW n \in Worker, WorkerLeaves(n) PROVE UpgradeInv'
  <2>1. FlagsInv'
    BY <1>6 DEF WorkerLeaves, FlagsInv
  <2>2. TypesInv'
    BY <1>6 DEF WorkerLeaves, TypesInv
  <2>3. NodeInv'
    BY <1>6 DEF WorkerLeaves, NodeInv, Next1, Freeing
  <2>4. CordonInv'
    BY <1>6 DEF WorkerLeaves, CordonInv, Next1
  <2>5. AheadInv'
    BY <1>6 DEF WorkerLeaves, AheadInv, Advancing, NoAgentAhead, Next1, TypesInv
  <2> QED
    BY <2>1, <2>2, <2>3, <2>4, <2>5
<1>7. ASSUME NEW n \in Worker, SomeoneCordons(n) PROVE UpgradeInv'
  <2>1. FlagsInv'
    BY <1>7 DEF SomeoneCordons, FlagsInv
  <2>2. TypesInv'
    BY <1>7 DEF SomeoneCordons, TypesInv
  <2>3. NodeInv' /\ AheadInv'
    BY <1>7 DEF SomeoneCordons, NodeInv, AheadInv, Advancing, NoAgentAhead, Next1, Freeing
  <2>4. CordonInv'
    BY <1>7 DEF SomeoneCordons, WorkedOn, CordonInv, NodeInv, Next1, NoUpgradeIncident
  <2> QED
    BY <2>1, <2>2, <2>3, <2>4
<1>8. ASSUME NEW n \in Worker, SomeoneUncordons(n) PROVE UpgradeInv'
  <2>1. FlagsInv'
    BY <1>8 DEF SomeoneUncordons, FlagsInv
  <2>2. TypesInv'
    BY <1>8 DEF SomeoneUncordons, TypesInv
  <2>3. n \notin ours
    BY <1>8 DEF SomeoneUncordons, WorkedOn, CordonInv, NodeInv, NoUpgradeIncident
  <2>4. NodeInv' /\ AheadInv'
    BY <1>8 DEF SomeoneUncordons, NodeInv, AheadInv, Advancing, NoAgentAhead, Next1, Freeing
  <2>5. CordonInv'
    BY <1>8, <2>3 DEF SomeoneUncordons, CordonInv, Next1
  <2> QED
    BY <2>1, <2>2, <2>4, <2>5
<1> QED
  BY <1>1, <1>2, <1>3, <1>4, <1>5, <1>6, <1>7, <1>8

(* The calls that let a node go, cordon one or replace its K3s.            *)
LEMMA UpgradeNodeStep ==
    ASSUME NoUpgradeIncident, UpgradeInv,
           releaseNode \/ uncordon \/ forgetCordon \/ cordon \/ upgradeOverSSH
    PROVE  UpgradeInv'
<1> USE Releases, One, Two, Three DEF UpgradeInv, world, request, nodeState, cordons
<1>0. /\ calls \in Plans /\ upgrade \in Upgrades /\ work \in Upgrades
      /\ seen \in [want : Wanted, cordoned : BOOLEAN, marked : BOOLEAN]
      /\ NoUpgrade \in Upgrades /\ NoUpgrade.node = 0 /\ NoUpgrade.step = ""
      /\ NothingSeen \in [want : Wanted, cordoned : BOOLEAN, marked : BOOLEAN]
  BY DEF NodeInv, TypesInv, NoUpgrade, Upgrades, Phases, NothingSeen
<1>1. CASE releaseNode
  <2>1. FlagsInv'
    BY <1>1 DEF releaseNode, FlagsInv
  <2>2. calls # <<>> /\ Head(calls) = "release"
    BY <1>1 DEF releaseNode
  <2>3. /\ calls' = <<"uncordon">> \o Tail(calls) /\ seen' = Saw(upgrade.node)
        /\ UNCHANGED <<want, control, managed, present, installed, unschedulable, marked, known, theirs, ours, upgrade, work>>
    BY <1>1 DEF releaseNode
  <2>4. \/ calls = <<"release">> /\ calls' = <<"uncordon">>
        \/ calls = <<"release", "write">> /\ calls' = <<"uncordon", "write">>
        \/ calls = <<"release", "advance">> /\ calls' = <<"uncordon", "advance">>
        \/ calls = <<"release", "drop", "advance">> /\ calls' = <<"uncordon", "drop", "advance">>
    BY <1>0, <2>2, <2>3, PlanParts, Uncordons
  <2>5. /\ seen'.want = seen.want /\ seen' \in [want : Wanted, cordoned : BOOLEAN, marked : BOOLEAN]
        /\ seen'.cordoned <=> upgrade.node \in unschedulable
        /\ seen'.marked <=> upgrade.node \in marked
    <3>1. known = TRUE /\ seen.want \in Wanted /\ seen' = Saw(upgrade.node)
      BY <1>0, <2>3 DEF CordonInv
    <3> QED
      BY <3>1, SawKnown
  <2>6. TypesInv'
    BY <2>3, <2>5 DEF TypesInv
  <2>7. NodeInv'
    <3>1. /\ calls' \in Plans /\ calls' # <<>> /\ Head(calls') = "uncordon"
          /\ calls' # <<"start", "drop", "advance">>
      BY <2>4 DEF Plans
    <3>2. calls = <<"release">> \/ work.node = 0
      BY <2>2, <2>4 DEF NodeInv, Next1, Freeing
    <3>3. calls = <<"release">> => calls' = <<"uncordon">>
      BY <2>4
    <3>4. ours # {} => seen'.marked /\ seen'.cordoned
      BY <2>5 DEF NodeInv, CordonInv
    <3> QED
      BY <2>3, <3>1, <3>2, <3>3, <3>4 DEF NodeInv, Next1, Freeing
  <2>8. CordonInv'
    BY <2>2, <2>3, <2>4, <2>5 DEF CordonInv, Next1
  <2>9. AheadInv'
    BY <2>2, <2>3, <2>4, <2>5 DEF AheadInv, Advancing, Next1, NoAgentAhead
  <2> QED
    BY <2>1, <2>6, <2>7, <2>8, <2>9
<1>2. CASE uncordon
  <2>1. FlagsInv'
    BY <1>2 DEF uncordon, FlagsInv
  <2>2. calls # <<>> /\ Head(calls) = "uncordon"
    BY <1>2 DEF uncordon
  <2>3. /\ calls' = Tail(calls)
        /\ Tail(calls) = <<>> => seen' = NothingSeen /\ work' = NoUpgrade
        /\ Tail(calls) # <<>> => UNCHANGED <<seen, work>>
        /\ UNCHANGED <<want, control, managed, present, installed, known, theirs, upgrade>>
    <3>1. NextCall /\ UNCHANGED <<world, known, theirs, upgrade>>
      BY <1>2 DEF uncordon
    <3>2. Len(calls) = 1 <=> Tail(calls) = <<>>
      BY <1>0, <2>2, PlanParts
    <3> QED
      BY <3>1, <3>2 DEF NextCall
  <2>4. \/ calls = <<"uncordon">> /\ calls' = <<>>
        \/ calls = <<"uncordon", "write">> /\ calls' = <<"write">>
        \/ calls = <<"uncordon", "advance">> /\ calls' = <<"advance">>
        \/ calls = <<"uncordon", "drop", "advance">> /\ calls' = <<"drop", "advance">>
    BY <1>0, <2>2, <2>3, PlanParts
  <2>5. \/ /\ unschedulable' \in {unschedulable, unschedulable \ {upgrade.node}}
           /\ seen.marked = TRUE /\ ours' = {} /\ marked' = {}
        \/ ours = {} /\ seen.marked = FALSE /\ UNCHANGED <<unschedulable, ours, marked>>
    <3>1. CASE seen.marked = TRUE
      <4>1. /\ unschedulable' \in {unschedulable, unschedulable \ {upgrade.node}}
            /\ marked' = marked \ {upgrade.node} /\ ours' \in {ours, ours \ {upgrade.node}}
            /\ seen.cordoned => ours' = ours \ {upgrade.node}
        BY <1>2, <3>1 DEF uncordon
      <4>2. ours \subseteq {upgrade.node} /\ marked = ours /\ (ours # {} => seen.cordoned)
        BY <2>2 DEF NodeInv, CordonInv, Next1
      <4> QED
        BY <3>1, <4>1, <4>2
    <3>2. CASE seen.marked = FALSE
      <4>1. UNCHANGED <<unschedulable, ours, marked>>
        BY <1>2, <3>2 DEF uncordon
      <4>2. ours = {}
        BY <2>2, <3>2 DEF NodeInv, Next1
      <4> QED
        BY <3>2, <4>1, <4>2
    <3> QED
      BY <1>0, <3>1, <3>2
  <2>6. TypesInv'
    BY <1>0, <2>3, <2>4, <2>5 DEF TypesInv
  <2>7. NodeInv'
    <3>1. calls' \in Plans /\ ours' = {}
      BY <2>4, <2>5 DEF Plans
    <3>2. work'.node = 0 /\ work'.step = ""
      <4>1. CASE calls' = <<>>
        BY <1>0, <2>3, <4>1
      <4>2. CASE calls' # <<>>
        <5>1. calls \notin {<<"release">>, <<"uncordon">>} /\ work' = work
          BY <2>3, <2>4, <4>2
        <5> QED
          BY <2>2, <5>1 DEF NodeInv, Next1, Freeing
      <4> QED
        BY <4>1, <4>2
    <3>3. calls' # <<>> => Head(calls') \in {"write", "advance", "drop"}
      BY <2>4
    <3>4. calls' # <<"start", "drop", "advance">>
      BY <2>4
    <3> QED
      BY <3>1, <3>2, <3>3, <3>4 DEF NodeInv, Next1, Freeing
  <2>8. CordonInv'
    <3>1. calls' # <<>> => Head(calls') \in {"write", "advance", "drop"}
      BY <2>4
    <3>2. theirs' \subseteq unschedulable'
      BY <2>2, <2>3, <2>5 DEF CordonInv, Next1
    <3>3. ours' = {} /\ marked' = {}
      BY <2>5 DEF CordonInv
    <3> QED
      BY <2>3, <3>1, <3>2, <3>3 DEF CordonInv, Next1
  <2>9. AheadInv'
    BY <2>2, <2>3, <2>4, <2>5 DEF AheadInv, Advancing, Next1, NoAgentAhead
  <2> QED
    BY <2>1, <2>6, <2>7, <2>8, <2>9
<1>3. CASE forgetCordon
  <2>1. FlagsInv'
    BY <1>3 DEF forgetCordon, FlagsInv
  <2>2. calls = <<"forget", "start">> /\ Tail(calls) = <<"start">> /\ Next1("forget")
    BY <1>0, <1>3, PlanParts DEF forgetCordon, Next1
  <2>3. /\ calls' = <<"start">> /\ UNCHANGED <<seen, work>>
        /\ UNCHANGED <<want, control, managed, present, installed, unschedulable, known, theirs, ours, upgrade>>
    BY <1>3, <2>2 DEF forgetCordon, NextCall
  <2>4. ours = {} /\ marked = {} /\ marked' = {}
    BY <1>3, <2>2 DEF forgetCordon, NodeInv, CordonInv
  <2>5. TypesInv' /\ NodeInv'
    BY <2>2, <2>3, <2>4 DEF TypesInv, NodeInv, Next1, Freeing, Plans, Advancing
  <2>6. CordonInv' /\ AheadInv'
    BY <2>2, <2>3, <2>4 DEF CordonInv, AheadInv, Advancing, Next1, NoAgentAhead
  <2> QED
    BY <2>1, <2>5, <2>6
<1>4. CASE cordon
  <2>2. calls = <<"cordon", "start">> /\ Tail(calls) = <<"start">> /\ Next1("cordon")
    BY <1>0, <1>4, PlanParts DEF cordon, Next1
  <2>3. /\ calls' = <<"start">> /\ UNCHANGED <<seen, work>>
        /\ UNCHANGED <<want, control, managed, present, installed, theirs, upgrade>>
    BY <1>4, <2>2 DEF cordon, NextCall
  <2>4. known' = TRUE
    BY <1>4 DEF cordon, CordonInv, NoUpgradeIncident
  <2>1. FlagsInv'
    BY <1>4, <2>4 DEF cordon, FlagsInv
  <2>5. \/ /\ work.node \notin unschedulable /\ work.node \in present
           /\ unschedulable' = unschedulable \union {work.node} /\ marked' = marked \union {work.node}
           /\ ours' = ours \union {work.node}
        \/ UNCHANGED <<unschedulable, marked, ours>>
    BY <1>4, <2>2 DEF cordon, CordonInv, NotCordoned
  <2>6. work.node = upgrade.node
    BY <2>2 DEF NodeInv
  <2>7. TypesInv' /\ NodeInv'
    BY <2>2, <2>3, <2>5, <2>6 DEF TypesInv, NodeInv, Next1, Freeing, Plans, Advancing
  <2>8. CordonInv' /\ AheadInv'
    BY <2>2, <2>3, <2>4, <2>5, <2>6 DEF CordonInv, AheadInv, Advancing, Next1, NoAgentAhead
  <2> QED
    BY <2>1, <2>7, <2>8
<1>5. CASE upgradeOverSSH
  <2>1. FlagsInv'
    BY <1>5 DEF upgradeOverSSH, FlagsInv
  <2>2. calls = <<"ssh", "write">> /\ Tail(calls) = <<"write">> /\ Next1("ssh")
    BY <1>0, <1>5, PlanParts DEF upgradeOverSSH, Next1
  <2>3. /\ calls' = <<"write">>
        /\ UNCHANGED <<want, control, managed, present, unschedulable, marked, known, theirs, ours, upgrade, seen>>
    BY <1>5, <2>2 DEF upgradeOverSSH
  <2>4. installed' \in {installed, [installed EXCEPT ![work.node] = seen.want]}
    BY <1>5 DEF upgradeOverSSH
  <2>5. work' \in Upgrades /\ work'.node = work.node /\ work.node # 0
    <3>1. work' \in {[work EXCEPT !.step = "Installed"], [work EXCEPT !.phase = "Failed"]}
      BY <1>5 DEF upgradeOverSSH
    <3> QED
      BY <1>0, <2>2, <3>1 DEF Upgrades, Phases, NodeInv
  <2>6. TypesInv'
    BY <2>2, <2>3, <2>4, <2>5 DEF TypesInv, AheadInv
  <2>7. NodeInv'
    BY <2>2, <2>3, <2>5 DEF NodeInv, Next1, Freeing, Plans
  <2>8. CordonInv'
    BY <2>2, <2>3 DEF CordonInv, Next1
  <2>9. NoAgentAhead'
    BY <2>2, <2>3, <2>4 DEF AheadInv, Advancing, NoAgentAhead, TypesInv
  <2>10. AheadInv'
    BY <2>3, <2>9 DEF AheadInv, Advancing, Next1
  <2> QED
    BY <2>1, <2>6, <2>7, <2>8, <2>10
<1> QED
  BY <1>1, <1>2, <1>3, <1>4, <1>5

(* The pass writes its status, drops the request for a retry or ends.      *)
LEMMA UpgradeWriteStep ==
    ASSUME UpgradeInv, writeStatus \/ dropRetryAnnotation \/ UpgradeReturns
    PROVE  UpgradeInv'
<1> USE Releases, One, Two, Three DEF UpgradeInv, world, request, nodeState, cordons
<1>0. /\ calls \in Plans /\ upgrade \in Upgrades /\ work \in Upgrades
      /\ NoUpgrade \in Upgrades /\ NoUpgrade.node = 0 /\ NoUpgrade.step = ""
      /\ NothingSeen \in [want : Wanted, cordoned : BOOLEAN, marked : BOOLEAN]
  BY DEF NodeInv, TypesInv, NoUpgrade, Upgrades, Phases, NothingSeen
<1>1. CASE writeStatus
  <2>1. FlagsInv'
    BY <1>1 DEF writeStatus, FlagsInv
  <2>2. calls \in {<<"write">>, <<"start">>, <<"start", "drop", "advance">>}
    BY <1>0, <1>1, PlanParts DEF writeStatus
  <2>3. ours \subseteq {work.node}
    <3>1. calls # <<>> /\ Head(calls) \in {"start", "write"}
      BY <1>1 DEF writeStatus
    <3>2. ~Freeing
      BY <3>1 DEF Freeing, Next1
    <3> QED
      BY <3>1, <3>2 DEF NodeInv
  <2>4. /\ upgrade' = work
        /\ UNCHANGED <<want, control, managed, present, installed, unschedulable, marked, known, theirs, ours>>
    BY <1>1 DEF writeStatus
  <2>5. CASE calls \in {<<"write">>, <<"start">>}
    <3>1. calls' = <<>> /\ seen' = NothingSeen /\ work' = NoUpgrade
      BY <1>1, <2>5 DEF writeStatus, NextCall
    <3>2. TypesInv' /\ NodeInv'
      BY <1>0, <2>3, <2>4, <3>1 DEF TypesInv, NodeInv, Next1, Freeing, Plans
    <3>3. CordonInv' /\ AheadInv'
      BY <2>4, <3>1 DEF CordonInv, AheadInv, Advancing, NoAgentAhead, Next1
    <3> QED
      BY <2>1, <3>2, <3>3
  <2>6. CASE calls = <<"start", "drop", "advance">>
    <3>1. calls' = <<"drop", "advance">> /\ UNCHANGED <<seen, work>>
      BY <1>1, <2>6 DEF writeStatus, NextCall
    <3>2. TypesInv'
      BY <1>0, <2>4, <3>1 DEF TypesInv, NodeInv
    <3>3. NodeInv'
      <4>1. calls' \in Plans /\ calls' # <<>> /\ Head(calls') = "drop" /\ calls' # <<"start", "drop", "advance">>
        BY <3>1 DEF Plans
      <4>2. ours' \subseteq {upgrade'.node} /\ ours' \subseteq {work'.node} /\ work'.node = upgrade'.node
        BY <2>3, <2>4, <3>1
      <4> QED
        BY <3>1, <4>1, <4>2 DEF NodeInv, Next1, Freeing
    <3>4. CordonInv' /\ AheadInv'
      BY <2>4, <2>6, <3>1 DEF CordonInv, AheadInv, Advancing, NoAgentAhead, Next1
    <3> QED
      BY <2>1, <3>2, <3>3, <3>4
  <2> QED
    BY <2>2, <2>5, <2>6
<1>2. CASE dropRetryAnnotation
  <2>1. FlagsInv'
    BY <1>2 DEF dropRetryAnnotation, FlagsInv
  <2>2. calls = <<"drop", "advance">>
    BY <1>0, <1>2, PlanParts DEF dropRetryAnnotation
  <2>3. /\ calls' = <<"advance">> /\ UNCHANGED <<seen, work, upgrade>>
        /\ UNCHANGED <<want, control, managed, present, installed, unschedulable, marked, known, theirs, ours>>
    BY <1>2, <2>2 DEF dropRetryAnnotation, NextCall
  <2>4. TypesInv'
    BY <2>3 DEF TypesInv
  <2>5. NodeInv'
    <3>1. ours \subseteq {upgrade.node} /\ ours \subseteq {work.node} /\ work.node \in {0, upgrade.node}
      <4>1. calls # <<>> /\ Head(calls) = "drop"
        BY <1>2 DEF dropRetryAnnotation
      <4>2. ~Freeing
        BY <4>1 DEF Freeing, Next1
      <4> QED
        BY <2>2, <4>1, <4>2 DEF NodeInv, Advancing
    <3>2. calls' \in Plans /\ calls' # <<>> /\ Head(calls') = "advance" /\ calls' # <<"start", "drop", "advance">>
      BY <2>3 DEF Plans
    <3> QED
      BY <2>3, <3>1, <3>2 DEF NodeInv, Next1, Freeing
  <2>6. CordonInv' /\ AheadInv'
    BY <2>2, <2>3 DEF CordonInv, AheadInv, Advancing, NoAgentAhead, Next1
  <2> QED
    BY <2>1, <2>4, <2>5, <2>6
<1>3. CASE UpgradeReturns
  <2>1. FlagsInv'
    BY <1>3 DEF UpgradeReturns, FlagsInv
  <2>2. TypesInv' /\ NodeInv'
    BY <1>0, <1>3 DEF UpgradeReturns, TypesInv, NodeInv, Next1, Freeing, Plans
  <2>3. CordonInv' /\ AheadInv'
    BY <1>3 DEF UpgradeReturns, CordonInv, AheadInv, Advancing, NoAgentAhead, Next1
  <2> QED
    BY <2>1, <2>2, <2>3
<1> QED
  BY <1>1, <1>2, <1>3

(* What advance and continueNode decide: the calls, with the node the      *)
(* status is to name.                                                      *)
LEMMA AdvanceDecides ==
    ASSUME UpgradeInv, advance
    PROVE  /\ calls = <<"advance">> /\ work' \in Upgrades
           /\ work'.node = 0 => work'.step = ""
           /\ seen.want \in Release
           /\ \/ calls' = <<"write">> /\ work'.node = work.node /\ seen' \in {Saw(n) : n \in Worker \union {0}}
              \/ /\ calls' = <<"release", "write">> /\ work'.node = 0
                 /\ work.node # 0 /\ seen' = Saw(work.node)
              \/ /\ calls' = <<"cordon", "start">> /\ work'.node = work.node
                 /\ work.node # 0 /\ seen' = Saw(work.node)
              \/ /\ calls' = <<"ssh", "write">> /\ work'.node = work.node /\ seen.want <= control
                 /\ work.node # 0 /\ seen' = Saw(work.node)
              \/ /\ calls' = <<"uncordon", "write">> /\ work'.node = 0
                 /\ work.node # 0 /\ seen' = Saw(work.node)
              \/ /\ calls' = <<"forget", "start">> /\ work.node = 0
                 /\ work'.node \in Worker /\ seen' = Saw(work'.node)
<1> USE Releases DEF UpgradeInv
<1>1. calls = <<"advance">> /\ work \in Upgrades /\ (work.node = 0 => work.step = "") /\ seen.want \in Release
  BY PlanParts DEF advance, NodeInv, TypesInv, AheadInv, Advancing
<1>2. control \in Nat /\ seen.want \in Nat /\ work.node \in Worker \union {0}
  BY <1>1 DEF TypesInv, Upgrades
<1>3. PICK held \in BOOLEAN, old \in SUBSET Workers, silent \in SUBSET Workers :
       \/ ControlBehind /\ Then(<<"write">>, [work EXCEPT !.phase = "WaitingForControlPlane"])
       \/ /\ ~ControlBehind /\ work.node # 0
          /\ IF work.step = "" /\ held THEN Then(<<"write">>, [work EXCEPT !.phase = "Waiting"])
             ELSE continueNode(~held /\ work.node \notin old \union silent)
       \/ /\ ~ControlBehind /\ work.node = 0 /\ old = {}
          /\ Then(<<"write">>, [work EXCEPT !.phase = IF silent = {} THEN "Complete" ELSE "Waiting"])
       \/ /\ ~ControlBehind /\ work.node = 0 /\ old # {}
          /\ IF held THEN Then(<<"write">>, [work EXCEPT !.phase = "Waiting"])
             ELSE Then(<<"forget", "start">>,
                       [work EXCEPT !.phase = "Upgrading", !.node = First(old), !.step = ""])
  BY DEF advance
<1> DEFINE Writes(w) == calls' = <<"write">> /\ work' = w /\ seen' \in {Saw(n) : n \in Worker \union {0}}
           OfNode(cs, w) == calls' = cs /\ work' = w /\ seen' = Saw(work.node)
<1>4. \A w : w.node = work.node /\ Then(<<"write">>, w) => Writes(w)
  BY <1>2 DEF Then
<1>5. \A cs, w : work.node # 0 /\ Then(cs, w) => OfNode(cs, w)
  BY DEF Then
<1>6. ASSUME NEW p \in Phases
      PROVE  [work EXCEPT !.phase = p] \in Upgrades /\ [work EXCEPT !.phase = p].node = work.node
             /\ [work EXCEPT !.phase = p].step = work.step
  BY <1>1 DEF Upgrades
<1>7. ASSUME NEW p \in Phases, Then(<<"write">>, [work EXCEPT !.phase = p])
      PROVE  /\ calls' = <<"write">> /\ work' \in Upgrades /\ work'.node = work.node
             /\ work'.step = work.step /\ seen' \in {Saw(n) : n \in Worker \union {0}}
  <2> DEFINE w == [work EXCEPT !.phase = p]
  <2>1. w \in Upgrades /\ w.node = work.node /\ w.step = work.step
    BY <1>6
  <2>2. Then(<<"write">>, w)
    BY <1>7
  <2> HIDE DEF w
  <2>3. Writes(w)
    BY <1>4, <2>1, <2>2
  <2> QED
    BY <2>1, <2>3
<1>8. CASE ControlBehind /\ Then(<<"write">>, [work EXCEPT !.phase = "WaitingForControlPlane"])
  <2>1. "WaitingForControlPlane" \in Phases
    BY DEF Phases
  <2> QED
    BY <1>1, <1>7, <1>8, <2>1
<1>9. CASE \E p \in {"Complete", "Waiting"} : Then(<<"write">>, [work EXCEPT !.phase = p])
  <2>1. "Complete" \in Phases /\ "Waiting" \in Phases
    BY DEF Phases
  <2> QED
    BY <1>1, <1>7, <1>9, <2>1
<1>10. CASE /\ ~ControlBehind /\ work.node = 0 /\ old # {}
            /\ Then(<<"forget", "start">>,
                    [work EXCEPT !.phase = "Upgrading", !.node = First(old), !.step = ""])
  <2>1. First(old) \in Worker
    BY <1>10, FirstIsOne DEF Workers, TypesInv
  <2> DEFINE w == [work EXCEPT !.phase = "Upgrading", !.node = First(old), !.step = ""]
  <2>2. w \in Upgrades /\ w.node = First(old) /\ w.step = ""
    BY <1>1, <2>1 DEF Upgrades, Phases
  <2>3. calls' = <<"forget", "start">> /\ work' = w /\ seen' = Saw(w.node)
    BY <1>10 DEF Then
  <2> QED
    BY <1>1, <1>10, <2>1, <2>2, <2>3
<1>11. CASE /\ ~ControlBehind /\ work.node # 0
            /\ continueNode(~held /\ work.node \notin old \union silent)
  <2> DEFINE w == [work EXCEPT !.phase = "Upgrading"]
             done == NodeDone(w)
             failed == [work EXCEPT !.phase = "Failed"]
  <2>1. w \in Upgrades /\ w.node = work.node /\ failed \in Upgrades /\ failed.node = work.node
    BY <1>6 DEF Phases
  <2>2. done \in Upgrades /\ done.node = 0 /\ done.step = ""
    BY <2>1 DEF NodeDone, Upgrades
  <2>3. ASSUME NEW st \in {"Cordoned", "Installed"}
        PROVE  [w EXCEPT !.step = st] \in Upgrades /\ [w EXCEPT !.step = st].node = work.node
    BY <2>1 DEF Upgrades
  <2>4. \/ OfNode(<<"release", "write">>, done)
        \/ OfNode(<<"cordon", "start">>, [w EXCEPT !.step = "Cordoned"])
        \/ OfNode(<<"write">>, [w EXCEPT !.step = "Installed"])
        \/ OfNode(<<"write">>, failed)
        \/ OfNode(<<"ssh", "write">>, w)
        \/ OfNode(<<"uncordon", "write">>, done)
        \/ OfNode(<<"write">>, w)
    BY <1>5, <1>11 DEF continueNode
  <2>5. seen.want <= control
    BY <1>2, <1>11 DEF ControlBehind
  <2> HIDE DEF w, done, failed
  <2> QED
    BY <1>1, <1>2, <1>11, <2>1, <2>2, <2>3, <2>4, <2>5
<1> QED
  BY <1>3, <1>8, <1>9, <1>10, <1>11

LEMMA UpgradeAdvanceStep ==
    ASSUME UpgradeInv, advance
    PROVE  UpgradeInv'
<1> USE Releases
<1>1. /\ UNCHANGED <<want, control, managed, present, installed, unschedulable, marked, known, theirs, ours, upgrade>>
      /\ UNCHANGED <<retry, going, overdue>>
  BY DEF advance, world, request, nodeState, cordons
<1>2. FlagsInv'
  BY <1>1 DEF UpgradeInv, FlagsInv
<1>3. /\ calls = <<"advance">> /\ work' \in Upgrades
      /\ work'.node = 0 => work'.step = ""
      /\ seen.want \in Release
  BY AdvanceDecides
<1>4. \E n : seen' = Saw(n)
  BY AdvanceDecides
<1>5. seen' \in [want : Wanted, cordoned : BOOLEAN, marked : BOOLEAN] /\ seen'.want = seen.want
  <2>1. known = TRUE /\ seen.want \in Wanted
    BY DEF UpgradeInv, CordonInv, TypesInv
  <2> QED
    BY <1>4, <2>1, SawKnown
<1>6. TypesInv'
  BY <1>1, <1>3, <1>5 DEF UpgradeInv, TypesInv
<1>7. /\ ours \subseteq {upgrade.node} /\ ours \subseteq {work.node} /\ work.node \in {0, upgrade.node}
      /\ work.node = 0 => ours = {}
  <2>1. calls # <<>> /\ Head(calls) = "advance"
    BY DEF advance
  <2>2. ~Freeing
    BY <2>1 DEF Freeing, Next1
  <2>3. 0 \notin ours
    BY DEF UpgradeInv, TypesInv
  <2> QED
    BY <1>3, <2>1, <2>2, <2>3 DEF UpgradeInv, NodeInv, Advancing
<1>8. /\ marked = ours /\ ours \subseteq unschedulable /\ theirs \subseteq unschedulable
      /\ ours \intersect theirs = {} /\ known = TRUE
  BY DEF UpgradeInv, CordonInv
<1>9. NoAgentAhead'
  BY <1>1 DEF UpgradeInv, AheadInv, Advancing, NoAgentAhead
<1> USE DEF NodeInv, CordonInv, AheadInv, Next1, Freeing
<1>10. CASE calls' = <<"write">> /\ work'.node = work.node
  <2>1. calls' \in Plans /\ calls' # <<>> /\ Head(calls') = "write" /\ calls' \notin Advancing
    BY <1>10, One, Two DEF Plans, Advancing
  <2> QED
    BY <1>1, <1>2, <1>3, <1>6, <1>7, <1>8, <1>9, <1>10, <2>1 DEF UpgradeInv
<1>11. CASE calls' = <<"release", "write">> /\ work'.node = 0
  <2>1. calls' \in Plans /\ calls' # <<>> /\ Head(calls') = "release" /\ calls' \notin Advancing
    BY <1>11, One, Two DEF Plans, Advancing
  <2> QED
    BY <1>1, <1>2, <1>3, <1>6, <1>7, <1>8, <1>9, <1>11, <2>1 DEF UpgradeInv
<1>12. CASE /\ calls' = <<"cordon", "start">> /\ work'.node = work.node
            /\ work.node # 0 /\ seen' = Saw(work.node)
  <2>1. calls' \in Plans /\ calls' # <<>> /\ Head(calls') = "cordon" /\ calls' \notin Advancing
    BY <1>12, One, Two DEF Plans, Advancing
  <2>2. seen'.cordoned <=> work.node \in unschedulable
    BY <1>8, <1>12, SawKnown
  <2>3. NodeInv'
    BY <1>1, <1>3, <1>7, <1>12, <2>1
  <2>4. CordonInv' /\ AheadInv'
    BY <1>1, <1>8, <1>9, <1>12, <2>1, <2>2
  <2> QED
    BY <1>2, <1>6, <2>3, <2>4 DEF UpgradeInv
<1>13. CASE /\ calls' = <<"ssh", "write">> /\ work'.node = work.node /\ seen.want <= control
            /\ work.node # 0
  <2>1. calls' \in Plans /\ calls' # <<>> /\ Head(calls') = "ssh" /\ calls' \notin Advancing
    BY <1>13, One, Two DEF Plans, Advancing
  <2>2. NodeInv'
    BY <1>1, <1>3, <1>7, <1>13, <2>1
  <2>3. CordonInv' /\ AheadInv'
    BY <1>1, <1>3, <1>5, <1>8, <1>9, <1>13, <2>1
  <2> QED
    BY <1>2, <1>6, <2>2, <2>3 DEF UpgradeInv
<1>14. CASE /\ calls' = <<"uncordon", "write">> /\ work'.node = 0
            /\ work.node # 0 /\ seen' = Saw(work.node)
  <2>1. calls' \in Plans /\ calls' # <<>> /\ Head(calls') = "uncordon" /\ calls' \notin Advancing
    BY <1>14, One, Two DEF Plans, Advancing
  <2>2. (seen'.cordoned <=> work.node \in unschedulable) /\ (seen'.marked <=> work.node \in marked)
    BY <1>8, <1>14, SawKnown
  <2>3. work.node = upgrade.node
    BY <1>7, <1>14
  <2>4. ours # {} => seen'.marked /\ seen'.cordoned
    BY <1>7, <1>8, <2>2
  <2>5. NodeInv'
    BY <1>1, <1>3, <1>7, <1>14, <2>1, <2>4
  <2>6. seen'.marked => upgrade.node \notin theirs
    BY <1>8, <2>2, <2>3
  <2>7. CordonInv' /\ AheadInv'
    BY <1>1, <1>8, <1>9, <2>1, <2>6
  <2> QED
    BY <1>2, <1>6, <2>5, <2>7 DEF UpgradeInv
<1>15. CASE calls' = <<"forget", "start">> /\ work.node = 0 /\ work'.node \in Worker
  <2>1. calls' \in Plans /\ calls' # <<>> /\ Head(calls') = "forget" /\ calls' \notin Advancing
    BY <1>15, One, Two DEF Plans, Advancing
  <2>2. NodeInv'
    BY <1>1, <1>3, <1>7, <1>15, <2>1
  <2>3. CordonInv' /\ AheadInv'
    BY <1>1, <1>8, <1>9, <2>1
  <2> QED
    BY <1>2, <1>6, <2>2, <2>3 DEF UpgradeInv
<1> QED
  BY AdvanceDecides, <1>10, <1>11, <1>12, <1>13, <1>14, <1>15

(* What a pass that begins finds to do: the status it works on names no    *)
(* node, or the one the status names.                                      *)
LEMMA ReconcileDecides ==
    ASSUME UpgradeInv, Reconcile
    PROVE  /\ work' \in Upgrades /\ (work'.node = 0 => work'.step = "")
           /\ seen' \in [want : Wanted, cordoned : BOOLEAN, marked : BOOLEAN] /\ seen'.want = want
           /\ \/ calls' \in {<<>>, <<"release">>}
              \/ calls' = <<"release", "write">> /\ work'.node = 0
              \/ /\ calls' \in {<<"release", "advance">>, <<"release", "drop", "advance">>}
                 /\ work'.node = 0 /\ want \in Release
              \/ calls' = <<"write">> /\ work'.node = upgrade.node
              \/ /\ calls' \in {<<"advance">>, <<"drop", "advance">>, <<"start", "drop", "advance">>}
                 /\ work'.node = upgrade.node /\ want \in Release
<1> USE Releases DEF UpgradeInv
<1> DEFINE kept == upgrade.target = want /\ upgrade # NoUpgrade
           failed == kept /\ upgrade.phase = "Failed"
           pre == IF Abandoned THEN <<"release">> ELSE <<>>
<1>1. /\ upgrade \in Upgrades /\ (upgrade.node = 0 => upgrade.step = "") /\ want \in Wanted
      /\ NoUpgrade \in Upgrades /\ NoUpgrade.node = 0 /\ NoUpgrade.step = "" /\ NoUpgrade.target = 0
      /\ NothingSeen \in [want : Wanted, cordoned : BOOLEAN, marked : BOOLEAN]
  BY DEF TypesInv, NoUpgrade, Upgrades, Phases, NothingSeen
<1>2. seen' \in [want : Wanted, cordoned : BOOLEAN, marked : BOOLEAN] /\ seen'.want = want
  BY <1>1 DEF Reconcile, NothingSeen
<1>3. /\ Started(want) \in Upgrades /\ Started(want).node = 0 /\ Started(want).step = ""
      /\ [Started(want) EXCEPT !.phase = "Failed"] \in Upgrades
      /\ [Started(want) EXCEPT !.phase = "Failed"].node = 0 /\ [Started(want) EXCEPT !.phase = "Failed"].step = ""
  BY <1>1 DEF Started, NoUpgrade, Upgrades, Phases
<1>4. /\ [upgrade EXCEPT !.phase = "", !.step = ""] \in Upgrades
      /\ [upgrade EXCEPT !.phase = "", !.step = ""].node = upgrade.node
      /\ [upgrade EXCEPT !.phase = "", !.step = ""].step = ""
  BY <1>1 DEF Upgrades, Phases
<1>5. /\ work' = CASE going -> upgrade
                   [] ~going /\ want = 0 -> NoUpgrade
                   [] ~going /\ want = NotARelease -> [Started(want) EXCEPT !.phase = "Failed"]
                   [] ~going /\ want \in Release /\ failed /\ retry -> [upgrade EXCEPT !.phase = "", !.step = ""]
                   [] ~going /\ want \in Release /\ kept /\ ~(failed /\ retry) -> upgrade
                   [] OTHER -> Started(want)
      /\ calls' = pre \o
                CASE going -> <<>>
                  [] ~going /\ (want \notin Release \/ (failed /\ ~retry)) -> <<"write">>
                  [] ~going /\ want \in Release /\ failed /\ retry -> <<"start", "drop", "advance">>
                  [] ~going /\ want \in Release /\ ~failed /\ retry -> <<"drop", "advance">>
                  [] OTHER -> <<"advance">>
  BY DEF Reconcile
<1>6. /\ pre = <<"release">> \/ pre = <<>>
      /\ (~going /\ want \in Release /\ upgrade.target = want) => pre = <<>>
      /\ (~going /\ ~(want \in Release /\ upgrade.target = want) /\ pre = <<>>) => upgrade.node = 0
  BY DEF Abandoned
<1> HIDE DEF pre
<1>7. CASE going
  <2>1. work' = upgrade /\ calls' = pre \o <<>>
    BY <1>5, <1>7
  <2> QED
    BY <1>1, <1>2, <1>6, <2>1, Releasing
<1>8. CASE ~going /\ want \notin Release
  <2>1. calls' = pre \o <<"write">>
    BY <1>5, <1>8
  <2>2. work' \in {NoUpgrade, [Started(want) EXCEPT !.phase = "Failed"], Started(want)}
    BY <1>1, <1>5, <1>8
  <2> QED
    BY <1>1, <1>2, <1>3, <1>6, <1>8, <2>1, <2>2, Releasing
<1>9. CASE ~going /\ want \in Release /\ failed
  <2>0. want # 0 /\ want # NotARelease
    BY <1>9, UpgradeAssumption DEF Release, NotARelease
  <2>1. pre = <<>>
    BY <1>6, <1>9
  <2>2. CASE retry
    <3>1. work' = [upgrade EXCEPT !.phase = "", !.step = ""]
      BY <1>5, <1>9, <2>0, <2>2
    <3>2. calls' = pre \o <<"start", "drop", "advance">>
      BY <1>5, <1>9, <2>2
    <3> QED
      BY <1>1, <1>2, <1>4, <1>9, <2>1, <3>1, <3>2, Releasing
  <2>3. CASE ~retry
    <3>1. work' = upgrade
      BY <1>5, <1>9, <2>0, <2>3
    <3>2. calls' = pre \o <<"write">>
      BY <1>5, <1>9, <2>3
    <3> QED
      BY <1>1, <1>2, <1>9, <2>1, <3>1, <3>2, Releasing
  <2> QED
    BY <2>2, <2>3
<1>10. CASE ~going /\ want \in Release /\ ~failed
  <2>0. want # 0 /\ want # NotARelease
    BY <1>10, UpgradeAssumption DEF Release, NotARelease
  <2>1. calls' = pre \o <<"drop", "advance">> \/ calls' = pre \o <<"advance">>
    BY <1>5, <1>10
  <2>2. CASE kept
    <3>1. work' = upgrade
      BY <1>5, <1>10, <2>0, <2>2
    <3>2. pre = <<>>
      BY <1>6, <1>10, <2>2
    <3> QED
      BY <1>1, <1>2, <1>10, <2>1, <3>1, <3>2, Releasing
  <2>3. CASE ~kept
    <3>1. work' = Started(want)
      BY <1>5, <1>10, <2>0, <2>3
    <3>2. pre = <<"release">> \/ upgrade.node = 0
      BY <1>1, <1>6, <1>10, <2>0, <2>3
    <3> QED
      BY <1>1, <1>2, <1>3, <1>6, <1>10, <2>1, <3>1, <3>2, Releasing
  <2> QED
    BY <2>2, <2>3
<1> QED
  BY <1>7, <1>8, <1>9, <1>10

LEMMA UpgradeReconcileStep ==
    ASSUME UpgradeInv, Reconcile
    PROVE  UpgradeInv'
<1> USE Releases
<1>1. /\ UNCHANGED <<want, control, managed, present, installed, unschedulable, marked, known, theirs, ours, upgrade>>
      /\ UNCHANGED <<retry, going, overdue>>
  BY DEF Reconcile, world, request, nodeState, cordons
<1>2. FlagsInv'
  BY <1>1 DEF UpgradeInv, FlagsInv
<1>3. /\ work' \in Upgrades /\ (work'.node = 0 => work'.step = "")
      /\ seen' \in [want : Wanted, cordoned : BOOLEAN, marked : BOOLEAN] /\ seen'.want = want
  BY ReconcileDecides
<1>4. TypesInv'
  BY <1>1, <1>3 DEF UpgradeInv, TypesInv
<1>5. ours \subseteq {upgrade.node} /\ NoAgentAhead'
  BY <1>1 DEF UpgradeInv, NodeInv, AheadInv, NoAgentAhead
<1>6. /\ marked = ours /\ ours \subseteq unschedulable /\ theirs \subseteq unschedulable
      /\ ours \intersect theirs = {} /\ known = TRUE
  BY DEF UpgradeInv, CordonInv
<1> USE DEF NodeInv, CordonInv, AheadInv, Next1, Freeing
<1>7. CASE calls' \in {<<>>, <<"release">>}
  <2>1. calls' \in Plans /\ (calls' = <<>> \/ Head(calls') = "release") /\ calls' \notin Advancing
    BY <1>7, One DEF Plans, Advancing
  <2> QED
    BY <1>1, <1>2, <1>3, <1>4, <1>5, <1>6, <1>7, <2>1 DEF UpgradeInv
<1>8. CASE calls' = <<"release", "write">> /\ work'.node = 0
  <2>1. calls' \in Plans /\ Head(calls') = "release" /\ calls' \notin Advancing
    BY <1>8, Two DEF Plans, Advancing
  <2> QED
    BY <1>1, <1>2, <1>3, <1>4, <1>5, <1>6, <1>8, <2>1 DEF UpgradeInv
<1>9. CASE /\ calls' \in {<<"release", "advance">>, <<"release", "drop", "advance">>}
           /\ work'.node = 0 /\ want \in Release
  <2>1. calls' \in Plans /\ Head(calls') = "release"
    BY <1>9, Two, Three DEF Plans
  <2> QED
    BY <1>1, <1>2, <1>3, <1>4, <1>5, <1>6, <1>9, <2>1 DEF UpgradeInv
<1>10. CASE calls' = <<"write">> /\ work'.node = upgrade.node
  <2>1. calls' \in Plans /\ Head(calls') = "write" /\ calls' \notin Advancing
    BY <1>10, One DEF Plans, Advancing
  <2> QED
    BY <1>1, <1>2, <1>3, <1>4, <1>5, <1>6, <1>10, <2>1 DEF UpgradeInv
<1>11. CASE /\ calls' \in {<<"advance">>, <<"drop", "advance">>, <<"start", "drop", "advance">>}
            /\ work'.node = upgrade.node /\ want \in Release
  <2>1. calls' \in Plans /\ Head(calls') \in {"advance", "drop", "start"}
    BY <1>11, One, Two, Three DEF Plans
  <2> QED
    BY <1>1, <1>2, <1>3, <1>4, <1>5, <1>6, <1>11, <2>1 DEF UpgradeInv
<1> QED
  BY ReconcileDecides, <1>7, <1>8, <1>9, <1>10, <1>11

LEMMA UpgradeStep ==
    ASSUME NoUpgradeIncident, UpgradeInv, [UpgradeNext]_upgradeVars
    PROVE  UpgradeInv'
  BY UpgradeWorldStep, UpgradeNodeStep, UpgradeWriteStep, UpgradeAdvanceStep, UpgradeReconcileStep
     DEF UpgradeNext, UpgradeCall

LEMMA UpgradeInvSafe == ASSUME UpgradeInv PROVE UpgradeSafe
<1>1. UpgradeTypeOK
  <2>1. calls \in Seq(Calls)
    BY PlanParts DEF UpgradeInv, NodeInv
  <2> QED
    BY <2>1 DEF UpgradeInv, FlagsInv, TypesInv, UpgradeTypeOK
<1>2. UpgradeOneAtATime
  <2>1. ours \subseteq {upgrade.node}
    BY DEF UpgradeInv, NodeInv
  <2>2. IsFiniteSet({upgrade.node}) /\ Cardinality({upgrade.node}) = 1
    BY FS_Singleton
  <2>3. Cardinality(ours) <= Cardinality({upgrade.node})
    BY <2>1, <2>2, FS_Subset
  <2> QED
    BY <2>2, <2>3 DEF UpgradeOneAtATime
<1>3. UpgradeKeepsTheirs /\ NoAgentAhead
  BY DEF UpgradeInv, CordonInv, AheadInv, UpgradeKeepsTheirs
<1> QED
  BY <1>1, <1>2, <1>3 DEF UpgradeSafe

(* An upgrade of K3s (geasscluster_k3supgrade.go) holds at most one node   *)
(* cordoned, leaves cordoned what somebody else cordoned, and installs     *)
(* nothing newer than the control plane, over every retry, change of the   *)
(* target, node that leaves and pass that is cut off, when nobody meddles  *)
(* with the node at work and the cache has the operator's own cordons.     *)
THEOREM UpgradesAreSafe ==
    ASSUME NoUpgradeIncident
    PROVE  UpgradeSpec => []UpgradeSafe
<1>1. UpgradeInv /\ [UpgradeNext]_upgradeVars => UpgradeInv'
  BY UpgradeStep
<1> QED
  BY UpgradeStart, UpgradeInvSafe, <1>1, PTL DEF UpgradeSpec

-----------------------------------------------------------------------------
(***************************************************************************)
(* Lost nodes.                                                             *)
(***************************************************************************)

(* The types, the flags apart.                                             *)
LostFlags == primaryUp \in BOOLEAN /\ moved \in BOOLEAN
LostTypes ==
    /\ kind \in VolumeKinds
    /\ machine \in [Machine -> {"up", "away", "lost", "removed"}]
    /\ pod \in [Instance -> {"none", "pending", "ready", "unready", "terminating"}]
    /\ on \in [Instance -> Machine \union {Nowhere}] /\ waited \in [Instance -> 0 .. 2]
    /\ volume \in [Instance -> {"none", "fresh", "full", "faulted"}]
    /\ deleted \subseteq Instance /\ home \in [Instance -> Machine \union {Nowhere}]
    /\ primary \in Instance /\ pass \in {"idle", "orphans", "instances"}
    /\ plan \in [Instance -> {"leave", "lost", "stuck", "delete"}]
    /\ same \subseteq Instance

(* A pod that was placed is on a machine of the cluster, with its single   *)
(* volume; one that runs has its data.                                     *)
PlaceInv == \A i \in Instance :
    /\ on[i] # Nowhere <=> pod[i] \in {"ready", "unready", "terminating"}
    /\ on[i] # Nowhere => machine[on[i]] # "removed"
    /\ (on[i] # Nowhere /\ kind = "single") => home[i] = on[i]
    /\ pod[i] = "ready" => volume[i] = "full"

(* While nothing moved during a pass, an instance that was given up does   *)
(* not run, nor does it when its machine comes back.                       *)
GivenUpInv == ~moved => \A i \in deleted : pod[i] # "ready" /\ (pod[i] = "unready" => volume[i] = "faulted")

(* What a pass has decided still holds of the pods it read.                *)
PodsInv == \A i \in same :
    /\ pod[i] # "none"
    /\ plan[i] = "lost" => pod[i] = "terminating"
    /\ plan[i] = "delete" => i \in deleted /\ pod[i] # "ready"
    /\ (plan[i] = "delete" /\ pod[i] = "unready") => volume[i] = "faulted"

(* It gives up an instance only after it saw a primary up, and while       *)
(* nothing moved a copy of the data is one it leaves alone.                *)
CopyKeptInv ==
    /\ pass = "idle" => \A i \in Instance : plan[i] = "leave"
    /\ \A i \in Instance : (plan[i] = "lost" /\ ~moved) => pod[i] = "terminating"
    /\ \A i \in Instance : plan[i] = "stuck" => primaryUp
    /\ (pass # "idle" /\ primaryUp /\ ~moved) => \E p \in Copies : plan[p] = "leave"

LostInv == LostFlags /\ LostTypes /\ PlaceInv /\ GivenUpInv /\ PodsInv /\ CopyKeptInv

-----------------------------------------------------------------------------
LEMMA LostStart == LostInit => LostInv
<1> SUFFICES ASSUME LostInit PROVE LostInv
  OBVIOUS
<1> USE LostNodeAssumption DEF LostInit, Nowhere
<1>1. LostFlags
  BY DEF LostFlags
<1>2. LostTypes
  BY DEF LostTypes
<1>3. PlaceInv
  BY DEF PlaceInv
<1>4. GivenUpInv /\ PodsInv /\ CopyKeptInv
  BY DEF GivenUpInv, PodsInv, CopyKeptInv
<1> QED
  BY <1>1, <1>2, <1>3, <1>4 DEF LostInv

LEMMA LostStutters == ASSUME LostInv, UNCHANGED lostVars PROVE LostInv'
<1> USE DEF LostInv, lostVars, database, recovery
<1>1. LostFlags'
  BY DEF LostFlags
<1>2. LostTypes' /\ PlaceInv'
  BY DEF LostTypes, PlaceInv
<1>3. GivenUpInv' /\ PodsInv'
  BY DEF GivenUpInv, PodsInv
<1>4. CopyKeptInv'
  BY DEF CopyKeptInv, Copies
<1> QED
  BY <1>1, <1>2, <1>3, <1>4

(* What the machines do.                                                   *)
LEMMA MachinesStep ==
    ASSUME LostInv, NEW m \in Machine, MachineGoes(m) \/ MachineLost(m) \/ MachineReturns(m) \/ MachineRemoved(m)
    PROVE  LostInv'
<1> USE LostNodeAssumption DEF LostInv, recovery, database, BetweenPasses, Nowhere
<1>1. CASE MachineGoes(m)
  <2>1. LostFlags'
    BY <1>1 DEF MachineGoes, LostFlags
  <2>2. LostTypes'
    BY <1>1 DEF MachineGoes, LostTypes
  <2>3. PlaceInv'
    BY <1>1 DEF MachineGoes, LostTypes, PlaceInv
  <2>4. GivenUpInv'
    BY <1>1 DEF MachineGoes, LostTypes, GivenUpInv
  <2>5. PodsInv'
    BY <1>1 DEF MachineGoes, LostTypes, PodsInv
  <2>6. CopyKeptInv'
    BY <1>1 DEF MachineGoes, LostTypes, CopyKeptInv, Copies
  <2> QED
    BY <2>1, <2>2, <2>3, <2>4, <2>5, <2>6
<1>2. CASE MachineLost(m)
  <2>1. LostFlags'
    BY <1>2 DEF MachineLost, LostFlags
  <2>2. LostTypes'
    BY <1>2 DEF MachineLost, LostTypes
  <2>3. PlaceInv'
    BY <1>2 DEF MachineLost, LostTypes, PlaceInv
  <2>4. GivenUpInv' /\ PodsInv'
    BY <1>2 DEF MachineLost, GivenUpInv, PodsInv
  <2>5. CopyKeptInv'
    BY <1>2 DEF MachineLost, LostTypes, CopyKeptInv
  <2> QED
    BY <2>1, <2>2, <2>3, <2>4, <2>5
<1>3. CASE MachineReturns(m)
  <2>1. LostFlags'
    BY <1>3 DEF MachineReturns, Moves, LostFlags
  <2>2. LostTypes'
    BY <1>3 DEF MachineReturns, PodsEnd, LostTypes
  <2>3. PlaceInv'
    BY <1>3 DEF MachineReturns, PodsEnd, LostTypes, PlaceInv
  <2>4. GivenUpInv'
    BY <1>3 DEF MachineReturns, PodsEnd, Moves, LostTypes, PlaceInv, GivenUpInv
  <2>5. PodsInv'
    BY <1>3 DEF MachineReturns, PodsEnd, LostTypes, PlaceInv, PodsInv
  <2>6. CopyKeptInv'
    BY <1>3 DEF MachineReturns, Moves, LostTypes, CopyKeptInv
  <2> QED
    BY <2>1, <2>2, <2>3, <2>4, <2>5, <2>6
<1>4. CASE MachineRemoved(m)
  <2>1. LostFlags'
    BY <1>4 DEF MachineRemoved, Moves, LostFlags
  <2>2. LostTypes'
    BY <1>4 DEF MachineRemoved, PodsEnd, LostTypes
  <2>3. PlaceInv'
    BY <1>4 DEF MachineRemoved, PodsEnd, LostTypes, PlaceInv
  <2>4. GivenUpInv'
    BY <1>4 DEF MachineRemoved, PodsEnd, Moves, LostTypes, PlaceInv, GivenUpInv
  <2>5. PodsInv'
    BY <1>4 DEF MachineRemoved, PodsEnd, LostTypes, PlaceInv, PodsInv
  <2>6. CopyKeptInv'
    BY <1>4 DEF MachineRemoved, Moves, LostTypes, CopyKeptInv
  <2> QED
    BY <2>1, <2>2, <2>3, <2>4, <2>5, <2>6
<1> QED
  BY <1>1, <1>2, <1>3, <1>4

(* What disks, Kubernetes and CloudNativePG do with an instance.           *)
LEMMA WorldStep ==
    ASSUME LostInv, NEW i \in Instance, VolumeLost(i) \/ World(i)
    PROVE  LostInv'
<1> USE LostNodeAssumption DEF LostInv, recovery, BetweenPasses, Nowhere
<1>1. CASE VolumeLost(i)
  <2>1. LostFlags'
    BY <1>1 DEF VolumeLost, Moves, LostFlags
  <2>2. LostTypes'
    BY <1>1 DEF VolumeLost, LostTypes
  <2>3. PlaceInv'
    BY <1>1 DEF VolumeLost, LostTypes, PlaceInv
  <2>4. GivenUpInv'
    BY <1>1 DEF VolumeLost, Moves, LostTypes, GivenUpInv
  <2>5. PodsInv'
    BY <1>1 DEF VolumeLost, LostTypes, PodsInv
  <2>6. CopyKeptInv'
    BY <1>1 DEF VolumeLost, Moves, LostTypes, CopyKeptInv
  <2> QED
    BY <2>1, <2>2, <2>3, <2>4, <2>5, <2>6
<1>2. CASE TimePasses(i)
  <2>1. LostFlags'
    BY <1>2 DEF TimePasses, LostFlags
  <2>2. LostTypes'
    BY <1>2 DEF TimePasses, LostTypes
  <2>3. PlaceInv' /\ GivenUpInv' /\ PodsInv'
    BY <1>2 DEF TimePasses, PlaceInv, GivenUpInv, PodsInv
  <2>4. CopyKeptInv'
    BY <1>2 DEF TimePasses, CopyKeptInv, Copies
  <2> QED
    BY <2>1, <2>2, <2>3, <2>4
<1>3. CASE Marked(i)
  <2>1. LostFlags'
    BY <1>3 DEF Marked, LostFlags
  <2>2. LostTypes' /\ PlaceInv'
    BY <1>3 DEF Marked, LostTypes, PlaceInv
  <2>3. GivenUpInv' /\ PodsInv'
    BY <1>3 DEF Marked, LostTypes, GivenUpInv, PodsInv
  <2>4. CopyKeptInv'
    BY <1>3 DEF Marked, LostTypes, CopyKeptInv, Copies
  <2> QED
    BY <2>1, <2>2, <2>3, <2>4
<1>4. CASE ClaimGoes(i)
  <2>1. LostFlags'
    BY <1>4 DEF ClaimGoes, LostFlags
  <2>2. LostTypes'
    BY <1>4 DEF ClaimGoes, LostTypes
  <2>3. PlaceInv'
    BY <1>4 DEF ClaimGoes, LostTypes, PlaceInv
  <2>4. GivenUpInv' /\ PodsInv'
    BY <1>4 DEF ClaimGoes, LostTypes, GivenUpInv, PodsInv
  <2>5. CopyKeptInv'
    BY <1>4 DEF ClaimGoes, LostTypes, CopyKeptInv, Copies
  <2> QED
    BY <2>1, <2>2, <2>3, <2>4, <2>5
<1>5. CASE Promotes(i)
  <2>1. LostFlags'
    BY <1>5 DEF Promotes, LostFlags
  <2>2. LostTypes' /\ PlaceInv' /\ GivenUpInv' /\ PodsInv'
    BY <1>5 DEF Promotes, LostTypes, PlaceInv, GivenUpInv, PodsInv
  <2>3. CopyKeptInv'
    BY <1>5 DEF Promotes, CopyKeptInv, Copies
  <2> QED
    BY <2>1, <2>2, <2>3
<1>6. CASE MakesPod(i)
  <2>1. LostFlags'
    BY <1>6 DEF MakesPod, LostFlags
  <2>2. LostTypes'
    BY <1>6 DEF MakesPod, LostTypes
  <2>3. PlaceInv'
    BY <1>6 DEF MakesPod, LostTypes, PlaceInv
  <2>4. GivenUpInv'
    BY <1>6 DEF MakesPod, LostTypes, GivenUpInv
  <2>5. PodsInv'
    BY <1>6 DEF MakesPod, LostTypes, PodsInv
  <2>6. CopyKeptInv'
    BY <1>6 DEF MakesPod, LostTypes, CopyKeptInv, Copies
  <2> QED
    BY <2>1, <2>2, <2>3, <2>4, <2>5, <2>6
<1>7. CASE Starts(i)
  <2>1. LostFlags'
    BY <1>7 DEF Starts, LostFlags
  <2>2. LostTypes'
    BY <1>7 DEF Starts, UsableOn, LostTypes
  <2>3. PlaceInv'
    BY <1>7 DEF Starts, UsableOn, LostTypes, PlaceInv
  <2>4. GivenUpInv'
    BY <1>7 DEF Starts, LostTypes, GivenUpInv
  <2>5. PodsInv'
    BY <1>7 DEF Starts, LostTypes, PodsInv
  <2>6. CopyKeptInv'
    BY <1>7 DEF Starts, LostTypes, CopyKeptInv, Copies
  <2> QED
    BY <2>1, <2>2, <2>3, <2>4, <2>5, <2>6
<1> QED
  BY <1>1, <1>2, <1>3, <1>4, <1>5, <1>6, <1>7 DEF World

(* A pass begins, removes the pods that have no volume, loses a call or    *)
(* ends.                                                                   *)
LEMMA ReadStep ==
    ASSUME LostInv, reconcileLostNodes
    PROVE  LostInv'
<1> USE LostNodeAssumption DEF LostInv, database, Nowhere
<1> DEFINE up == SeenUp
<1>1. up \in BOOLEAN /\ primaryUp' = up /\ plan' = [i \in Instance |-> Choose(i, up)]
  BY DEF reconcileLostNodes, SeenUp
<1>2. up => PrimaryReady
  BY DEF SeenUp
<1> HIDE DEF up
<1>3. ASSUME NEW i \in Instance
      PROVE  /\ Choose(i, up) \in {"leave", "lost", "stuck"}
             /\ Choose(i, up) = "lost" => pod[i] = "terminating"
             /\ Choose(i, up) = "stuck" => up /\ pod[i] \in {"pending", "unready"}
  BY DEF Choose
<1>4. LostFlags'
  BY <1>1 DEF reconcileLostNodes, LostFlags
<1>5. LostTypes'
  BY <1>1, <1>3 DEF reconcileLostNodes, LostTypes
<1>6. PlaceInv' /\ GivenUpInv'
  BY DEF reconcileLostNodes, PlaceInv, GivenUpInv
<1>7. PodsInv'
  BY <1>1, <1>3 DEF reconcileLostNodes, PodsInv
<1>8. (up /\ ~moved) => primary \in Copies /\ Choose(primary, up) = "leave"
  <2> SUFFICES ASSUME up, ~moved PROVE primary \in Copies /\ Choose(primary, up) = "leave"
    OBVIOUS
  <2>1. primary \in Instance /\ pod[primary] = "ready" /\ on[primary] # Nowhere
    BY <1>2 DEF PrimaryReady, LostTypes, PlaceInv
  <2>2. primary \in Copies
    BY <2>1 DEF Copies, PlaceInv, GivenUpInv
  <2>3. Choose(primary, up) = "leave"
    BY <1>3, <2>1
  <2> QED
    BY <2>2, <2>3
<1>9. CopyKeptInv'
  <2>1. Copies' = Copies /\ moved' = moved /\ pod' = pod /\ pass' # "idle"
    BY DEF reconcileLostNodes, Copies
  <2>2. primary \in Instance
    BY DEF LostTypes
  <2> QED
    BY <1>1, <1>3, <1>8, <2>1, <2>2 DEF CopyKeptInv
<1> QED
  BY <1>4, <1>5, <1>6, <1>7, <1>9

LEMMA OrphansStep ==
    ASSUME LostInv, NEW ends, ends \subseteq {i \in same : Orphan(i)}, RemovesOrphans(ends)
    PROVE  LostInv'
<1> USE LostNodeAssumption DEF LostInv, Nowhere
<1>1. ends \subseteq Instance /\ \A i \in ends : pod[i] = "pending"
  BY DEF Orphan, LostTypes
<1>2. LostFlags'
  BY DEF RemovesOrphans, LostFlags
<1>3. LostTypes'
  BY <1>1 DEF RemovesOrphans, PodsEnd, LostTypes
<1>4. PlaceInv'
  BY <1>1 DEF RemovesOrphans, PodsEnd, LostTypes, PlaceInv
<1>5. GivenUpInv' /\ PodsInv'
  BY <1>1 DEF RemovesOrphans, PodsEnd, LostTypes, GivenUpInv, PodsInv
<1>6. CopyKeptInv'
  BY <1>1 DEF RemovesOrphans, PodsEnd, LostTypes, CopyKeptInv, Copies
<1> QED
  BY <1>2, <1>3, <1>4, <1>5, <1>6

LEMMA EndStep ==
    ASSUME LostInv, PassEnds \/ \E i \in Instance : CallFails(i)
    PROVE  LostInv'
<1> USE LostNodeAssumption DEF LostInv, database, Nowhere
<1>1. CASE PassEnds
  <2>1. LostFlags'
    BY <1>1 DEF PassEnds, LostFlags
  <2>2. LostTypes' /\ PlaceInv' /\ GivenUpInv'
    BY <1>1 DEF PassEnds, LostTypes, PlaceInv, GivenUpInv
  <2>3. PodsInv' /\ CopyKeptInv'
    BY <1>1 DEF PassEnds, PodsInv, CopyKeptInv
  <2> QED
    BY <2>1, <2>2, <2>3
<1>2. ASSUME NEW i \in Instance, CallFails(i) PROVE LostInv'
  <2>1. LostFlags'
    BY <1>2 DEF CallFails, LostFlags
  <2>2. LostTypes' /\ PlaceInv' /\ GivenUpInv'
    BY <1>2 DEF CallFails, LostTypes, PlaceInv, GivenUpInv
  <2>3. PodsInv' /\ CopyKeptInv'
    BY <1>2 DEF CallFails, LostTypes, PodsInv, CopyKeptInv, Copies
  <2> QED
    BY <2>1, <2>2, <2>3
<1> QED
  BY <1>1, <1>2

(* A pod that runs is not one whose volume is lost.                        *)
LEMMA RunningHasVolume ==
    ASSUME LostInv, NEW i \in Instance, ReplaceNow(i), plan[i] = "stuck"
    PROVE  pod[i] # "ready" /\ (pod[i] = "unready" => volume[i] = "faulted")
  BY LostNodeAssumption DEF LostInv, ReplaceNow, LostItsVolume, Stranded, PlaceInv, LostTypes, Nowhere

(* What a forced deletion leaves of the pod that was read.                 *)
LEMMA ForcedDeletion ==
    ASSUME LostTypes, NEW i \in Instance, forceDeletePod(i)
    PROVE  \/ i \notin same /\ UNCHANGED <<pod, on, waited, same>>
           \/ /\ i \in same /\ pod' = [pod EXCEPT ![i] = "none"] /\ on' = [on EXCEPT ![i] = Nowhere]
              /\ same' = same \ {i} /\ waited' = [waited EXCEPT ![i] = 0]
  BY DEF forceDeletePod, ThePodRead, PodsEnd, LostTypes

LEMMA RecoverStep ==
    ASSUME LostInv, NEW i \in Instance, recoverInstance(i)
    PROVE  LostInv' /\ LastCopyKept /\ RunningPodKept
<1> USE LostNodeAssumption DEF LostInv, Nowhere
<1>1. /\ pass = "instances" /\ plan[i] \in {"lost", "stuck"}
      /\ UNCHANGED <<kind, machine, volume, home, primary, pass, primaryUp, moved>>
  BY DEF recoverInstance
<1>2. LostFlags'
  BY <1>1 DEF LostFlags
<1>3. CASE ReplaceNow(i)
  <2>1. /\ deleted' = deleted \union {i} /\ plan' = [plan EXCEPT ![i] = "delete"]
        /\ UNCHANGED <<pod, on, waited, same>>
    BY <1>3 DEF recoverInstance, ReplaceNow, StartElsewhere, claimsReplicated
  <2>2. plan[i] = "stuck" => pod[i] # "ready" /\ (pod[i] = "unready" => volume[i] = "faulted")
    BY <1>3, RunningHasVolume
  <2>3. LostTypes' /\ PlaceInv'
    BY <1>1, <2>1 DEF LostTypes, PlaceInv
  <2>4. GivenUpInv'
    BY <1>1, <2>1, <2>2 DEF GivenUpInv, CopyKeptInv
  <2>5. PodsInv'
    BY <1>1, <2>1, <2>2 DEF LostTypes, PodsInv
  <2>6. primaryUp
    BY <1>1, <1>3 DEF ReplaceNow, CopyKeptInv
  <2>7. ~moved => \E p \in Copies : plan[p] = "leave" /\ p \in Copies' /\ plan'[p] = "leave"
    BY <1>1, <2>1, <2>6 DEF CopyKeptInv, Copies, LostTypes
  <2>8. CopyKeptInv'
    BY <1>1, <2>1, <2>7 DEF CopyKeptInv, LostTypes
  <2>9. LastCopyKept /\ RunningPodKept
    BY <2>1, <2>7 DEF LastCopyKept, RunningPodKept
  <2> QED
    BY <1>2, <2>3, <2>4, <2>5, <2>8, <2>9
<1>4. CASE ~ReplaceNow(i)
  <2>1. /\ deleted' = deleted /\ plan' = [plan EXCEPT ![i] = "leave"]
    BY <1>4 DEF recoverInstance
  <2>2. \/ UNCHANGED <<pod, on, waited, same>>
        \/ /\ i \in same /\ pod[i] = "terminating"
           /\ pod' = [pod EXCEPT ![i] = "none"] /\ on' = [on EXCEPT ![i] = Nowhere]
           /\ same' = same \ {i} /\ waited' = [waited EXCEPT ![i] = 0]
    <3>1. CASE StartElsewhere(i)
      BY <3>1, ForcedDeletion DEF recoverInstance, StartElsewhere, PodsInv
    <3>2. CASE ~StartElsewhere(i)
      BY <3>2 DEF recoverInstance
    <3> QED
      BY <3>1, <3>2
  <2>3. LostTypes'
    BY <1>1, <2>1, <2>2 DEF LostTypes
  <2>4. PlaceInv'
    BY <1>1, <2>1, <2>2 DEF LostTypes, PlaceInv
  <2>5. GivenUpInv' /\ PodsInv'
    BY <1>1, <2>1, <2>2 DEF LostTypes, GivenUpInv, PodsInv
  <2>6. Copies' = Copies
    BY <1>1, <2>1 DEF Copies
  <2>7. CopyKeptInv'
    BY <1>1, <2>1, <2>2, <2>6 DEF LostTypes, CopyKeptInv
  <2>8. LastCopyKept /\ RunningPodKept
    BY <2>2, <2>6 DEF LastCopyKept, RunningPodKept, LostTypes
  <2> QED
    BY <1>2, <2>3, <2>4, <2>5, <2>7, <2>8
<1> QED
  BY <1>3, <1>4

LEMMA ReplaceStep ==
    ASSUME LostInv, NEW i \in Instance, replacePostgresInstance(i)
    PROVE  LostInv' /\ LastCopyKept /\ RunningPodKept
<1> USE LostNodeAssumption DEF LostInv, Nowhere
<1>1. /\ plan[i] = "delete" /\ plan' = [plan EXCEPT ![i] = "leave"]
      /\ UNCHANGED <<kind, machine, volume, deleted, home, primary, pass, primaryUp, moved>>
  BY DEF replacePostgresInstance
<1>2. \/ UNCHANGED <<pod, on, waited, same>>
      \/ /\ i \in same /\ pod[i] # "ready"
         /\ pod' = [pod EXCEPT ![i] = "none"] /\ on' = [on EXCEPT ![i] = Nowhere]
         /\ same' = same \ {i} /\ waited' = [waited EXCEPT ![i] = 0]
  BY <1>1, ForcedDeletion DEF replacePostgresInstance, PodsInv
<1>3. LostFlags'
  BY <1>1 DEF LostFlags
<1>4. LostTypes'
  BY <1>1, <1>2 DEF LostTypes
<1>5. PlaceInv'
  BY <1>1, <1>2 DEF LostTypes, PlaceInv
<1>6. GivenUpInv' /\ PodsInv'
  BY <1>1, <1>2 DEF LostTypes, GivenUpInv, PodsInv
<1>7. Copies' = Copies
  BY <1>1 DEF Copies
<1>8. CopyKeptInv'
  BY <1>1, <1>2, <1>7 DEF LostTypes, CopyKeptInv
<1>9. LastCopyKept /\ RunningPodKept
  BY <1>2, <1>7 DEF LastCopyKept, RunningPodKept, LostTypes
<1> QED
  BY <1>3, <1>4, <1>5, <1>6, <1>8, <1>9

LEMMA LostStep ==
    ASSUME LostInv, [LostNext]_lostVars
    PROVE  LostInv'
<1>1. ASSUME Finished \/ CutOff PROVE PassEnds
  BY <1>1 DEF Finished, CutOff
<1>2. ASSUME NEW ends \in SUBSET same, RemovesOrphans(ends \intersect {i \in same : Orphan(i)}) PROVE LostInv'
  BY <1>2, OrphansStep
<1>3. ASSUME removeInstancesWithoutVolume PROVE LostInv'
  BY <1>3, OrphansStep DEF removeInstancesWithoutVolume
<1> QED
  BY <1>1, <1>2, <1>3, LostStutters, MachinesStep, WorldStep, ReadStep, EndStep, RecoverStep, ReplaceStep
     DEF LostNext, LostPass, PassFails, PassStep

(* Whatever a step is besides, as a step of the pass it keeps a copy and   *)
(* the pods that run.                                                      *)
LEMMA LostStepSafe ==
    ASSUME LostInv
    PROVE  LastCopyKept /\ RunningPodKept
<1>1. LastCopyKept
  <2>1. ASSUME NEW i \in Instance, PassStep(i) PROVE LastCopyKept
    BY <2>1, RecoverStep, ReplaceStep DEF PassStep
  <2> QED
    BY <2>1 DEF LastCopyKept
<1>2. RunningPodKept
  <2>1. ASSUME NEW i \in Instance, PassStep(i) PROVE RunningPodKept
    BY <2>1, RecoverStep, ReplaceStep DEF PassStep
  <2>2. ASSUME reconcileLostNodes \/ Finished PROVE RunningPodKept
    BY <2>2 DEF reconcileLostNodes, Finished, PassEnds, database, RunningPodKept
  <2>3. ASSUME removeInstancesWithoutVolume PROVE RunningPodKept
    BY <2>3 DEF removeInstancesWithoutVolume, RemovesOrphans, Orphan, LostInv, LostTypes, RunningPodKept
  <2> QED
    BY <2>1, <2>2, <2>3 DEF RunningPodKept, LostPass
<1> QED
  BY <1>1, <1>2

(* A pass over the databases of lost machines (lost_node.go) never gives   *)
(* up the last copy of the data while nothing moves under it, and never    *)
(* removes a pod that runs, whatever machines, Kubernetes and CloudNativePG*)
(* do between its calls.                                                   *)
THEOREM RecoveryKeepsData == LostSpec => LostSafe
<1>1. LostInv /\ [LostNext]_lostVars => LostInv'
  BY LostStep
<1>2. LostInv => LostTypeOK
  BY DEF LostInv, LostFlags, LostTypes, LostTypeOK
<1>3. LostInv => LastCopyKept /\ RunningPodKept
  BY LostStepSafe
<1>4. LostInv /\ LostInv' => [lostVars' # lostVars => LostTypeOK' /\ LastCopyKept /\ RunningPodKept]_lostVars
  <2>1. LostInv' => LostTypeOK'
    BY <1>2, PTL
  <2> QED
    BY <1>3, <2>1
<1> QED
  BY LostStart, <1>1, <1>4, PTL DEF LostSpec, LostSafe

-----------------------------------------------------------------------------
(***************************************************************************)
(* Rollouts.                                                               *)
(***************************************************************************)

(* The Deployment is read back as it is.                                   *)
ReadsItsWrites == "lag" \notin RolloutHappens

Marks == [of : Version, event : {"none", "started", "succeeded", "failed"}]
Passes == [at : {"idle", "waits", "begun", "deployed", "routed", "fails", "ready", "wakes", "starts", "tells"},
           version : Version, suspended : BOOLEAN, verifying : BOOLEAN, fresh : BOOLEAN,
           mark : Marks, event : {"none", "succeeded", "failed"}]
Reasons == {"none", "ReconcileError", "ProvisionFailed", "RolloutFailed", "Waking", "Suspended", "AppReady"}

(* The types, with those of the pass.                                      *)
ServiceInv ==
    /\ app \in [version : Version, suspended : BOOLEAN, sleepy : BOOLEAN]
    /\ announced \in [mark : Marks, waiting : SUBSET Version]
    /\ \A v \in announced.waiting : 1 <= v /\ v <= app.version
    /\ appPass \in Passes
StatusInv ==
    /\ rollout \in [reason : Reasons, failures : 0 .. MaxFailures, gaveUpOn : Version,
                    health : 0 .. FailureThreshold, paused : BOOLEAN]
    /\ told \subseteq (1 .. MaxVersion) \X {"succeeded", "failed"}
ClusterInv ==
    /\ deployment \in [version : Version, replicas : 0 .. 1, observed : BOOLEAN]
    /\ deployment.version <= app.version
    /\ copies \in [up : SUBSET Version, crashing : SUBSET Broken, started : SUBSET (Version \ Broken)]
    /\ sleeper \in [there : BOOLEAN, verified : Version, min : 0 .. 1]

(* A pass works on a service that was not given up.                        *)
CountInv == rollout.failures < MaxFailures \/ (rollout.reason = "ProvisionFailed" /\ appPass.at \in {"idle", "tells"})

(* From its write on the Deployment has the version of the pass; no later  *)
(* version ever had a copy up.                                             *)
VersionInv ==
    /\ appPass.version <= app.version
    /\ appPass.at \notin {"idle", "waits"} => appPass.version >= 1
    /\ appPass.at = "begun" => deployment.version <= appPass.version
    /\ appPass.at \in {"deployed", "routed", "ready", "wakes", "starts"} => deployment.version = appPass.version
    /\ appPass.at = "tells" => appPass.event \in {"succeeded", "failed"}
    /\ copies.up \subseteq copies.started
    /\ \A w \in copies.started : w <= deployment.version

(* What is let sleep or told to have succeeded has run.                    *)
Ran(v) == \E w \in copies.started : w <= v
RanInv ==
    /\ sleeper.verified \in copies.started \cup {0}
    /\ (appPass.at \in {"routed", "ready", "wakes", "starts"} /\ app.sleepy /\ ~appPass.suspended /\ ~appPass.verifying) =>
          appPass.version \in copies.started
    /\ (appPass.at = "ready" /\ ~appPass.suspended) => Ran(appPass.version)
    /\ (appPass.at = "tells" /\ appPass.event = "succeeded") => Ran(appPass.version)
    /\ \A v \in 1 .. MaxVersion : <<v, "succeeded">> \in told => Ran(v)

RolloutInv == ServiceInv /\ StatusInv /\ ClusterInv /\ CountInv /\ VersionInv /\ RanInv

-----------------------------------------------------------------------------
LEMMA Versions ==
    /\ 0 \in Version /\ \A v \in Version : v \in Nat /\ v <= MaxVersion
    /\ \A v \in Nat : v <= MaxVersion => v \in Version
    /\ Broken \subseteq Version
    /\ MaxVersion \in Nat /\ MaxFailures \in Nat /\ MaxFailures >= 1 /\ FailureThreshold \in Nat
  BY RolloutAssumption DEF Version

LEMMA AppIdleType ==
    /\ AppIdle \in Passes /\ AppIdle.at = "idle" /\ AppIdle.version = 0 /\ AppIdle.mark \in Marks
    /\ AppIdle.mark.of = 0 /\ AppIdle.mark.event = "none" /\ AppIdle.event = "none"
    /\ NoSleeper \in [there : BOOLEAN, verified : Version, min : 0 .. 1] /\ NoSleeper.verified = 0
  BY Versions DEF AppIdle, Passes, Marks, NoSleeper

LEMMA RolloutStart == RolloutInit => RolloutInv
<1> SUFFICES ASSUME RolloutInit PROVE RolloutInv
  OBVIOUS
<1> USE Versions, AppIdleType DEF RolloutInit
<1>1. ServiceInv
  BY DEF ServiceInv
<1>2. StatusInv
  BY DEF StatusInv, Reasons
<1>3. ClusterInv
  BY DEF ClusterInv
<1>4. CountInv /\ VersionInv
  BY DEF CountInv, VersionInv
<1>5. RanInv
  BY DEF RanInv
<1> QED
  BY <1>1, <1>2, <1>3, <1>4, <1>5 DEF RolloutInv

(* Nothing happens.                                                        *)
LEMMA StutterStep ==
    ASSUME RolloutInv, UNCHANGED rolloutVars
    PROVE  RolloutInv'
<1> USE Versions, AppIdleType DEF RolloutInv
<1>1. ServiceInv'
  BY DEF rolloutVars, ServiceInv
<1>2. StatusInv'
  BY DEF rolloutVars, StatusInv
<1>3. ClusterInv'
  BY DEF rolloutVars, ClusterInv
<1>4. CountInv'
  BY DEF rolloutVars, CountInv
<1>5. VersionInv'
  BY DEF rolloutVars, VersionInv
<1>6. RanInv'
  BY DEF rolloutVars, RanInv, Ran
<1> QED
  BY <1>1, <1>2, <1>3, <1>4, <1>5, <1>6

(* A deploy.                                                               *)
LEMMA DeploysStep ==
    ASSUME RolloutInv, DeploysApp
    PROVE  RolloutInv'
<1> USE Versions, AppIdleType DEF RolloutInv
<1>0. /\ app.version \in Nat /\ app.version + 1 \in Version /\ app' \in [version : Version, suspended : BOOLEAN, sleepy : BOOLEAN]
      /\ app'.version = app.version + 1 /\ app'.sleepy = app.sleepy
      /\ appPass' \in Passes /\ appPass'.at = appPass.at /\ appPass'.version = appPass.version /\ appPass'.event = appPass.event
      /\ announced' \in [mark : Marks, waiting : SUBSET Version] /\ announced'.waiting = announced.waiting \cup {app.version + 1}
  <2>1. app.version \in Nat /\ app.version + 1 \in Version
    BY DEF DeploysApp, ServiceInv
  <2>2. /\ app' \in [version : Version, suspended : BOOLEAN, sleepy : BOOLEAN]
        /\ app'.version = app.version + 1 /\ app'.sleepy = app.sleepy
    BY <2>1 DEF DeploysApp, ServiceInv
  <2>3. /\ appPass' \in Passes /\ appPass'.at = appPass.at /\ appPass'.version = appPass.version
        /\ appPass'.event = appPass.event
    BY DEF DeploysApp, Outdates, ServiceInv, Passes
  <2>4. /\ announced' \in [mark : Marks, waiting : SUBSET Version]
        /\ announced'.waiting = announced.waiting \cup {app.version + 1}
    BY <2>1 DEF DeploysApp, ServiceInv
  <2> QED
    BY <2>1, <2>2, <2>3, <2>4
<1>1. ServiceInv'
  <2>1. \A v \in announced.waiting : v \in Nat
    BY DEF ServiceInv
  <2>2. \A v \in announced'.waiting : 1 <= v /\ v <= app'.version
    BY <1>0, <2>1 DEF ServiceInv
  <2> QED
    BY <1>0, <2>2 DEF ServiceInv
<1>2. StatusInv'
  BY DEF DeploysApp, Outdates, StatusInv
<1>3. ClusterInv'
  BY DEF DeploysApp, Outdates, ServiceInv, ClusterInv
<1>4. CountInv'
  BY DEF DeploysApp, Outdates, CountInv
<1>5. VersionInv'
  <2>1. appPass.version \in Nat /\ UNCHANGED <<deployment, copies>>
    BY DEF DeploysApp, ServiceInv, Passes
  <2> QED
    BY <1>0, <2>1 DEF VersionInv
<1>6. RanInv'
  BY DEF DeploysApp, Outdates, RanInv, Ran
<1> QED
  BY <1>1, <1>2, <1>3, <1>4, <1>5, <1>6

(* A deploy announces itself.                                              *)
LEMMA AnnounceStep ==
    ASSUME RolloutInv, NEW v, announceDeployment(v)
    PROVE  RolloutInv'
<1> USE Versions, AppIdleType DEF RolloutInv
<1>1. ServiceInv'
  BY DEF announceDeployment, Outdates, Marks, ServiceInv, Passes
<1>2. StatusInv'
  BY DEF announceDeployment, Outdates, Marks, StatusInv
<1>3. ClusterInv'
  BY DEF announceDeployment, Outdates, Marks, ClusterInv
<1>4. CountInv'
  BY DEF announceDeployment, Outdates, Marks, CountInv
<1>5. VersionInv'
  BY DEF announceDeployment, Outdates, Marks, VersionInv
<1>6. RanInv'
  BY DEF announceDeployment, Outdates, Marks, RanInv, Ran
<1> QED
  BY <1>1, <1>2, <1>3, <1>4, <1>5, <1>6

(* An administrator suspends the service or releases it.                   *)
LEMMA SuspendsStep ==
    ASSUME RolloutInv, SuspendsApp
    PROVE  RolloutInv'
<1> USE Versions, AppIdleType DEF RolloutInv
<1>1. ServiceInv'
  BY DEF SuspendsApp, Outdates, ServiceInv, Passes
<1>2. StatusInv'
  BY DEF SuspendsApp, Outdates, StatusInv
<1>3. ClusterInv'
  BY DEF SuspendsApp, Outdates, ClusterInv
<1>4. CountInv'
  BY DEF SuspendsApp, Outdates, CountInv
<1>5. VersionInv'
  BY DEF SuspendsApp, Outdates, VersionInv
<1>6. RanInv'
  BY DEF SuspendsApp, Outdates, RanInv, Ran
<1> QED
  BY <1>1, <1>2, <1>3, <1>4, <1>5, <1>6

(* The Retry button.                                                       *)
LEMMA RetryStep ==
    ASSUME RolloutInv, retryProvisionResource
    PROVE  RolloutInv'
<1> USE Versions, AppIdleType DEF RolloutInv
<1>1. ServiceInv'
  BY DEF retryProvisionResource, Outdates, ServiceInv, Passes
<1>2. StatusInv'
  <2>1. 0 \in 0 .. MaxFailures /\ rollout' = [rollout EXCEPT !.reason = "ReconcileError", !.failures = 0, !.gaveUpOn = 0] /\ told' = told
    BY DEF retryProvisionResource
  <2> QED
    BY <2>1 DEF StatusInv, Reasons
<1>3. ClusterInv'
  BY DEF retryProvisionResource, Outdates, ClusterInv
<1>4. CountInv'
  BY DEF retryProvisionResource, Outdates, CountInv
<1>5. VersionInv'
  BY DEF retryProvisionResource, Outdates, VersionInv
<1>6. RanInv'
  BY DEF retryProvisionResource, Outdates, RanInv, Ran
<1> QED
  BY <1>1, <1>2, <1>3, <1>4, <1>5, <1>6

(* Kubernetes observes the Deployment.                                     *)
LEMMA SeenStep ==
    ASSUME RolloutInv, DeploymentSeen
    PROVE  RolloutInv'
<1> USE Versions, AppIdleType DEF RolloutInv
<1>1. ServiceInv'
  BY DEF DeploymentSeen, ServiceInv
<1>2. StatusInv'
  BY DEF DeploymentSeen, StatusInv
<1>3. ClusterInv'
  BY DEF DeploymentSeen, ClusterInv
<1>4. CountInv'
  BY DEF DeploymentSeen, CountInv
<1>5. VersionInv'
  BY DEF DeploymentSeen, VersionInv
<1>6. RanInv'
  BY DEF DeploymentSeen, RanInv, Ran
<1> QED
  BY <1>1, <1>2, <1>3, <1>4, <1>5, <1>6

(* A copy is up.                                                           *)
LEMMA CopyStep ==
    ASSUME RolloutInv, CopyStarts
    PROVE  RolloutInv'
<1> USE Versions, AppIdleType DEF RolloutInv
<1>1. ServiceInv'
  BY DEF CopyStarts, Rolling, ServiceInv
<1>2. StatusInv'
  BY DEF CopyStarts, Rolling, StatusInv
<1>3. ClusterInv'
  BY DEF CopyStarts, Rolling, ClusterInv
<1>4. CountInv'
  BY DEF CopyStarts, Rolling, CountInv
<1>5. VersionInv'
  BY DEF CopyStarts, Rolling, ClusterInv, VersionInv
<1>6. RanInv'
  BY DEF CopyStarts, Rolling, RanInv, Ran
<1> QED
  BY <1>1, <1>2, <1>3, <1>4, <1>5, <1>6

(* A copy cannot start.                                                    *)
LEMMA CrashStep ==
    ASSUME RolloutInv, CopyCrashes
    PROVE  RolloutInv'
<1> USE Versions, AppIdleType DEF RolloutInv
<1>1. ServiceInv'
  BY DEF CopyCrashes, Rolling, ServiceInv
<1>2. StatusInv'
  BY DEF CopyCrashes, Rolling, StatusInv
<1>3. ClusterInv'
  BY DEF CopyCrashes, Rolling, ClusterInv
<1>4. CountInv'
  BY DEF CopyCrashes, Rolling, CountInv
<1>5. VersionInv'
  BY DEF CopyCrashes, Rolling, VersionInv
<1>6. RanInv'
  BY DEF CopyCrashes, Rolling, RanInv, Ran
<1> QED
  BY <1>1, <1>2, <1>3, <1>4, <1>5, <1>6

(* The copies of a service at zero stop.                                   *)
LEMMA StopStep ==
    ASSUME RolloutInv, CopiesStop
    PROVE  RolloutInv'
<1> USE Versions, AppIdleType DEF RolloutInv
<1>1. ServiceInv'
  BY DEF CopiesStop, ServiceInv
<1>2. StatusInv'
  BY DEF CopiesStop, StatusInv
<1>3. ClusterInv'
  BY DEF CopiesStop, ClusterInv
<1>4. CountInv'
  BY DEF CopiesStop, CountInv
<1>5. VersionInv'
  BY DEF CopiesStop, VersionInv
<1>6. RanInv'
  BY DEF CopiesStop, RanInv, Ran
<1> QED
  BY <1>1, <1>2, <1>3, <1>4, <1>5, <1>6

(* The add-on starts or stops what sleeps.                                 *)
LEMMA AddonStep ==
    ASSUME RolloutInv, NEW n \in {0, 1}, AddonScales(n)
    PROVE  RolloutInv'
<1> USE Versions, AppIdleType DEF RolloutInv
<1>1. ServiceInv'
  BY DEF AddonScales, ServiceInv
<1>2. StatusInv'
  BY DEF AddonScales, StatusInv
<1>3. ClusterInv'
  <2>1. n \in 0 .. 1
    OBVIOUS
  <2> QED
    BY <2>1 DEF AddonScales, ServiceInv, ClusterInv
<1>4. CountInv'
  BY DEF AddonScales, CountInv
<1>5. VersionInv'
  BY DEF AddonScales, VersionInv
<1>6. RanInv'
  BY DEF AddonScales, RanInv, Ran
<1> QED
  BY <1>1, <1>2, <1>3, <1>4, <1>5, <1>6

(* A pass begins: the service is not one that was given up.                *)
LEMMA BeginStep ==
    ASSUME RolloutInv, AppPassBegins
    PROVE  RolloutInv'
<1> USE Versions, AppIdleType DEF RolloutInv
<1>1. ServiceInv'
  BY DEF AppPassBegins, ServiceInv, Passes
<1>2. StatusInv' /\ ClusterInv'
  BY DEF AppPassBegins, StatusInv, ClusterInv
<1>3. CountInv'
  <2>1. rollout.reason # "ProvisionFailed"
    BY DEF AppPassBegins, ReconcileProvisionPaused, SyncReconcileRetryForGeneration
  <2> QED
    BY <2>1 DEF AppPassBegins, CountInv
<1>4. VersionInv'
  BY DEF AppPassBegins, ServiceInv, ClusterInv, VersionInv
<1>5. RanInv'
  BY DEF AppPassBegins, RanInv, Ran
<1> QED
  BY <1>1, <1>2, <1>3, <1>4, <1>5

(* The Deployment gets the version of the pass.                            *)
LEMMA WriteStep ==
    ASSUME RolloutInv, reconcileDeployment
    PROVE  RolloutInv'
<1> USE Versions DEF RolloutInv
<1>1. /\ appPass.at = "begun" /\ appPass' = [appPass EXCEPT !.at = "deployed"]
      /\ UNCHANGED <<app, rollout, announced, told, copies, sleeper>>
  BY DEF reconcileDeployment
<1>2. /\ appPass' \in Passes /\ appPass'.at = "deployed" /\ appPass'.version = appPass.version
      /\ appPass.version \in Version
  BY <1>1 DEF ServiceInv, Passes
<1>3. /\ deployment' \in [version : Version, replicas : 0 .. 1, observed : BOOLEAN]
      /\ deployment'.version = appPass.version
  <2> DEFINE replicas == IF ~Active THEN WantedReplicas ELSE IF deployment.version = 0 THEN 1 ELSE deployment.replicas
             seen1 == (deployment.version = appPass.version /\ deployment.replicas = replicas) /\ deployment.observed
  <2>1. replicas \in 0 .. 1
    BY DEF WantedReplicas, ClusterInv
  <2>2. seen1 \in BOOLEAN
    BY DEF ClusterInv
  <2>3. deployment' = [version |-> appPass.version, replicas |-> replicas, observed |-> seen1]
    BY DEF reconcileDeployment
  <2> HIDE DEF replicas, seen1
  <2> QED
    BY <1>2, <2>1, <2>2, <2>3
<1>4. deployment.version \in Nat /\ deployment.version <= appPass.version /\ appPass.version <= app.version /\ appPass.version >= 1
  BY <1>1 DEF ClusterInv, VersionInv
<1>5. ServiceInv' /\ StatusInv' /\ CountInv'
  BY <1>1, <1>2 DEF ServiceInv, StatusInv, CountInv
<1>6. ClusterInv'
  BY <1>1, <1>3, <1>4 DEF ClusterInv
<1>7. \A w \in copies.started : w <= appPass.version
  <2>1. \A w \in copies.started : w \in Nat /\ w <= deployment.version
    BY DEF ClusterInv, VersionInv
  <2> QED
    BY <1>2, <1>4, <2>1
<1>8. VersionInv'
  BY <1>1, <1>2, <1>3, <1>4, <1>7 DEF VersionInv
<1>9. RanInv'
  BY <1>1, <1>2 DEF RanInv, Ran
<1> QED
  BY <1>5, <1>6, <1>8, <1>9

(* Scale to zero: a version that need not be verified was seen to start.   *)
LEMMA ScaleStep ==
    ASSUME RolloutInv, ReadsItsWrites, reconcileScaleToZero
    PROVE  RolloutInv'
<1> USE Versions, AppIdleType DEF RolloutInv
<1> DEFINE verifying == Active /\ sleeper.verified # deployment.version
<1>1. /\ appPass.at = "deployed"
      /\ appPass' = [appPass EXCEPT !.at = "routed", !.verifying = verifying]
      /\ sleeper' = IF Active THEN [there |-> TRUE, verified |-> sleeper.verified, min |-> IF verifying THEN 1 ELSE 0]
                              ELSE NoSleeper
      /\ UNCHANGED <<app, rollout, announced, told, deployment, copies>>
  BY DEF reconcileScaleToZero, templateFingerprint, ReadsItsWrites
<1>2. verifying \in BOOLEAN /\ (verifying <=> Active /\ sleeper.verified # deployment.version)
  BY DEF Active
<1> HIDE DEF verifying
<1>3. /\ appPass' \in Passes /\ appPass'.at = "routed" /\ appPass'.version = appPass.version
      /\ appPass'.verifying = verifying /\ appPass'.suspended = appPass.suspended
  BY <1>1, <1>2 DEF ServiceInv, Passes
<1>4. sleeper' \in [there : BOOLEAN, verified : Version, min : 0 .. 1] /\ sleeper'.verified \in {0, sleeper.verified}
  BY <1>1 DEF ClusterInv
<1>5. ServiceInv' /\ StatusInv' /\ CountInv'
  BY <1>1, <1>3 DEF ServiceInv, StatusInv, CountInv
<1>6. ClusterInv' /\ VersionInv'
  BY <1>1, <1>3, <1>4 DEF ClusterInv, VersionInv
<1>7. (app.sleepy /\ ~appPass.suspended /\ ~verifying) => appPass.version \in copies.started
  <2> SUFFICES ASSUME app.sleepy, ~appPass.suspended, ~verifying PROVE appPass.version \in copies.started
    OBVIOUS
  <2>1. sleeper.verified = deployment.version
    BY <1>2 DEF Active
  <2>2. deployment.version = appPass.version /\ appPass.version >= 1
    BY <1>1 DEF VersionInv
  <2> QED
    BY <2>1, <2>2 DEF RanInv
<1>8. RanInv'
  BY <1>1, <1>3, <1>4, <1>7 DEF RanInv, Ran
<1> QED
  BY <1>5, <1>6, <1>8

(* The gate: a service that is ready has run.                              *)
LEMMA GateStep ==
    ASSUME RolloutInv, startGate
    PROVE  RolloutInv'
<1> USE Versions DEF RolloutInv
<1>1. /\ appPass.at = "routed" /\ UNCHANGED <<app, rollout, announced, told, deployment, copies>>
      /\ \E where \in {"fails", "ready", "wakes", "starts"} :
            /\ appPass' = [appPass EXCEPT !.at = where]
            /\ where = "ready" => (appPass.verifying /\ deploymentVerified) \/ deploymentReady
      /\ \/ sleeper' = sleeper
         \/ deploymentVerified /\ sleeper' = [sleeper EXCEPT !.verified = deployment.version, !.min = 0]
  BY DEF startGate, Finds
<1>2. PICK where \in {"fails", "ready", "wakes", "starts"} :
            /\ appPass' = [appPass EXCEPT !.at = where]
            /\ where = "ready" => (appPass.verifying /\ deploymentVerified) \/ deploymentReady
  BY <1>1
<1>3. /\ appPass' \in Passes /\ appPass'.at = where /\ appPass'.version = appPass.version
      /\ appPass'.verifying = appPass.verifying /\ appPass'.suspended = appPass.suspended
  BY <1>2 DEF ServiceInv, Passes
<1>4. deployment.version \in Version /\ deployment.version = appPass.version /\ appPass.version >= 1
  BY <1>1 DEF ClusterInv, VersionInv
<1>5. deploymentVerified => deployment.version \in copies.started
  BY DEF deploymentVerified, VersionInv
<1>6. /\ sleeper' \in [there : BOOLEAN, verified : Version, min : 0 .. 1]
      /\ sleeper'.verified = sleeper.verified \/ sleeper'.verified \in copies.started
  <2>1. CASE sleeper' = sleeper
    BY <2>1 DEF ClusterInv
  <2>2. CASE deploymentVerified /\ sleeper' = [sleeper EXCEPT !.verified = deployment.version, !.min = 0]
    <3>1. 0 \in 0 .. 1 /\ sleeper \in [there : BOOLEAN, verified : Version, min : 0 .. 1]
      BY DEF ClusterInv
    <3> QED
      BY <1>4, <1>5, <2>2, <3>1
  <2> QED
    BY <1>1, <2>1, <2>2
<1>7. ServiceInv' /\ StatusInv'
  BY <1>1, <1>3 DEF ServiceInv, StatusInv
<1>8. ClusterInv' /\ CountInv'
  BY <1>1, <1>3, <1>6 DEF ClusterInv, CountInv
<1>9. VersionInv'
  BY <1>1, <1>3, <1>4 DEF VersionInv
<1>10. (where = "ready" /\ ~appPass.suspended) => Ran(appPass.version)
  <2> SUFFICES ASSUME where = "ready", ~appPass.suspended PROVE Ran(appPass.version)
    OBVIOUS
  <2>1. \A w \in copies.started : w <= appPass.version
    BY <1>4 DEF VersionInv
  <2>2. CASE deploymentVerified
    BY <1>5, <2>1, <2>2 DEF Ran
  <2>3. CASE copies.up # {}
    BY <2>1, <2>3 DEF Ran, VersionInv
  <2>4. CASE effectiveReplicas = 0
    <3>1. app.sleepy /\ ~appPass.verifying
      BY <2>4 DEF effectiveReplicas, Active
    <3>2. appPass.version \in copies.started
      BY <1>1, <3>1 DEF RanInv
    <3> QED
      BY <2>1, <3>2 DEF Ran
  <2> QED
    BY <1>2, <2>2, <2>3, <2>4 DEF deploymentReady
<1>11. RanInv'
  BY <1>1, <1>3, <1>6, <1>10 DEF RanInv, Ran
<1> QED
  BY <1>7, <1>8, <1>9, <1>11

(* A call of the pass fails.                                               *)
LEMMA FailsStep ==
    ASSUME RolloutInv, AppPassFails
    PROVE  RolloutInv'
<1> USE Versions, AppIdleType DEF RolloutInv
<1>1. ServiceInv'
  BY DEF AppPassFails, Finds, ServiceInv, Passes
<1>2. StatusInv'
  BY DEF AppPassFails, Finds, StatusInv
<1>3. ClusterInv'
  BY DEF AppPassFails, Finds, ClusterInv
<1>4. CountInv'
  BY DEF AppPassFails, Finds, CountInv
<1>5. VersionInv'
  BY DEF AppPassFails, Finds, VersionInv
<1>6. RanInv'
  BY DEF AppPassFails, Finds, RanInv, Ran
<1> QED
  BY <1>1, <1>2, <1>3, <1>4, <1>5, <1>6

(* The failure is counted, and at the limit the service is given up.       *)
LEMMA NotReadyStep ==
    ASSUME RolloutInv, setNotReady
    PROVE  RolloutInv'
<1> USE Versions, AppIdleType DEF RolloutInv
<1>1. /\ appPass.at \in {"fails", "waits"} /\ rollout' = ApplyNotReady
      /\ UNCHANGED <<app, announced, told, deployment, copies, sleeper>>
  BY DEF setNotReady
<1>2. rollout.failures \in Nat /\ rollout.failures < MaxFailures /\ app.version \in Version /\ announced.mark \in Marks
  BY <1>1 DEF StatusInv, CountInv, ServiceInv
<1>3. /\ rollout' \in [reason : Reasons, failures : 0 .. MaxFailures, gaveUpOn : Version,
                      health : 0 .. FailureThreshold, paused : BOOLEAN]
      /\ rollout'.reason = "ProvisionFailed" => appPass.at = "fails"
      /\ rollout'.reason # "ProvisionFailed" => rollout'.failures < MaxFailures
  <2>1. CASE appPass.at # "fails"
    <3>1. rollout' = [rollout EXCEPT !.reason = "ReconcileError", !.failures = 0, !.gaveUpOn = 0]
      BY <1>1, <2>1 DEF ApplyNotReady
    <3>2. 0 \in 0 .. MaxFailures /\ 0 < MaxFailures /\ 0 \in Version
      BY RolloutAssumption DEF Version
    <3>3. /\ rollout \in [reason : Reasons, failures : 0 .. MaxFailures, gaveUpOn : Version,
                          health : 0 .. FailureThreshold, paused : BOOLEAN]
          /\ "ReconcileError" \in Reasons
      BY DEF StatusInv, Reasons
    <3> QED
      BY <3>1, <3>2, <3>3
  <2>2. CASE appPass.at = "fails" /\ GivesUp
    <3>1. /\ rollout' = [rollout EXCEPT !.reason = "ProvisionFailed", !.failures = Counts, !.gaveUpOn = app.version]
          /\ Counts \in 0 .. MaxFailures
      BY <1>1, <1>2, <2>2 DEF ApplyNotReady, Counts
    <3> QED
      BY <1>2, <2>2, <3>1 DEF StatusInv, Reasons
  <2>3. CASE appPass.at = "fails" /\ ~GivesUp
    <3>1. /\ rollout' = [rollout EXCEPT !.reason = "ReconcileError", !.failures = Counts]
          /\ Counts \in 0 .. MaxFailures /\ Counts < MaxFailures
      BY <1>1, <1>2, <2>3 DEF ApplyNotReady, Counts, GivesUp
    <3> QED
      BY <3>1 DEF StatusInv, Reasons
  <2> QED
    BY <2>1, <2>2, <2>3
<1>4. \/ rollout'.reason # "ProvisionFailed" /\ appPass' = AppIdle
      \/ /\ rollout'.reason = "ProvisionFailed" /\ appPass' \in Passes /\ appPass'.at = "tells"
         /\ appPass'.version = app.version /\ appPass'.event = "failed" /\ app.version >= 1
  <2>1. CASE rollout'.reason = "ProvisionFailed"
    <3>1. appPass' = [appPass EXCEPT !.at = "tells", !.version = app.version, !.event = "failed", !.fresh = TRUE, !.mark = announced.mark]
      BY <2>1 DEF setNotReady
    <3>2. appPass' \in Passes /\ appPass'.at = "tells" /\ appPass'.version = app.version /\ appPass'.event = "failed"
      BY <1>2, <3>1 DEF ServiceInv, Passes
    <3>3. appPass.version \in Nat /\ appPass.version >= 1 /\ appPass.version <= app.version /\ app.version \in Nat
      BY <1>2, <1>3, <2>1 DEF ServiceInv, VersionInv, Passes
    <3> QED
      BY <2>1, <3>2, <3>3
  <2>2. CASE rollout'.reason # "ProvisionFailed"
    BY <2>2 DEF setNotReady
  <2> QED
    BY <2>1, <2>2
<1>5. ServiceInv' /\ StatusInv'
  BY <1>1, <1>3, <1>4 DEF ServiceInv, StatusInv
<1>6. ClusterInv' /\ CountInv'
  BY <1>1, <1>3, <1>4 DEF ClusterInv, CountInv
<1>7. VersionInv'
  BY <1>1, <1>2, <1>4 DEF VersionInv
<1>8. RanInv'
  BY <1>1, <1>4 DEF RanInv, Ran
<1> QED
  BY <1>5, <1>6, <1>7, <1>8

(* The service wakes.                                                      *)
LEMMA WakingStep ==
    ASSUME RolloutInv, setWaking
    PROVE  RolloutInv'
<1> USE Versions, AppIdleType DEF RolloutInv
<1>1. ServiceInv'
  BY DEF setWaking, ServiceInv
<1>2. StatusInv'
  BY DEF setWaking, StatusInv, Reasons
<1>3. ClusterInv'
  BY DEF setWaking, ClusterInv
<1>4. CountInv'
  BY DEF setWaking, CountInv
<1>5. VersionInv'
  BY DEF setWaking, ServiceInv, VersionInv
<1>6. RanInv'
  BY DEF setWaking, RanInv, Ran
<1> QED
  BY <1>1, <1>2, <1>3, <1>4, <1>5, <1>6

(* A health check fails.                                                   *)
LEMMA HealthStep ==
    ASSUME RolloutInv, HealthCheckFails
    PROVE  RolloutInv'
<1> USE Versions, AppIdleType DEF RolloutInv
<1>1. appPass.at = "starts" /\ UNCHANGED <<app, announced, told, deployment, copies, sleeper>>
  BY DEF HealthCheckFails
<1>2. rollout.failures < MaxFailures /\ rollout.health \in 0 .. FailureThreshold
  BY <1>1 DEF CountInv, StatusInv
<1>3. /\ rollout' \in [reason : Reasons, failures : 0 .. MaxFailures, gaveUpOn : Version,
                      health : 0 .. FailureThreshold, paused : BOOLEAN]
      /\ rollout'.failures < MaxFailures
  <2>1. CASE AtThreshold
    <3>1. \E pauseOnFailure \in BOOLEAN :
             rollout' = [rollout EXCEPT !.reason = "RolloutFailed", !.health = FailureThreshold, !.paused = pauseOnFailure]
      BY <2>1 DEF HealthCheckFails
    <3>2. FailureThreshold \in 0 .. FailureThreshold
      OBVIOUS
    <3> QED
      BY <1>2, <3>1, <3>2 DEF StatusInv, Reasons
  <2>2. CASE ~AtThreshold
    <3>1. PICK h \in 0 .. FailureThreshold : rollout' = [rollout EXCEPT !.health = h]
      <4>1. rollout' = [rollout EXCEPT !.health = IF FailureThreshold > 0 THEN @ + 1 ELSE @]
        BY <2>2 DEF HealthCheckFails
      <4>2. rollout' = [rollout EXCEPT !.health = IF FailureThreshold > 0 THEN rollout.health + 1 ELSE rollout.health]
        BY <4>1
      <4>3. (IF FailureThreshold > 0 THEN rollout.health + 1 ELSE rollout.health) \in 0 .. FailureThreshold
        BY <1>2, <2>2 DEF AtThreshold
      <4> QED
        BY <4>2, <4>3
    <3> QED
      BY <1>2, <3>1 DEF StatusInv, Reasons
  <2> QED
    BY <2>1, <2>2
<1>4. \/ appPass' = AppIdle
      \/ appPass' \in Passes /\ appPass'.at = "waits" /\ appPass'.version = appPass.version
  <2>1. appPass' = AppIdle \/ appPass' = [appPass EXCEPT !.at = "waits"]
    BY DEF HealthCheckFails, Finds
  <2> QED
    BY <2>1 DEF ServiceInv, Passes
<1>5. ServiceInv' /\ StatusInv'
  BY <1>1, <1>3, <1>4 DEF ServiceInv, StatusInv
<1>6. ClusterInv' /\ CountInv'
  BY <1>1, <1>3 DEF ClusterInv, CountInv
<1>7. VersionInv'
  BY <1>1, <1>4 DEF ServiceInv, VersionInv
<1>8. RanInv'
  BY <1>1, <1>4 DEF RanInv, Ran
<1> QED
  BY <1>5, <1>6, <1>7, <1>8

(* The service is ready.                                                   *)
LEMMA ReadyStep ==
    ASSUME RolloutInv, SetReady
    PROVE  RolloutInv'
<1> USE Versions, AppIdleType DEF RolloutInv
<1>1. ServiceInv'
  BY DEF SetReady, TellsReady, ServiceInv, Passes
<1>2. StatusInv'
  BY DEF SetReady, TellsReady, StatusInv, Reasons
<1>3. ClusterInv'
  BY DEF SetReady, TellsReady, ClusterInv
<1>4. CountInv'
  BY DEF SetReady, TellsReady, CountInv
<1>5. VersionInv'
  BY DEF SetReady, TellsReady, ServiceInv, VersionInv
<1>6. RanInv'
  BY DEF SetReady, TellsReady, RanInv, Ran
<1> QED
  BY <1>1, <1>2, <1>3, <1>4, <1>5, <1>6

(* The outcome is claimed and sent.                                        *)
LEMMA NotifyStep ==
    ASSUME RolloutInv, notifyDeployOutcome
    PROVE  RolloutInv'
<1> USE Versions, AppIdleType DEF RolloutInv
<1>1. appPass.at = "tells" /\ appPass' = AppIdle /\ UNCHANGED <<app, rollout, deployment, copies, sleeper>>
  BY DEF notifyDeployOutcome
<1>2. /\ appPass.event \in {"succeeded", "failed"} /\ appPass.version \in 1 .. MaxVersion
      /\ appPass.event = "succeeded" => Ran(appPass.version)
  BY <1>1 DEF ServiceInv, VersionInv, RanInv, Passes
<1>3. \/ UNCHANGED <<announced, told>>
      \/ /\ announced' = [announced EXCEPT !.mark.event = appPass.event]
         /\ told' = told \cup {<<appPass.version, appPass.event>>}
  BY DEF notifyDeployOutcome
<1>4. announced' \in [mark : Marks, waiting : SUBSET Version] /\ announced'.waiting = announced.waiting
  BY <1>2, <1>3 DEF ServiceInv, Marks
<1>5. told' \subseteq (1 .. MaxVersion) \X {"succeeded", "failed"}
  BY <1>2, <1>3 DEF StatusInv
<1>6. ServiceInv' /\ StatusInv'
  BY <1>1, <1>4, <1>5 DEF ServiceInv, StatusInv
<1>7. ClusterInv' /\ CountInv' /\ VersionInv'
  BY <1>1 DEF ServiceInv, ClusterInv, CountInv, VersionInv
<1>8. \A v \in 1 .. MaxVersion : <<v, "succeeded">> \in told' => Ran(v)
  BY <1>2, <1>3 DEF RanInv
<1>9. RanInv'
  BY <1>1, <1>8 DEF RanInv, Ran
<1> QED
  BY <1>6, <1>7, <1>9

(* The pass is cut off.                                                    *)
LEMMA StopsStep ==
    ASSUME RolloutInv, AppPassStops
    PROVE  RolloutInv'
<1> USE Versions, AppIdleType DEF RolloutInv
<1>1. ServiceInv'
  BY DEF AppPassStops, ServiceInv
<1>2. StatusInv'
  BY DEF AppPassStops, StatusInv
<1>3. ClusterInv'
  BY DEF AppPassStops, ClusterInv
<1>4. CountInv'
  BY DEF AppPassStops, CountInv
<1>5. VersionInv'
  BY DEF AppPassStops, ServiceInv, VersionInv
<1>6. RanInv'
  BY DEF AppPassStops, RanInv, Ran
<1> QED
  BY <1>1, <1>2, <1>3, <1>4, <1>5, <1>6

LEMMA RolloutStep ==
    ASSUME ReadsItsWrites, RolloutInv, [RolloutNext]_rolloutVars
    PROVE  RolloutInv'
<1>1. ASSUME AddonWakes \/ AddonIdles PROVE RolloutInv'
  BY <1>1, AddonStep DEF AddonWakes, AddonIdles
<1> QED
  BY <1>1, StutterStep, DeploysStep, AnnounceStep, SuspendsStep, RetryStep, SeenStep, CopyStep, CrashStep,
     StopStep, BeginStep, WriteStep, ScaleStep, GateStep, FailsStep, NotReadyStep, WakingStep, HealthStep,
     ReadyStep, NotifyStep, StopsStep
     DEF RolloutNext, AppPassStep

LEMMA RolloutInvSafe == ASSUME RolloutInv PROVE RolloutSafe
<1> USE Versions DEF RolloutInv
<1>1. RolloutTypeOK
  <2>1. announced.mark \in Marks /\ announced.waiting \subseteq 1 .. app.version
    BY DEF ServiceInv
  <2>2. deployment \in [version : 0 .. app.version, replicas : 0 .. 1, observed : BOOLEAN]
    <3>1. deployment.version \in 0 .. app.version
      BY DEF ServiceInv, ClusterInv
    <3> QED
      BY <3>1 DEF ClusterInv
  <2> QED
    BY <2>1, <2>2 DEF ServiceInv, StatusInv, ClusterInv, RolloutTypeOK, Marks, Reasons
<1>2. SleepsOnlyStarted
  BY DEF RanInv, SleepsOnlyStarted, Active
<1>3. SucceededHasRun
  BY DEF RanInv, SucceededHasRun, Ran
<1> QED
  BY <1>1, <1>2, <1>3 DEF RolloutSafe

(* A rollout (reconcileScaleToZero, startGate, notifyDeployOutcome) lets   *)
(* sleep only a version that had a copy up, and tells of no success before *)
(* any copy ran, when the Deployment is read back as it was written.       *)
THEOREM SleepersHaveRun ==
    ASSUME ReadsItsWrites
    PROVE  RolloutSpec => []RolloutSafe
<1>1. RolloutInv /\ [RolloutNext]_rolloutVars => RolloutInv'
  BY RolloutStep
<1> QED
  BY RolloutStart, RolloutInvSafe, <1>1, PTL DEF RolloutSpec
=============================================================================
