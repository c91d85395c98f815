-------------------------- MODULE ControllerProofs --------------------------
(***************************************************************************)
(* Proofs about what the operator keeps: the schema's level                *)
(* (SchemaMigration), for any number of operators and releases, the status *)
(* of a build (Builds), for any number of commits, and the marks of abuse  *)
(* (ServiceAbuse).                                                         *)
(***************************************************************************)
EXTENDS SchemaMigration, Builds, ServiceAbuse, TLAPS

(* The operators at work on data of an older level.                        *)
Behind(o) == opAt[o] \in {"wait", "migrate", "save"}

(* The record is at most one level behind the data, and what an operator   *)
(* read of it is not ahead of it.  An operator that is to migrate knows a  *)
(* newer level than it read; one that is to record a level has brought the *)
(* data to it.                                                             *)
LevelInv ==
    /\ SchemaTypeOK /\ shape <= schema + 1
    /\ \A o \in Operator : /\ stored[o] <= schema
                           /\ Behind(o) => stored[o] < opLevel[o]
                           /\ opAt[o] = "save" => stored[o] + 1 <= shape

(* An operator that has checked, and that nobody migrated past since, has  *)
(* data and record of its own level.  The one that runs holds the lease,   *)
(* which a newer release waits for, so that nobody who is to migrate knows *)
(* a newer level than it.                                                  *)
CheckedInv ==
    \A p \in Operator : opAt[p] \in {"last", "ready"} /\ p \notin overtaken => schema = opLevel[p] /\ shape = opLevel[p]

RunningInv ==
    \A p \in Operator : opAt[p] = "running" =>
       /\ lease = p /\ schema = opLevel[p] /\ shape = opLevel[p]
       /\ \A o \in Operator : opAt[o] \in {"migrate", "save"} => opLevel[o] <= opLevel[p]

NoSchemaIncident == SchemaHappens = {}

-----------------------------------------------------------------------------
LEMMA LevelInit == SchemaInit => LevelInv /\ CheckedInv /\ RunningInv
  BY SchemaAssumption DEF SchemaInit, LevelInv, CheckedInv, RunningInv, SchemaTypeOK, Behind, Levels

(* Every step keeps the levels in order, whatever releases come and go.    *)
LEMMA LevelStep ==
    ASSUME LevelInv, [SchemaNext]_schemaVars
    PROVE  LevelInv' /\ MigratesInOrder
<1> USE SchemaAssumption DEF LevelInv, SchemaTypeOK, MigratesInOrder, Behind, Levels, StandsAt
<1>1. CASE UNCHANGED schemaVars
  BY <1>1 DEF schemaVars, opVars
<1>2. ASSUME NEW o \in Operator, OperatorStarts(o) PROVE LevelInv' /\ MigratesInOrder
  BY <1>2 DEF OperatorStarts
<1>3. ASSUME NEW o \in Operator, runMigrations(o) PROVE LevelInv' /\ MigratesInOrder
  BY <1>3 DEF runMigrations, TooNew
<1>4. ASSUME NEW o \in Operator, waitForLeaseRelease(o) PROVE LevelInv' /\ MigratesInOrder
  BY <1>4 DEF waitForLeaseRelease
<1>5. ASSUME NEW o \in Operator, Migrate(o) PROVE LevelInv' /\ MigratesInOrder
  BY <1>5 DEF Migrate
<1>6. ASSUME NEW o \in Operator, save(o) PROVE LevelInv' /\ MigratesInOrder
  BY <1>6 DEF save, Records, Unmoved, Conflict
<1>7. ASSUME NEW o \in Operator, SaveRelease(o) PROVE LevelInv' /\ MigratesInOrder
  BY <1>7 DEF SaveRelease, Unmoved, Conflict
<1>8. ASSUME NEW o \in Operator, Leads(o) \/ OperatorStops(o) PROVE LevelInv' /\ MigratesInOrder
  BY <1>8 DEF Leads, OperatorStops
<1>9. CASE LeaseExpires
  BY <1>9 DEF LeaseExpires, opVars
<1> QED
  BY <1>1, <1>2, <1>3, <1>4, <1>5, <1>6, <1>7, <1>8, <1>9 DEF SchemaNext

(* An operator that nobody migrates past keeps its level from its check   *)
(* on: who records a level has overtaken everybody that checked below it.  *)
LEMMA CheckedStep ==
    ASSUME NoSchemaIncident, LevelInv, CheckedInv, RunningInv, [SchemaNext]_schemaVars
    PROVE  CheckedInv'
<1> USE SchemaAssumption DEF LevelInv, SchemaTypeOK, CheckedInv, RunningInv, Levels, StandsAt
<1>1. CASE UNCHANGED schemaVars
  BY <1>1 DEF schemaVars, opVars
<1>2. ASSUME NEW o \in Operator, OperatorStarts(o) PROVE CheckedInv'
  BY <1>2 DEF OperatorStarts
<1>3. ASSUME NEW o \in Operator, runMigrations(o) PROVE CheckedInv'
  BY <1>3 DEF runMigrations, TooNew, NoSchemaIncident
<1>4. ASSUME NEW o \in Operator, waitForLeaseRelease(o) PROVE CheckedInv'
  BY <1>4 DEF waitForLeaseRelease, LeaseFree
<1>5. ASSUME NEW o \in Operator, Migrate(o) PROVE CheckedInv'
  BY <1>5 DEF Migrate, Behind
<1>6. ASSUME NEW o \in Operator, save(o) PROVE CheckedInv'
  BY <1>6 DEF save, Records, Unmoved, Conflict, Behind
<1>7. ASSUME NEW o \in Operator, SaveRelease(o) PROVE CheckedInv'
  BY <1>7 DEF SaveRelease, Unmoved, Conflict
<1>8. ASSUME NEW o \in Operator, Leads(o) PROVE CheckedInv'
  BY <1>8 DEF Leads, Superseded, NoSchemaIncident
<1>9. ASSUME NEW o \in Operator, OperatorStops(o) PROVE CheckedInv'
  BY <1>9 DEF OperatorStops
<1>10. CASE LeaseExpires
  BY <1>10 DEF LeaseExpires, opVars
<1> QED
  BY <1>1, <1>2, <1>3, <1>4, <1>5, <1>6, <1>7, <1>8, <1>9, <1>10 DEF SchemaNext

(* The operator that runs keeps its level: nobody passes the wait while it *)
(* holds the lease, and it takes the lease only when no newer release is   *)
(* past its wait.                                                          *)
LEMMA RunningStep ==
    ASSUME NoSchemaIncident, LevelInv, CheckedInv, RunningInv, [SchemaNext]_schemaVars
    PROVE  RunningInv'
<1> USE SchemaAssumption DEF LevelInv, SchemaTypeOK, CheckedInv, RunningInv, Levels, StandsAt
<1>1. CASE UNCHANGED schemaVars
  BY <1>1 DEF schemaVars, opVars
<1>2. ASSUME NEW o \in Operator, OperatorStarts(o) PROVE RunningInv'
  BY <1>2 DEF OperatorStarts
<1>3. ASSUME NEW o \in Operator, runMigrations(o) PROVE RunningInv'
  BY <1>3 DEF runMigrations, TooNew, NoSchemaIncident
<1>4. ASSUME NEW o \in Operator, waitForLeaseRelease(o) PROVE RunningInv'
  BY <1>4 DEF waitForLeaseRelease, LeaseFree
<1>5. ASSUME NEW o \in Operator, Migrate(o) PROVE RunningInv'
  BY <1>5 DEF Migrate, Behind
<1>6. ASSUME NEW o \in Operator, save(o) PROVE RunningInv'
  BY <1>6 DEF save, Records, Unmoved, Conflict, Behind
<1>7. ASSUME NEW o \in Operator, SaveRelease(o) PROVE RunningInv'
  BY <1>7 DEF SaveRelease, Unmoved, Conflict
<1>8. ASSUME NEW o \in Operator, Leads(o) PROVE RunningInv'
  BY <1>8 DEF Leads, Superseded, NoSchemaIncident
<1>9. ASSUME NEW o \in Operator, OperatorStops(o) PROVE RunningInv'
  BY <1>9 DEF OperatorStops
<1>10. CASE LeaseExpires
  BY <1>10 DEF LeaseExpires, opVars
<1> QED
  BY <1>1, <1>2, <1>3, <1>4, <1>5, <1>6, <1>7, <1>8, <1>9, <1>10 DEF SchemaNext

(* "Data written by an earlier release is brought up to what this one      *)
(* reads before a single controller starts, and an operator that is older  *)
(* than the data refuses to run over it" (cmd/main.go), for any releases   *)
(* that start, stop and are killed in any order: controllers run over data *)
(* and a record of their own level, and migrations run one after the other *)
(* (Run of migrations.go), unless an operator takes the lease that a newer *)
(* release has already found free.                                         *)
THEOREM ReleasesFollow == ASSUME NoSchemaIncident PROVE SchemaSpec => SchemaSafe
<1> DEFINE Inv == LevelInv /\ CheckedInv /\ RunningInv
           Right == schemaVars' # schemaVars => (SchemaTypeOK /\ RunsAtItsLevel)' /\ MigratesInOrder
<1>1. SchemaInit => Inv
  BY LevelInit
<1>2. Inv /\ [SchemaNext]_schemaVars => Inv' /\ MigratesInOrder
  BY LevelStep, CheckedStep, RunningStep
<1>3. Inv => SchemaTypeOK /\ RunsAtItsLevel
  BY DEF LevelInv, RunningInv, RunsAtItsLevel
<1>4. Inv /\ [SchemaNext]_schemaVars => [Right]_schemaVars
  <2>1. Inv' => (SchemaTypeOK /\ RunsAtItsLevel)'
    BY <1>3, PTL
  <2> QED
    BY <1>2, <2>1
<1> QED
  BY <1>1, <1>2, <1>4, PTL DEF SchemaSpec, SchemaSafe
-----------------------------------------------------------------------------
(* Builds.                                                                 *)

(* A commit that a run since the reset may have built, and the phases of a *)
(* build that has a Job, or had one.                                       *)
Recent(c) == c = 0 \/ c >= since
JobPhases == {"Running", "Succeeded", "Failed"}

(* The build counts its resets: one for every commit but the first, and    *)
(* only the newest commit may still wait for its own.                      *)
ResetInv ==
    /\ 1 <= since /\ since <= head /\ build.resets = since - 1
    /\ head = (IF again = "reset" THEN since + 1 ELSE since)

(* A build that has started has a commit, its Job is of that commit, and   *)
(* only a cancelled one shows another phase than its Job's.                *)
StartInv ==
    build.started => /\ build.rev # 0 /\ kaniko.rev \in {0, build.rev}
                     /\ build.cancel \/ build.phase \in JobPhases

(* A pass whose build was put back since it was read finds it not started; *)
(* the build that it finds started is the one it read.                     *)
MineInv ==
    buildPass # "idle" =>
        /\ mine.resets <= build.resets
        /\ build.started => mine.resets = build.resets /\ mine.started /\ mine.rev = build.rev
        /\ build.phase = "Succeeded" => mine.cancel
        /\ mine.started => mine.cancel \/ mine.phase \in JobPhases
        /\ mine.resets = build.resets /\ mine.cancel => build.cancel

(* What a pass is to write: a cancelled build stays so, a Job that it has  *)
(* made is of its commit, and a digest is of the commit beside it.         *)
OutcomeInv ==
    buildPass \in {"look", "patch"} =>
        /\ mine.cancel => result.phase = "Cancelled"
        /\ mine.started /\ ~mine.cancel => result.phase \in JobPhases
        /\ result.started => result.phase = "Running" /\ mine.rev # 0 /\ kaniko.rev \in {0, mine.rev}
        /\ buildPass = "patch" /\ result.phase = "Succeeded" => found \in {0, mine.rev}

(* Unless a pass wrote over the reset, the commit of the build, and of a   *)
(* pass that read it since, is one since the reset.                        *)
RecentInv ==
    ~retold => /\ Recent(build.rev)
               /\ buildPass # "idle" /\ mine.resets = build.resets => Recent(mine.rev)

BuildsInv ==
    /\ BuildsTypeOK /\ ShowsWhatItBuilt /\ ResetIsSeen
    /\ ResetInv /\ StartInv /\ MineInv /\ OutcomeInv /\ RecentInv

LEMMA BuildsStart == BuildsInit => BuildsInv
<1> SUFFICES ASSUME BuildsInit PROVE BuildsInv
  OBVIOUS
<1> USE BuildsAssumption DEF BuildsInit
<1>1. Fresh \in Record /\ Fresh.phase = "Pending" /\ Fresh.started = FALSE /\ Fresh.rev = 0 /\ Fresh.resets = 0
  BY DEF Fresh, Record, Phase, Commit
<1>2. NoJob \in [rev : Commit, state : {"none", "running", "succeeded", "failed"}] /\ NoJob.state = "none" /\ NoJob.rev = 0
  BY DEF NoJob, Commit
<1>3. [phase |-> "Pending", started |-> FALSE] \in [phase : Phase, started : BOOLEAN]
  BY DEF Phase
<1>4. BuildsTypeOK /\ ResetInv
  <2>1. retold \in BOOLEAN /\ jobFound \in BOOLEAN
    BY Zenon
  <2> QED
    BY <1>1, <1>2, <1>3, <2>1 DEF BuildsTypeOK, ResetInv, Commit
<1>5. ShowsWhatItBuilt /\ ResetIsSeen /\ StartInv /\ MineInv /\ OutcomeInv /\ RecentInv
  BY <1>1 DEF ShowsWhatItBuilt, ResetIsSeen, StartInv, MineInv, OutcomeInv, RecentInv, Recent
<1> QED
  BY <1>4, <1>5 DEF BuildsInv

(* A push: the Job goes or is left, then the build is put back.            *)
LEMMA RetriggerKeeps == ASSUME BuildsInv, retriggerBuild PROVE BuildsInv'
<1> USE BuildsAssumption DEF BuildsInv, Recent, JobPhases, buildPassVars
<1>1. CASE again = "idle"
  <2>1. /\ head < MaxCommit /\ head' = head + 1 /\ again' = "reset" /\ kaniko' \in {NoJob, kaniko}
        /\ UNCHANGED <<since, build, buildPass, mine, result, latest, jobFound, found, retold>>
    BY <1>1 DEF retriggerBuild
  <2>2. BuildsTypeOK' /\ ResetInv'
    BY <1>1, <2>1 DEF NoJob, BuildsTypeOK, ResetInv, Commit
  <2>3. kaniko'.rev \in {0, kaniko.rev}
    BY <2>1 DEF NoJob
  <2>4. ShowsWhatItBuilt' /\ ResetIsSeen' /\ StartInv' /\ MineInv' /\ OutcomeInv' /\ RecentInv'
    BY <2>1, <2>3 DEF ShowsWhatItBuilt, ResetIsSeen, StartInv, MineInv, OutcomeInv, RecentInv
  <2> QED
    BY <2>2, <2>4
<1>2. CASE again = "reset"
  <2>1. /\ again' = "idle" /\ since' = head /\ retold' = FALSE /\ build' = [Fresh EXCEPT !.resets = build.resets + 1]
        /\ UNCHANGED <<head, kaniko, buildPass, mine, result, latest, jobFound, found>>
    BY <1>2 DEF retriggerBuild
  <2>2. /\ build'.phase = "Pending" /\ build'.started = FALSE /\ build'.cancel = FALSE /\ build'.digest = 0
        /\ build'.rev = 0 /\ build'.resets = build.resets + 1
    BY <2>1 DEF Fresh
  <2>3. /\ build.resets \in Nat /\ mine.resets \in Nat /\ build.resets + 1 \in 0 .. MaxCommit
    BY <1>2 DEF BuildsTypeOK, ResetInv, Record, Commit
  <2>4. build' \in Record
    <3>1. Fresh \in Record
      BY DEF Fresh, Record, Phase, Commit
    <3> QED
      BY <2>1, <2>3, <3>1 DEF Record, Commit
  <2>5. BuildsTypeOK' /\ ResetInv'
    <3>1. retold' \in BOOLEAN /\ jobFound' \in BOOLEAN
      BY <2>1, Zenon DEF BuildsTypeOK
    <3> QED
      BY <1>2, <2>1, <2>2, <2>3, <2>4, <3>1 DEF BuildsTypeOK, ResetInv, Commit
  <2>6. ShowsWhatItBuilt' /\ ResetIsSeen' /\ StartInv' /\ OutcomeInv'
    BY <2>1, <2>2 DEF ShowsWhatItBuilt, ResetIsSeen, StartInv, OutcomeInv
  <2>7. MineInv' /\ RecentInv'
    BY <2>1, <2>2, <2>3 DEF MineInv, RecentInv
  <2> QED
    BY <2>5, <2>6, <2>7
<1> QED
  BY <1>1, <1>2 DEF retriggerBuild

(* People cancel, and the Job goes on by itself.                           *)
LEMMA OutsideKeeps == ASSUME BuildsInv, CancelBuild \/ JobEnds \/ JobExpires PROVE BuildsInv'
<1> USE BuildsAssumption DEF BuildsInv, Recent, JobPhases, buildPassVars
<1>1. CASE CancelBuild
  <2>1. /\ build' = [build EXCEPT !.cancel = TRUE, !.phase = "Cancelled"] /\ build \in Record
        /\ UNCHANGED <<head, since, kaniko, buildPass, mine, result, latest, jobFound, found, again, retold>>
    BY <1>1 DEF CancelBuild, BuildsTypeOK
  <2>2. /\ build' \in Record /\ build'.phase = "Cancelled" /\ build'.cancel = TRUE /\ build'.started = build.started
        /\ build'.rev = build.rev /\ build'.resets = build.resets
    BY <2>1 DEF Record, Phase
  <2>3. BuildsTypeOK' /\ ResetInv'
    BY <2>1, <2>2 DEF BuildsTypeOK, ResetInv
  <2> QED
    BY <2>1, <2>2, <2>3 DEF ShowsWhatItBuilt, ResetIsSeen, StartInv, MineInv, OutcomeInv, RecentInv
<1>2. CASE JobEnds \/ JobExpires
  <2>1. /\ UNCHANGED <<head, since, build, buildPass, mine, result, latest, jobFound, found, again, retold>>
        /\ kaniko' \in [rev : Commit, state : {"none", "running", "succeeded", "failed"}]
        /\ kaniko'.rev \in {kaniko.rev, 0} /\ (kaniko'.state = "none" <=> kaniko'.rev = 0)
    BY <1>2 DEF JobEnds, JobExpires, NoJob, BuildsTypeOK, Commit
  <2>2. BuildsTypeOK' /\ ResetInv'
    BY <2>1 DEF BuildsTypeOK, ResetInv
  <2> QED
    BY <2>1, <2>2 DEF ShowsWhatItBuilt, ResetIsSeen, StartInv, MineInv, OutcomeInv, RecentInv
<1> QED
  BY <1>1, <1>2

(* What a pass that made no Job is to write.                               *)
LEMMA WritesOnly ==
    ASSUME NEW p \in Phase, Writes(p, FALSE)
    PROVE  buildPass' = "look" /\ result' \in [phase : Phase, started : BOOLEAN] /\ ~result'.started /\ result'.phase = p
  BY DEF Writes

(* A step of a pass that makes no Job: it ends, or is to write a phase     *)
(* that suits what it read.                                                *)
LEMMA QuietStep ==
    ASSUME BuildsInv, buildPass = "act", UNCHANGED <<head, since, build, latest, jobFound, found, again, retold>>,
           kaniko' \in {NoJob, kaniko}, mine' \in Record,
           mine' = mine \/ (~mine.started /\ mine'.rev \in {mine.rev, head}),
           mine'.resets = mine.resets, mine'.started = mine.started, mine'.cancel = mine.cancel, mine'.phase = mine.phase,
           result' \in [phase : Phase, started : BOOLEAN], buildPass' \in {"idle", "look"},
           buildPass' = "look" => /\ ~result'.started
                                  /\ mine.cancel => result'.phase = "Cancelled"
                                  /\ mine.started /\ ~mine.cancel => result'.phase \in JobPhases
    PROVE  BuildsInv'
<1> USE DEF BuildsInv
<1>0. NoJob \in [rev : Commit, state : {"none", "running", "succeeded", "failed"}] /\ NoJob.state = "none" /\ NoJob.rev = 0
  BY BuildsAssumption DEF NoJob, Commit
<1>1. BuildsTypeOK' /\ ShowsWhatItBuilt' /\ ResetIsSeen' /\ ResetInv'
  BY <1>0 DEF BuildsTypeOK, ShowsWhatItBuilt, ResetIsSeen, ResetInv
<1>2. StartInv' /\ OutcomeInv'
  BY DEF StartInv, OutcomeInv, NoJob
<1>3. MineInv'
  BY DEF MineInv
<1>4. RecentInv'
  BY DEF RecentInv, Recent, ResetInv, BuildsTypeOK, Commit
<1> QED
  BY <1>1, <1>2, <1>3, <1>4

(* A pass makes the Job of the commit that it works on.                    *)
LEMMA MakesKeeps == ASSUME BuildsInv, reconcileBuild, MakesJob PROVE BuildsInv'
<1> USE BuildsAssumption DEF BuildsInv
<1>1. buildPass = "act" /\ UNCHANGED <<head, since, build, latest, jobFound, found, again, retold>> /\ ~mine.cancel
  BY DEF reconcileBuild, MakesJob
<1>2. head \in Commit /\ head >= 1 /\ since \in Nat /\ since <= head /\ mine \in Record
  BY DEF BuildsTypeOK, ResetInv, Commit
<1>3. /\ mine' \in Record /\ mine'.resets = mine.resets /\ mine'.started = mine.started /\ mine'.cancel = mine.cancel
      /\ mine'.phase = mine.phase /\ mine'.rev = (IF mine.rev = 0 THEN head ELSE mine.rev) /\ mine'.rev \in Commit
  BY <1>2 DEF MakesJob, Record
<1>4. mine'.rev # 0
  BY <1>2, <1>3
<1>5. /\ kaniko' \in [rev : Commit, state : {"none", "running", "succeeded", "failed"}]
      /\ kaniko'.rev = mine'.rev /\ kaniko'.state = "running"
  BY <1>3 DEF MakesJob
<1>6. /\ buildPass' = "look" /\ result'.phase = "Running" /\ result'.started = TRUE
      /\ result' \in [phase : Phase, started : BOOLEAN]
  BY DEF MakesJob, Writes, Phase
<1>7. BuildsTypeOK' /\ ResetInv'
  BY <1>1, <1>3, <1>4, <1>5, <1>6 DEF BuildsTypeOK, ResetInv
<1>8. ShowsWhatItBuilt' /\ ResetIsSeen' /\ OutcomeInv'
  BY <1>1, <1>3, <1>4, <1>5, <1>6 DEF ShowsWhatItBuilt, ResetIsSeen, OutcomeInv, JobPhases
<1>9. StartInv' /\ MineInv'
  BY <1>1, <1>3, <1>5, <1>6 DEF StartInv, MineInv
<1>10. RecentInv'
  BY <1>1, <1>2, <1>3 DEF RecentInv, Recent
<1> QED
  BY <1>7, <1>8, <1>9, <1>10

(* A pass reads the build and acts on the Job.                             *)
LEMMA PassActs == ASSUME BuildsInv, Reads \/ reconcileBuild \/ BuildPassFails PROVE BuildsInv'
<1> USE BuildsAssumption DEF BuildsInv
<1>1. CASE Reads
  <2>1. /\ buildPass' = "act" /\ mine' = build /\ ~buildSettled(build)
        /\ UNCHANGED <<head, since, build, kaniko, result, latest, jobFound, found, again, retold>>
    BY <1>1 DEF Reads
  <2>2. build.phase = "Succeeded" => build.cancel
    BY <2>1 DEF buildSettled, ShowsWhatItBuilt
  <2>3. BuildsTypeOK' /\ ShowsWhatItBuilt' /\ ResetIsSeen' /\ ResetInv' /\ OutcomeInv'
    BY <2>1 DEF BuildsTypeOK, ShowsWhatItBuilt, ResetIsSeen, ResetInv, OutcomeInv
  <2>4. StartInv' /\ MineInv' /\ RecentInv'
    BY <2>1, <2>2 DEF StartInv, MineInv, RecentInv, Recent, BuildsTypeOK, Record, Commit
  <2> QED
    BY <2>3, <2>4
<1>2. CASE BuildPassFails
  BY <1>2 DEF BuildPassFails, BuildsTypeOK, ShowsWhatItBuilt, ResetIsSeen, ResetInv, StartInv, MineInv, OutcomeInv, RecentInv, Recent
<1>3. CASE reconcileBuild
  <2>1. buildPass = "act" /\ UNCHANGED <<head, since, build, latest, jobFound, found, again, retold>>
    BY <1>3 DEF reconcileBuild
  <2>2. head \in Commit /\ mine \in Record /\ result \in [phase : Phase, started : BOOLEAN]
    BY DEF BuildsTypeOK
  <2>3. mine.started => mine.cancel \/ mine.phase \in JobPhases
    BY <2>1 DEF MineInv
  <2>4. CASE RemovesStale
    BY <2>1, <2>2, <2>4, QuietStep DEF RemovesStale, BuildPassOver
  <2>5. CASE Cancels
    <3>1. kaniko' = NoJob /\ mine' = mine /\ mine.cancel /\ Writes("Cancelled", FALSE) /\ "Cancelled" \in Phase
      BY <2>5 DEF Cancels, Phase
    <3> QED
      BY <2>1, <2>2, <3>1, WritesOnly, QuietStep
  <2>6. CASE refreshGitHubState
    <3>1. ~mine.cancel /\ ~mine.started /\ kaniko' = kaniko
      BY <2>3, <2>6 DEF refreshGitHubState, started, JobPhases
    <3>2. /\ mine' \in Record /\ mine'.resets = mine.resets /\ mine'.started = mine.started /\ mine'.cancel = mine.cancel
          /\ mine'.phase = mine.phase /\ mine'.rev \in {mine.rev, head}
      <4>1. CASE mine' = mine
        BY <2>2, <4>1
      <4>2. CASE mine' = [mine EXCEPT !.rev = IF mine.rev = 0 THEN head ELSE mine.rev]
        BY <2>2, <4>2 DEF Record
      <4> QED
        BY <2>6, <4>1, <4>2 DEF refreshGitHubState
    <3>3. buildPass' = "look" /\ result' \in [phase : Phase, started : BOOLEAN] /\ ~result'.started
      <4>1. PICK p \in {"WaitingForCI", "Failed", "Pending"} : Writes(p, FALSE)
        BY <2>6 DEF refreshGitHubState
      <4>2. p \in Phase
        BY DEF Phase
      <4> QED
        BY <4>1, <4>2, WritesOnly
    <3> QED
      BY <2>1, <3>1, <3>2, <3>3, QuietStep
  <2>7. CASE MakesJob
    BY <1>3, <2>7, MakesKeeps
  <2>8. CASE ReadsJob
    <3>1. UNCHANGED <<kaniko, mine>> /\ ~mine.cancel
      BY <2>8 DEF ReadsJob
    <3>2. CASE kaniko.state # "none"
      <4>1. PhaseOf(kaniko.state) \in JobPhases
        <5>1. CASE kaniko.state = "succeeded"
          BY <5>1 DEF PhaseOf, JobPhases
        <5>2. CASE kaniko.state = "failed"
          BY <5>2 DEF PhaseOf, JobPhases
        <5>3. CASE kaniko.state \notin {"succeeded", "failed"}
          BY <5>3 DEF PhaseOf, JobPhases
        <5> QED
          BY <5>1, <5>2, <5>3
      <4>2. Writes(PhaseOf(kaniko.state), FALSE) /\ PhaseOf(kaniko.state) \in Phase
        BY <2>8, <3>2, <4>1 DEF ReadsJob, JobPhases, Phase
      <4>3. buildPass' = "look" /\ result' \in [phase : Phase, started : BOOLEAN] /\ ~result'.started /\ result'.phase \in JobPhases
        BY <4>1, <4>2, WritesOnly
      <4> QED
        BY <2>1, <2>2, <3>1, <4>3, QuietStep
    <3>3. CASE kaniko.state = "none"
      <4>1. buildPass' = "idle" /\ result' = result
        BY <2>8, <3>3 DEF ReadsJob, BuildPassOver
      <4> QED
        BY <2>1, <2>2, <3>1, <4>1, QuietStep
    <3> QED
      BY <3>2, <3>3
  <2> QED
    BY <1>3, <2>4, <2>5, <2>6, <2>7, <2>8 DEF reconcileBuild
<1> QED
  BY <1>1, <1>2, <1>3

(* The status write reads the build again and what the Job says: what it   *)
(* found in a Job that it did not make is of a build that is still         *)
(* started, so of the one that the pass read.                              *)
LEMMA LookKeeps == ASSUME BuildsInv, updateStatus PROVE BuildsInv'
<1> USE DEF BuildsInv
<1>1. /\ buildPass = "look" /\ latest' = build /\ found' = Digest /\ buildPass' \in {"idle", "patch"}
      /\ jobFound' = (kaniko.state # "none")
      /\ UNCHANGED <<head, since, build, kaniko, mine, result, again, retold>>
  BY DEF updateStatus
<1>2. buildPass' = "patch" => ~PutBack
  BY DEF updateStatus
<1>3. found' \in Commit
  <2>1. CASE result.phase # "Succeeded"
    BY <1>1, <2>1, BuildsAssumption DEF Digest, Commit
  <2>2. CASE result.phase = "Succeeded" /\ kaniko.state = "succeeded"
    BY <1>1, <2>2 DEF Digest, BuildsTypeOK
  <2>3. CASE result.phase = "Succeeded" /\ kaniko.state # "succeeded"
    BY <1>1, <2>3, BuildsAssumption DEF Digest, BuildsTypeOK, Record, Commit
  <2> QED
    BY <2>1, <2>2, <2>3
<1>4. BuildsTypeOK' /\ ResetInv'
  BY <1>1, <1>3 DEF BuildsTypeOK, ResetInv
<1>5. ShowsWhatItBuilt' /\ StartInv' /\ MineInv' /\ RecentInv'
  BY <1>1 DEF ShowsWhatItBuilt, StartInv, MineInv, RecentInv, Recent
<1>6. ResetIsSeen'
  BY <1>1, <1>2 DEF ResetIsSeen, PutBack, MineInv
<1>7. buildPass' = "patch" /\ result.phase = "Succeeded" => found' \in {0, mine.rev}
  <2> SUFFICES ASSUME buildPass' = "patch", result.phase = "Succeeded" PROVE found' \in {0, mine.rev}
    OBVIOUS
  <2>1. ~result.started /\ ~mine.cancel
    BY <1>1 DEF OutcomeInv
  <2>2. CASE kaniko.state = "succeeded"
    <3>1. build.started
      BY <1>2, <2>1, <2>2 DEF PutBack
    <3>2. Digest = kaniko.rev
      BY <2>2 DEF Digest
    <3> QED
      BY <1>1, <3>1, <3>2 DEF StartInv, MineInv
  <2>3. CASE kaniko.state # "succeeded"
    <3>1. build.phase # "Succeeded"
      BY <1>1, <2>1 DEF MineInv
    <3> QED
      BY <1>1, <2>3, <3>1 DEF Digest
  <2> QED
    BY <2>2, <2>3
<1>8. OutcomeInv'
  BY <1>1, <1>7 DEF OutcomeInv
<1> QED
  BY <1>4, <1>5, <1>6, <1>8

(* The status is written, over a reset that came since too.                *)
LEMMA PatchKeeps == ASSUME BuildsInv, PatchStatus PROVE BuildsInv'
<1> USE DEF BuildsInv
<1>1. /\ buildPass = "patch" /\ buildPass' = "idle" /\ build' = Updated(build)
      /\ retold' = (retold \/ mine.resets # build.resets)
      /\ UNCHANGED <<head, since, kaniko, mine, result, latest, jobFound, found, again>>
  BY DEF PatchStatus
<1>2. build \in Record /\ mine \in Record /\ result \in [phase : Phase, started : BOOLEAN] /\ found \in Commit
  BY DEF BuildsTypeOK
<1>3. /\ build'.phase = (IF result.phase = "Succeeded" /\ found = 0 THEN "Failed" ELSE result.phase)
      /\ build'.started = (build.started \/ result.started) /\ build'.rev = mine.rev
      /\ build'.digest = (IF result.phase = "Succeeded" THEN found ELSE build.digest)
      /\ build'.resets = build.resets /\ build'.cancel = build.cancel /\ build' \in Record
  BY <1>1, <1>2 DEF Updated, Record, Phase
<1>4. BuildsTypeOK' /\ ResetInv'
  BY <1>1, <1>3 DEF BuildsTypeOK, ResetInv
<1>5. ShowsWhatItBuilt'
  BY <1>1, <1>3 DEF ShowsWhatItBuilt, OutcomeInv
<1>6. StartInv'
  <2>1. CASE result.started
    BY <1>1, <1>3, <2>1 DEF StartInv, OutcomeInv, JobPhases
  <2>2. CASE ~result.started /\ build.started
    <3>1. mine.resets = build.resets /\ mine.started /\ mine.rev = build.rev
      BY <1>1, <2>2 DEF MineInv
    <3>2. build.cancel \/ build'.phase \in JobPhases
      <4>1. CASE mine.cancel
        BY <1>1, <3>1, <4>1 DEF MineInv
      <4>2. CASE ~mine.cancel
        BY <1>1, <1>3, <3>1, <4>2 DEF OutcomeInv, JobPhases
      <4> QED
        BY <4>1, <4>2
    <3> QED
      BY <1>1, <1>3, <2>2, <3>1, <3>2 DEF StartInv
  <2>3. CASE ~result.started /\ ~build.started
    BY <1>3, <2>3 DEF StartInv
  <2> QED
    BY <2>1, <2>2, <2>3
<1>7. RecentInv'
  BY <1>1, <1>3 DEF RecentInv, Recent
<1>8. ResetIsSeen' /\ MineInv' /\ OutcomeInv'
  BY <1>1 DEF ResetIsSeen, MineInv, OutcomeInv
<1> QED
  BY <1>4, <1>5, <1>6, <1>7, <1>8

(* A build that is put back, cancelled and pushed over while a pass is at  *)
(* work on it (updateStatus), for any number of pushes and with nothing    *)
(* left out: it shows the digest of the commit it shows; a pass that found *)
(* a Job notices every reset that came before its look; and unless a pass  *)
(* begun before the reset wrote over it, "a digest left from its last run  *)
(* is never taken for the result of this one".                             *)
THEOREM BuildShowsItsOwn == BuildsSpec => []BuildsSafe
<1>1. BuildsInv /\ [BuildsNext]_buildVars => BuildsInv'
  <2> SUFFICES ASSUME BuildsInv, [BuildsNext]_buildVars PROVE BuildsInv'
    OBVIOUS
  <2>1. CASE UNCHANGED buildVars
    BY <2>1 DEF buildVars, buildPassVars, BuildsInv, BuildsTypeOK, ShowsWhatItBuilt, ResetIsSeen, ResetInv, StartInv, MineInv,
       OutcomeInv, RecentInv, Recent
  <2> QED
    BY <2>1, RetriggerKeeps, OutsideKeeps, PassActs, LookKeeps, PatchKeeps DEF BuildsNext, BuildPass
<1>2. BuildsInv => BuildsSafe
  BY DEF BuildsInv, BuildsSafe, ShowsWhatItBuilt, RecentInv, Recent, ResultIsOwn
<1> QED
  BY BuildsStart, <1>1, <1>2, PTL DEF BuildsSpec

(***************************************************************************)
(* Abuse detection (ServiceAbuse), for any number of services and any      *)
(* window, gap and length of a review.                                     *)
(***************************************************************************)
Runs == [since : Nat, last : Nat, copies : Nat]
Spells == [from : Nat, last : Nat]
Suspicions == [source : {"none", "cpu", "report"}, suspended : BOOLEAN]
Marks == [suspect : Suspicions, until : 0 .. MaxMinute + Exemption]

AbuseSets ==
    /\ abuseOn \in [on : BOOLEAN, suspends : BOOLEAN]
    /\ marks \in [Service -> Marks]
    /\ verdict \in [Service -> {"none", "Suspended", "Suspected", "Reviewed"}]
    /\ accused \subseteq Service
    /\ runs \in [Service -> Runs]
    /\ sampling \in [at : Nat, left : SUBSET Service, runs : [Service -> Runs], suspends : BOOLEAN, calm : SUBSET Service]
    /\ abusePass \in [working : BOOLEAN, left : SUBSET Service, accused : SUBSET Service, again : BOOLEAN]
    /\ copiesOf \in [Service -> Nat]
    /\ spell \in [Service -> Spells]

(* A sample is of its minute.                                              *)
ClockInv ==
    /\ minute \in 1 .. MaxMinute /\ sampledAt \in Nat /\ sampledAt <= minute
    /\ sampling # NoSample => sampling.at = sampledAt /\ sampling.at > 0

(* A run of the present copies lies within their spell, or the next sample *)
(* comes too late for it.                                                  *)
Fits(run, s) ==
    run # NoRun /\ run.copies = copiesOf[s] =>
        /\ spell[s] # NoSpell /\ run.last <= spell[s].last
        /\ spell[s].from <= run.since \/ spell[s].last - run.last > MaxGap
OfItsTime(run, s) == run.since <= run.last /\ run.last <= sampledAt /\ run.copies <= copiesOf[s]

(* The runs that are kept and those the sample at work has made fit; a run *)
(* whose service the sample found calm goes when the sample is written.    *)
RunInv(s) ==
    /\ OfItsTime(runs[s], s) /\ OfItsTime(sampling.runs[s], s)
    /\ spell[s].from <= spell[s].last /\ spell[s].last <= sampledAt
    /\ s \notin sampling.calm => Fits(runs[s], s)
    /\ Fits(sampling.runs[s], s)
    /\ s \in sampling.left => s \notin sampling.calm /\ sampling.runs[s] = NoRun

(* What is still to be measured is under no review.                        *)
ReviewInv(s) == s \in sampling.left \/ marks[s].suspect.source = "cpu" => marks[s].until <= minute

AbuseInv == AbuseSets /\ ClockInv /\ \A s \in Service : RunInv(s) /\ ReviewInv(s)

(* A service is not cleared while a sample of it is being taken, and what  *)
(* a sample found calm is written.                                         *)
NoAbuseIncident == AbuseHappens = {}

LEMMA AbuseInitInv == AbuseInit => AbuseInv
<1>1. ASSUME AbuseInit PROVE AbuseSets
  <2>1. NoSuspect \in Suspicions /\ NoRun \in Runs /\ NoSpell \in Spells /\ 0 \in 0 .. MaxMinute + Exemption
    BY AbuseAssumption DEF NoSuspect, NoRun, NoSpell, Suspicions, Runs, Spells
  <2>2. [s \in Service |-> NoRun] \in [Service -> Runs]
    BY <2>1
  <2>3. marks \in [Service -> Marks]
    BY <1>1, <2>1 DEF AbuseInit, Marks
  <2>4. sampling \in [at : Nat, left : SUBSET Service, runs : [Service -> Runs], suspends : BOOLEAN, calm : SUBSET Service]
    BY <1>1, <2>2 DEF AbuseInit, NoSample
  <2> QED
    BY <1>1, <2>1, <2>2, <2>3, <2>4 DEF AbuseInit, AbuseSets, NoAbusePass
<1>2. AbuseInit => ClockInv
  BY AbuseAssumption DEF AbuseInit, ClockInv
<1>3. AbuseInit => \A s \in Service : RunInv(s) /\ ReviewInv(s)
  BY DEF AbuseInit, RunInv, ReviewInv, Fits, OfItsTime, NoSuspect, NoRun, NoSpell, NoSample
<1> QED
  BY <1>1, <1>2, <1>3 DEF AbuseInv

(* What a busy sample makes of a run lies within what it makes of the      *)
(* spell; and the run it found, should that be kept, still fits.           *)
LEMMA BusyFits ==
    ASSUME AbuseInv, NEW s \in Service, s \in sampling.left
    PROVE  LET run == Observe(runs[s], copiesOf[s])
               longer == Longer(spell[s])
           IN  /\ run \in Runs /\ longer \in Spells /\ longer # NoSpell
               /\ run.last = sampling.at /\ longer.last = sampling.at /\ longer.from <= sampling.at
               /\ longer.from <= run.since /\ run.since <= run.last /\ run.copies = copiesOf[s]
               /\ runs[s] # NoRun /\ runs[s].copies = copiesOf[s] =>
                    longer.from <= runs[s].since \/ longer.last - runs[s].last > MaxGap
<1> DEFINE run == Observe(runs[s], copiesOf[s])
           longer == Longer(spell[s])
<1>1. /\ sampling # NoSample /\ sampling.at \in Nat /\ sampling.at = sampledAt /\ sampling.at > 0
      /\ runs[s] \in Runs /\ spell[s] \in Spells /\ copiesOf[s] \in Nat /\ MaxGap \in Nat
  BY AbuseAssumption DEF AbuseInv, AbuseSets, ClockInv, NoSample
<1>2. /\ runs[s].since <= runs[s].last /\ runs[s].last <= sampledAt
      /\ spell[s].from <= spell[s].last /\ spell[s].last <= sampledAt
      /\ runs[s] # NoRun /\ runs[s].copies = copiesOf[s] =>
            /\ spell[s] # NoSpell /\ runs[s].last <= spell[s].last
            /\ spell[s].from <= runs[s].since \/ spell[s].last - runs[s].last > MaxGap
  BY DEF AbuseInv, RunInv, OfItsTime, Fits
<1>3. CASE GoesOn(runs[s], copiesOf[s])
  <2>1. /\ runs[s] # NoRun /\ runs[s].copies = copiesOf[s] /\ sampling.at > runs[s].last /\ sampling.at - runs[s].last <= MaxGap
        /\ run = [runs[s] EXCEPT !.last = sampling.at]
    BY <1>3 DEF GoesOn, Observe
  <2>2. spell[s].from <= runs[s].since /\ sampling.at - spell[s].last <= MaxGap
    BY <1>1, <1>2, <2>1 DEF Runs, Spells
  <2>3. longer = [spell[s] EXCEPT !.last = sampling.at]
    BY <1>2, <2>1, <2>2 DEF Longer
  <2> QED
    BY <1>1, <1>2, <2>1, <2>2, <2>3 DEF Runs, Spells, NoSpell
<1>4. CASE ~GoesOn(runs[s], copiesOf[s])
  <2>1. run = [since |-> sampling.at, last |-> sampling.at, copies |-> copiesOf[s]]
    BY <1>4 DEF Observe
  <2>2. \/ longer = [spell[s] EXCEPT !.last = sampling.at] /\ sampling.at - spell[s].last <= MaxGap
        \/ longer = [from |-> sampling.at, last |-> sampling.at]
    BY DEF Longer
  <2>3. ASSUME runs[s] # NoRun, runs[s].copies = copiesOf[s]
        PROVE  longer.from <= runs[s].since \/ longer.last - runs[s].last > MaxGap
    <3>1. runs[s].last = sampling.at \/ sampling.at - runs[s].last > MaxGap
      BY <1>1, <1>2, <1>4, <2>3 DEF GoesOn, Runs
    <3>2. CASE runs[s].last = sampling.at
      <4>1. spell[s].last = sampling.at /\ spell[s] # NoSpell /\ spell[s].from <= runs[s].since
        BY <1>1, <1>2, <2>3, <3>2 DEF Runs, Spells
      <4>2. longer.from = spell[s].from
        BY <1>1, <4>1 DEF Longer, Spells
      <4> QED
        BY <4>1, <4>2
    <3>3. CASE sampling.at - runs[s].last > MaxGap
      BY <1>1, <2>2, <3>3 DEF Spells
    <3> QED
      BY <3>1, <3>2, <3>3
  <2> QED
    BY <1>1, <1>2, <2>1, <2>2, <2>3 DEF Runs, Spells, NoSpell
<1> QED
  BY <1>3, <1>4

(* Steps that leave the samples and the copies alone.                      *)
samples == <<runs, sampling, copiesOf, spell, sampledAt, minute>>

LEMMA MarkSteps ==
    ASSUME AbuseInv, UNCHANGED samples, AbuseSets',
           \A s \in Service : (s \in sampling.left \/ marks'[s].suspect.source = "cpu") => marks'[s].until <= minute
    PROVE  AbuseInv'
<1>1. ClockInv'
  BY DEF AbuseInv, ClockInv, samples, NoSample
<1>2. \A s \in Service : RunInv(s)'
  BY DEF AbuseInv, RunInv, Fits, OfItsTime, samples
<1>3. \A s \in Service : ReviewInv(s)'
  BY DEF ReviewInv, samples
<1> QED
  BY <1>1, <1>2, <1>3 DEF AbuseInv

(* Reports, reviews, releases, the setting, and the reconciler.            *)
LEMMA MarksKeepInv ==
    ASSUME NoAbuseIncident, AbuseInv, [AbuseNext]_abuseVars,
           ~MinutePasses, ~SampleBegins, ~StoreState, ~SampleFails,
           ~\E s \in Service : CopiesChange(s) \/ measure(s)
    PROVE  AbuseInv' /\ UNCHANGED samples /\ \A s \in Service : marks'[s].suspect.source = "cpu" => marks[s].suspect.source = "cpu"
<1>0. NoSuspect \in Suspicions /\ MaxMinute \in Nat /\ Exemption \in Nat /\ minute \in 1 .. MaxMinute
  BY AbuseAssumption DEF AbuseInv, ClockInv, NoSuspect, Suspicions
<1> DEFINE Sane == /\ AbuseSets'
                   /\ UNCHANGED samples
                   /\ \A s \in Service : s \in sampling.left \/ marks'[s].suspect.source = "cpu" => marks'[s].until <= minute
                   /\ \A s \in Service : marks'[s].suspect.source = "cpu" => marks[s].suspect.source = "cpu"
           Milder(s, mark) == /\ mark.suspect.source = "cpu" => marks[s].suspect.source = "cpu"
                              /\ mark.until <= marks[s].until \/ (mark.suspect.source # "cpu" /\ s \notin sampling.left)
<1>1. SUFFICES Sane
  BY MarkSteps
<1>2. CASE UNCHANGED abuseVars
  BY <1>2 DEF AbuseInv, AbuseSets, ReviewInv, abuseVars, samples
<1>3. CASE SettingGoes
  BY <1>3 DEF SettingGoes, AbuseInv, AbuseSets, ReviewInv, samples
<1>4. CASE AbusePassFails
  BY <1>4 DEF AbusePassFails, NoAbusePass, AbuseInv, AbuseSets, ReviewInv, samples
<1>5. CASE AbusePassBegins
  BY <1>5 DEF AbusePassBegins, AbuseInv, AbuseSets, ReviewInv, samples
<1>6. CASE reconcileProject
  BY <1>6 DEF reconcileProject, NoAbusePass, AbuseInv, AbuseSets, ReviewInv, samples
<1>7. ASSUME NEW s \in Service, NEW mark \in Marks, marks' = [marks EXCEPT ![s] = mark], UNCHANGED <<abuseOn, samples>>,
             verdict' \in [Service -> {"none", "Suspended", "Suspected", "Reviewed"}], accused' \subseteq Service,
             abusePass' \in [working : BOOLEAN, left : SUBSET Service, accused : SUBSET Service, again : BOOLEAN],
             Milder(s, mark)
      PROVE  Sane
  <2>1. marks[s] \in Marks /\ marks' \in [Service -> Marks]
    BY <1>7 DEF AbuseInv, AbuseSets
  <2>2. AbuseSets'
    BY <1>7, <2>1 DEF AbuseInv, AbuseSets, samples
  <2>3. ASSUME NEW t \in Service, t \in sampling.left \/ marks'[t].suspect.source = "cpu" PROVE marks'[t].until <= minute
    <3>1. CASE t # s
      BY <1>7, <2>3, <3>1 DEF AbuseInv, AbuseSets, ReviewInv
    <3>2. CASE t = s
      <4>1. marks'[t] = mark
        BY <1>7, <3>2 DEF AbuseInv, AbuseSets
      <4>2. mark.until <= marks[s].until /\ marks[s].until <= minute
        BY <1>7, <2>3, <3>2, <4>1 DEF AbuseInv, ReviewInv
      <4> QED
        BY <1>0, <2>1, <3>2, <4>1, <4>2 DEF Marks
    <3> QED
      BY <3>1, <3>2
  <2>4. \A t \in Service : marks'[t].suspect.source = "cpu" => marks[t].suspect.source = "cpu"
    BY <1>7 DEF AbuseInv, AbuseSets
  <2> QED
    BY <1>7, <2>2, <2>3, <2>4
<1>8. ASSUME NEW s \in Service, NEW mark \in Marks, Annotate(s, mark)
      PROVE  /\ marks' = [marks EXCEPT ![s] = mark]
             /\ abusePass' \in [working : BOOLEAN, left : SUBSET Service, accused : SUBSET Service, again : BOOLEAN]
  BY <1>8 DEF Annotate, AbuseInv, AbuseSets
<1>9. ASSUME NEW s \in Service, handleAbuseReport(s) PROVE Sane
  <2> DEFINE mark == [suspect |-> [source |-> "report", suspended |-> abuseOn.suspends], until |-> 0]
  <2>1. mark \in Marks /\ mark.until <= marks[s].until /\ mark.suspect.source # "cpu"
    BY <1>0 DEF AbuseInv, AbuseSets, Marks, Suspicions
  <2>2. Annotate(s, mark) /\ UNCHANGED <<abuseOn, samples, verdict, accused>>
    BY <1>9 DEF handleAbuseReport, samples
  <2>3. /\ accused' \subseteq Service /\ verdict' \in [Service -> {"none", "Suspended", "Suspected", "Reviewed"}]
    BY <2>2 DEF AbuseInv, AbuseSets
  <2> HIDE DEF mark
  <2>4. Milder(s, mark)
    BY <2>1
  <2> HIDE DEF Milder, Sane
  <2> QED
    BY <1>7, <1>8, <2>1, <2>2, <2>3, <2>4
<1>10. ASSUME NEW s \in Service, handleAbuseClear(s) PROVE Sane
  <2> DEFINE mark == [suspect |-> NoSuspect, until |-> minute + Exemption]
  <2>1. mark \in Marks /\ mark.suspect.source # "cpu"
    BY <1>0 DEF Marks, NoSuspect
  <2>2. Annotate(s, mark) /\ UNCHANGED <<abuseOn, samples, verdict, accused>> /\ s \notin sampling.left
    BY <1>10, NoAbuseIncident DEF handleAbuseClear, samples, NoAbuseIncident
  <2>3. /\ accused' \subseteq Service /\ verdict' \in [Service -> {"none", "Suspended", "Suspected", "Reviewed"}]
    BY <2>2 DEF AbuseInv, AbuseSets
  <2> HIDE DEF mark
  <2>4. Milder(s, mark)
    BY <2>1, <2>2
  <2> HIDE DEF Milder, Sane
  <2> QED
    BY <1>7, <1>8, <2>1, <2>2, <2>3, <2>4
<1>11. ASSUME NEW s \in Service, handleAbuseRelease(s) PROVE Sane
  <2> DEFINE mark == [marks[s] EXCEPT !.suspect.suspended = FALSE]
  <2>1. marks[s] \in Marks
    BY DEF AbuseInv, AbuseSets
  <2>2. mark \in Marks /\ mark.suspect.source = marks[s].suspect.source /\ mark.until = marks[s].until
    BY <2>1 DEF Marks, Suspicions
  <2>3. Annotate(s, mark) /\ UNCHANGED <<abuseOn, samples, verdict, accused>>
    BY <1>11 DEF handleAbuseRelease, samples
  <2>4. mark.until <= marks[s].until
    BY <1>0, <2>1, <2>2 DEF Marks
  <2>5. /\ accused' \subseteq Service /\ verdict' \in [Service -> {"none", "Suspended", "Suspected", "Reviewed"}]
    BY <2>3 DEF AbuseInv, AbuseSets
  <2> HIDE DEF mark
  <2>6. Milder(s, mark)
    BY <2>2, <2>4
  <2> HIDE DEF Milder, Sane
  <2> QED
    BY <1>7, <1>8, <2>2, <2>3, <2>4, <2>5, <2>6
<1>12. ASSUME NEW s \in Service, reconcileService(s) PROVE Sane
  <2> DEFINE mark == Remaining(s)
  <2>1. marks[s] \in Marks
    BY DEF AbuseInv, AbuseSets
  <2>2. mark \in Marks /\ (mark.suspect.source = "cpu" => marks[s].suspect.source = "cpu") /\ mark.until <= marks[s].until
    BY <1>0, <2>1 DEF Remaining, Marks, NoSuspect, Suspicions
  <2>3. VerdictOf(mark) \in {"none", "Suspended", "Suspected", "Reviewed"}
    BY DEF VerdictOf
  <2>4. /\ marks' = [marks EXCEPT ![s] = mark] /\ UNCHANGED <<abuseOn, samples, accused>>
        /\ verdict' \in [Service -> {"none", "Suspended", "Suspected", "Reviewed"}]
        /\ abusePass' \in [working : BOOLEAN, left : SUBSET Service, accused : SUBSET Service, again : BOOLEAN]
    BY <1>12, <2>3 DEF reconcileService, samples, AbuseInv, AbuseSets
  <2>5. /\ accused' \subseteq Service /\ verdict' \in [Service -> {"none", "Suspended", "Suspected", "Reviewed"}]
    BY <2>4 DEF AbuseInv, AbuseSets
  <2> HIDE DEF mark
  <2>6. Milder(s, mark)
    BY <2>2
  <2> HIDE DEF Milder, Sane
  <2> QED
    BY <1>7, <2>2, <2>4, <2>5, <2>6
<1> QED
  BY <1>2, <1>3, <1>4, <1>5, <1>6, <1>9, <1>10, <1>11, <1>12 DEF AbuseNext, AbuseStep

LEMMA MinutePassesInv ==
    ASSUME AbuseInv, MinutePasses
    PROVE  AbuseInv'
<1>1. AbuseSets'
  BY DEF MinutePasses, AbuseInv, AbuseSets
<1>2. ClockInv' /\ minute \in Nat /\ minute' = minute + 1
  BY AbuseAssumption DEF MinutePasses, AbuseInv, ClockInv, NoSample
<1>3. \A s \in Service : RunInv(s)'
  BY DEF MinutePasses, AbuseInv, RunInv, Fits, OfItsTime
<1>4. \A s \in Service : ReviewInv(s)'
  <2> SUFFICES ASSUME NEW s \in Service PROVE ReviewInv(s)'
    OBVIOUS
  <2>1. marks[s] \in Marks /\ ReviewInv(s)
    BY DEF AbuseInv, AbuseSets
  <2> QED
    BY AbuseAssumption, <1>2, <2>1 DEF MinutePasses, ReviewInv, Marks
<1> QED
  BY <1>1, <1>2, <1>3, <1>4 DEF AbuseInv

(* Runs of the copies that went are runs of other copies.                  *)
LEMMA CopiesChangeInv ==
    ASSUME AbuseInv, NEW c \in Service, CopiesChange(c)
    PROVE  AbuseInv'
<1>1. AbuseSets'
  BY DEF CopiesChange, AbuseInv, AbuseSets, NoSpell, Spells
<1>2. ClockInv'
  BY DEF CopiesChange, AbuseInv, ClockInv, NoSample
<1>3. ASSUME NEW s \in Service PROVE RunInv(s)'
  <2>1. /\ RunInv(s) /\ runs[s] \in Runs /\ sampling.runs[s] \in Runs /\ copiesOf[s] \in Nat /\ sampledAt \in Nat
        /\ copiesOf' = [copiesOf EXCEPT ![c] = @ + 1] /\ spell' = [spell EXCEPT ![c] = NoSpell] /\ UNCHANGED <<runs, sampling, sampledAt>>
    BY DEF CopiesChange, AbuseInv, AbuseSets, ClockInv
  <2>2. CASE s # c
    <3>1. copiesOf'[s] = copiesOf[s] /\ spell'[s] = spell[s]
      BY <2>1, <2>2 DEF AbuseInv, AbuseSets
    <3> QED
      BY <2>1, <3>1 DEF RunInv, OfItsTime, Fits
  <2>3. CASE s = c
    <3>1. copiesOf'[s] = copiesOf[s] + 1 /\ spell'[s] = NoSpell
      BY <2>1, <2>3 DEF AbuseInv, AbuseSets
    <3>2. /\ runs[s].copies <= copiesOf[s] /\ sampling.runs[s].copies <= copiesOf[s]
          /\ runs[s].since <= runs[s].last /\ runs[s].last <= sampledAt
          /\ sampling.runs[s].since <= sampling.runs[s].last /\ sampling.runs[s].last <= sampledAt
          /\ s \in sampling.left => s \notin sampling.calm /\ sampling.runs[s] = NoRun
      BY <2>1 DEF RunInv, OfItsTime
    <3>3. runs[s].copies # copiesOf'[s] /\ sampling.runs[s].copies # copiesOf'[s]
      BY <2>1, <3>1, <3>2 DEF Runs
    <3>4. OfItsTime(runs[s], s)' /\ OfItsTime(sampling.runs[s], s)'
      BY <2>1, <3>1, <3>2 DEF OfItsTime, Runs
    <3>5. Fits(runs[s], s)' /\ Fits(sampling.runs[s], s)'
      BY <2>1, <3>3 DEF Fits
    <3> QED
      BY <2>1, <3>1, <3>2, <3>4, <3>5 DEF RunInv, NoSpell
  <2> QED
    BY <2>2, <2>3
<1>4. \A s \in Service : ReviewInv(s)'
  BY DEF CopiesChange, AbuseInv, ReviewInv
<1> QED
  BY <1>1, <1>2, <1>3, <1>4 DEF AbuseInv

LEMMA SampleBeginsInv ==
    ASSUME AbuseInv, SampleBegins
    PROVE  AbuseInv'
<1> DEFINE none == [s \in Service |-> NoRun]
<1>1. /\ sampling = NoSample /\ sampledAt' = minute /\ sampledAt < minute /\ sampledAt \in Nat /\ minute \in Nat /\ minute > 0
      /\ UNCHANGED <<abuseOn, marks, verdict, accused, abusePass, minute, copiesOf, spell>>
      /\ none \in [Service -> Runs] /\ NoSample.runs = none /\ NoSample.calm = {} /\ NoSample.left = {} /\ NoSample.at = 0
  BY DEF SampleBegins, AbuseInv, ClockInv, NoSample, NoRun, Runs
<1>2. \/ /\ sampling' = [NoSample EXCEPT !.at = minute, !.left = targets, !.suspends = abuseOn.suspends] /\ runs' = runs
      \/ /\ sampling' = sampling /\ runs' = none
  BY <1>1 DEF SampleBegins
<1>3. targets \subseteq Service /\ abuseOn.suspends \in BOOLEAN
  BY DEF targets, AbuseInv, AbuseSets
<1>4. /\ sampling'.runs = none /\ sampling'.calm = {} /\ sampling'.left \subseteq targets
      /\ sampling' = NoSample' \/ (sampling'.at = minute)
  BY <1>1, <1>2 DEF NoSample
<1>5. sampling' \in [at : Nat, left : SUBSET Service, runs : [Service -> Runs], suspends : BOOLEAN, calm : SUBSET Service]
  <2>1. CASE sampling' = sampling
    BY <2>1 DEF AbuseInv, AbuseSets
  <2>2. CASE sampling' = [NoSample EXCEPT !.at = minute, !.left = targets, !.suspends = abuseOn.suspends]
    BY <1>1, <1>3, <2>2 DEF NoSample
  <2> QED
    BY <1>2, <2>1, <2>2
<1>6. AbuseSets'
  BY <1>1, <1>2, <1>5 DEF AbuseInv, AbuseSets
<1>7. ClockInv'
  BY <1>1, <1>4 DEF AbuseInv, ClockInv
<1>8. ASSUME NEW s \in Service PROVE RunInv(s)' /\ ReviewInv(s)'
  <2>1. /\ runs[s] \in Runs /\ spell[s] \in Spells /\ copiesOf[s] \in Nat /\ RunInv(s) /\ ReviewInv(s)
        /\ marks[s] \in Marks /\ sampling.calm = {} /\ sampling.left = {}
    BY <1>1 DEF AbuseInv, AbuseSets
  <2>2. none[s] = NoRun /\ sampling'.runs[s] = NoRun /\ runs'[s] \in {runs[s], NoRun}
    BY <1>2, <1>4
  <2>3. OfItsTime(NoRun, s)' /\ Fits(NoRun, s)'
    BY <1>1, <2>1 DEF OfItsTime, Fits, NoRun
  <2>4. OfItsTime(runs[s], s) /\ Fits(runs[s], s)
    BY <2>1 DEF RunInv
  <2>5. OfItsTime(runs[s], s)' /\ Fits(runs[s], s)'
    <3>1. CASE runs'[s] = runs[s]
      BY <1>1, <2>1, <2>4, <3>1 DEF OfItsTime, Fits, Runs, NoRun, NoSpell
    <3>2. CASE runs'[s] = NoRun
      BY <1>1, <2>1, <3>2 DEF OfItsTime, Fits, NoRun
    <3> QED
      BY <2>2, <3>1, <3>2
  <2>6. spell'[s].from <= spell'[s].last /\ spell'[s].last <= sampledAt'
    BY <1>1, <2>1 DEF RunInv, Spells
  <2>7. RunInv(s)'
    BY <1>4, <2>2, <2>3, <2>5, <2>6 DEF RunInv
  <2>8. s \in targets => marks[s].until <= minute
    BY <1>1, <2>1 DEF targets, Marks
  <2>9. ReviewInv(s)'
    BY <1>1, <1>4, <2>1, <2>8 DEF ReviewInv
  <2> QED
    BY <2>7, <2>9
<1> QED
  BY <1>6, <1>7, <1>8 DEF AbuseInv

(* What is kept after a sample fits: what the sample made of it, or, when  *)
(* it could not be written, what was there and nobody found calm.          *)
LEMMA SampleEndsInv ==
    ASSUME NoAbuseIncident, AbuseInv, StoreState \/ SampleFails
    PROVE  AbuseInv'
<1>1. /\ sampling' = NoSample /\ runs' \in [Service -> Runs]
      /\ UNCHANGED <<abuseOn, marks, verdict, accused, abusePass, minute, sampledAt, copiesOf, spell>>
      /\ runs' = sampling.runs \/ (runs' = runs /\ sampling.calm = {})
  BY DEF StoreState, SampleFails, AbuseInv, AbuseSets, NoAbuseIncident
<1>2. /\ NoSample.calm = {} /\ NoSample.left = {} /\ \A s \in Service : NoSample.runs[s] = NoRun
      /\ NoSample \in [at : Nat, left : SUBSET Service, runs : [Service -> Runs], suspends : BOOLEAN, calm : SUBSET Service]
  <2>1. [s \in Service |-> NoRun] \in [Service -> Runs]
    BY DEF NoRun, Runs
  <2> QED
    BY <2>1 DEF NoSample
<1>3. AbuseSets'
  BY <1>1, <1>2 DEF AbuseInv, AbuseSets
<1>4. ClockInv'
  BY <1>1 DEF AbuseInv, ClockInv, NoSample
<1>5. ASSUME NEW s \in Service PROVE RunInv(s)' /\ ReviewInv(s)'
  <2>1. RunInv(s) /\ ReviewInv(s) /\ copiesOf[s] \in Nat /\ sampledAt \in Nat
    BY DEF AbuseInv, AbuseSets, ClockInv
  <2>2. sampling'.runs[s] = NoRun /\ sampling'.calm = {} /\ sampling'.left = {}
    BY <1>1, <1>2
  <2>3. OfItsTime(NoRun, s) /\ Fits(NoRun, s)
    BY <2>1 DEF OfItsTime, Fits, NoRun
  <2>4. OfItsTime(runs'[s], s) /\ Fits(runs'[s], s)
    BY <1>1, <2>1 DEF RunInv
  <2>5. OfItsTime(NoRun, s)' /\ Fits(NoRun, s)' /\ OfItsTime(runs[s], s)' /\ Fits(runs[s], s)'
    BY <1>1, <2>3, <2>4 DEF OfItsTime, Fits
  <2>6. RunInv(s)'
    BY <1>1, <2>1, <2>2, <2>5 DEF RunInv
  <2>7. ReviewInv(s)'
    BY <1>1, <2>1, <2>2 DEF ReviewInv
  <2> QED
    BY <2>6, <2>7
<1> QED
  BY <1>3, <1>4, <1>5 DEF AbuseInv

(* One service is measured: nothing of another changes, and a mark for its *)
(* CPU comes of a run that lies within the spell.                          *)
LEMMA MeasureInv ==
    ASSUME AbuseInv, NEW m \in Service, measure(m)
    PROVE  AbuseInv' /\ SustainedOnly
<1> DEFINE run == Observe(runs[m], copiesOf[m])
           longer == Longer(spell[m])
           Sampled(t) == t \in [at : Nat, left : SUBSET Service, runs : [Service -> Runs], suspends : BOOLEAN, calm : SUBSET Service]
           cpu == [marks[m] EXCEPT !.suspect = [source |-> "cpu", suspended |-> sampling.suspends]]
<1>1. /\ m \in sampling.left /\ UNCHANGED <<abuseOn, verdict, accused, runs, minute, sampledAt, copiesOf>>
      /\ Sampled(sampling) /\ marks[m] \in Marks /\ minute \in Nat /\ sampledAt \in Nat /\ sampling.at = sampledAt /\ sampling.at > 0
      /\ runs \in [Service -> Runs] /\ spell \in [Service -> Spells] /\ copiesOf \in [Service -> Nat] /\ marks \in [Service -> Marks]
  BY DEF measure, AbuseInv, AbuseSets, ClockInv, NoSample
<1>2. RunInv(m) /\ ReviewInv(m) /\ m \notin sampling.calm /\ sampling.runs[m] = NoRun /\ marks[m].until <= minute
  BY <1>1 DEF AbuseInv, RunInv, ReviewInv
<1>3. /\ run \in Runs /\ longer \in Spells /\ longer # NoSpell
      /\ run.last = sampling.at /\ longer.last = sampling.at /\ longer.from <= sampling.at
      /\ longer.from <= run.since /\ run.since <= run.last /\ run.copies = copiesOf[m]
      /\ runs[m] # NoRun /\ runs[m].copies = copiesOf[m] =>
            longer.from <= runs[m].since \/ longer.last - runs[m].last > MaxGap
  BY <1>1, BusyFits
<1>4. \/ Calm(m)
      \/ /\ spell' = [spell EXCEPT ![m] = longer]
         /\ Lasted(run) /\ recordSuspect(m, run) /\ sampling' = [sampling EXCEPT !.left = @ \ {m}]
      \/ /\ spell' = [spell EXCEPT ![m] = longer]
         /\ sampling' = [sampling EXCEPT !.left = @ \ {m}, !.runs[m] = run] /\ UNCHANGED <<marks, abusePass>>
  BY DEF measure
<1> HIDE DEF run, longer
<1>5. /\ Sampled(sampling') /\ sampling'.at = sampling.at /\ sampling'.left = sampling.left \ {m}
      /\ sampling'.runs[m] \in {NoRun, run}
      /\ \A s \in Service \ {m} : sampling'.runs[s] = sampling.runs[s] /\ (s \in sampling'.calm <=> s \in sampling.calm)
  <2>0. sampling.runs \in [Service -> Runs]
    BY <1>1
  <2>1. CASE sampling' = [sampling EXCEPT !.left = @ \ {m}, !.calm = @ \cup {m}]
    BY <1>1, <1>2, <2>1
  <2>2. CASE sampling' = [sampling EXCEPT !.left = @ \ {m}]
    BY <1>1, <1>2, <2>2
  <2>3. CASE sampling' = [sampling EXCEPT !.left = @ \ {m}, !.runs[m] = run]
    <3>1. /\ sampling'.at = sampling.at /\ sampling'.left = sampling.left \ {m} /\ sampling'.calm = sampling.calm
          /\ sampling'.runs = [sampling.runs EXCEPT ![m] = run] /\ Sampled(sampling')
      BY <1>1, <1>3, <2>0, <2>3
    <3> QED
      BY <1>1, <2>0, <3>1
  <2> QED
    BY <1>4, <2>1, <2>2, <2>3 DEF Calm
<1>6. /\ spell'[m] \in {NoSpell, longer} /\ \A s \in Service \ {m} : spell'[s] = spell[s]
      /\ spell' \in [Service -> Spells] /\ (~Calm(m) => spell'[m] = longer)
  <2>1. NoSpell \in Spells
    BY DEF NoSpell, Spells
  <2>2. spell' = [spell EXCEPT ![m] = NoSpell] \/ spell' = [spell EXCEPT ![m] = longer]
    BY <1>4 DEF Calm
  <2>3. ~Calm(m) => spell' = [spell EXCEPT ![m] = longer]
    BY <1>4
  <2> QED
    BY <1>1, <1>3, <2>1, <2>2, <2>3
<1>7. /\ marks' = marks /\ abusePass' = abusePass
      \/ /\ ~Suspected(m) /\ marks' = [marks EXCEPT ![m] = cpu] /\ cpu \in Marks /\ cpu.until = marks[m].until
         /\ abusePass' \in [working : BOOLEAN, left : SUBSET Service, accused : SUBSET Service, again : BOOLEAN]
         /\ Lasted(run) /\ spell'[m] = longer
  <2>1. cpu \in Marks /\ cpu.until = marks[m].until
    BY <1>1 DEF Marks, Suspicions
  <2>2. ASSUME Annotate(m, cpu)
        PROVE  /\ marks' = [marks EXCEPT ![m] = cpu]
               /\ abusePass' \in [working : BOOLEAN, left : SUBSET Service, accused : SUBSET Service, again : BOOLEAN]
    BY <2>2 DEF Annotate, AbuseInv, AbuseSets
  <2> QED
    BY <1>1, <1>4, <2>1, <2>2 DEF Calm, recordSuspect
<1>8. AbuseSets'
  <2>1. marks' \in [Service -> Marks]
    BY <1>1, <1>7
  <2>2. abusePass' \in [working : BOOLEAN, left : SUBSET Service, accused : SUBSET Service, again : BOOLEAN]
    BY <1>7 DEF AbuseInv, AbuseSets
  <2> QED
    BY <1>1, <1>5, <1>6, <2>1, <2>2 DEF AbuseInv, AbuseSets
<1>9. ClockInv'
  BY <1>1, <1>5 DEF AbuseInv, ClockInv
<1>10. ASSUME NEW s \in Service PROVE RunInv(s)'
  <2>1. RunInv(s) /\ copiesOf[s] \in Nat /\ runs[s] \in Runs
    BY <1>1 DEF AbuseInv
  <2>2. CASE s # m
    <3>1. spell'[s] = spell[s]
      BY <1>6, <2>2
    <3>2. sampling'.runs[s] = sampling.runs[s] /\ (s \in sampling'.calm <=> s \in sampling.calm) /\ (s \in sampling'.left <=> s \in sampling.left)
      BY <1>5, <2>2
    <3> QED
      BY <1>1, <2>1, <3>1, <3>2 DEF RunInv, OfItsTime, Fits
  <2>3. CASE s = m /\ Calm(m)
    <3>1. spell'[m] = NoSpell /\ sampling'.runs[m] = NoRun /\ m \in sampling'.calm /\ m \notin sampling'.left
      BY <1>1, <1>2, <2>3 DEF Calm
    <3>2. OfItsTime(runs[m], m)' /\ OfItsTime(sampling.runs[m], m)' /\ Fits(sampling.runs[m], m)'
      BY <1>1, <1>2, <3>1 DEF RunInv, OfItsTime, Fits
    <3> QED
      BY <1>1, <2>3, <3>1, <3>2 DEF RunInv, NoSpell
  <2>4. CASE s = m /\ ~Calm(m)
    <3>1. spell'[m] = longer /\ sampling'.runs[m] \in {NoRun, run} /\ m \notin sampling'.left
      BY <1>5, <1>6, <2>4
    <3>2. OfItsTime(runs[m], m)' /\ OfItsTime(sampling.runs[m], m)'
      BY <1>1, <1>2, <1>3, <3>1 DEF RunInv, OfItsTime, Runs, NoRun
    <3>3. Fits(sampling.runs[m], m)'
      BY <1>1, <1>3, <3>1 DEF Fits
    <3>4. Fits(runs[m], m)'
      BY <1>1, <1>2, <1>3, <3>1 DEF Fits, RunInv, OfItsTime
    <3> QED
      BY <1>1, <1>3, <2>4, <3>1, <3>2, <3>3, <3>4 DEF RunInv
  <2> QED
    BY <2>2, <2>3, <2>4
<1>11. ASSUME NEW s \in Service PROVE ReviewInv(s)'
  <2>1. CASE s # m \/ marks' = marks
    <3>1. marks'[s] = marks[s] /\ ReviewInv(s)
      BY <1>1, <1>7, <2>1 DEF AbuseInv
    <3> QED
      BY <1>1, <1>5, <3>1 DEF ReviewInv
  <2>2. CASE s = m /\ marks' # marks
    BY <1>1, <1>2, <1>7, <2>2 DEF ReviewInv
  <2> QED
    BY <2>1, <2>2
<1>12. SustainedOnly
  <2> SUFFICES ASSUME NEW s \in Service, marks'[s].suspect.source = "cpu", ~Suspected(s)
               PROVE  spell'[s] # NoSpell /\ sampling.at - spell'[s].from >= Window
    BY DEF SustainedOnly
  <2>1. marks'[s] # marks[s]
    BY DEF Suspected, NoSuspect
  <2>2. s = m /\ Lasted(run) /\ spell'[m] = longer
    BY <1>1, <1>7, <2>1
  <2> QED
    BY AbuseAssumption, <1>1, <1>3, <2>2 DEF Lasted, Runs, Spells
<1> QED
  BY <1>8, <1>9, <1>10, <1>11, <1>12 DEF AbuseInv

(* A mark that was there is no new one.                                    *)
LEMMA OldMarks ==
    ASSUME \A s \in Service : marks'[s].suspect.source = "cpu" => marks[s].suspect.source = "cpu"
    PROVE  SustainedOnly
BY DEF SustainedOnly, Suspected, NoSuspect

(* What the invariant says of types and reviews.                           *)
LEMMA AbuseInvSays == AbuseInv => AbuseTypeOK /\ ClearedLeftAlone
<1> SUFFICES ASSUME AbuseInv PROVE AbuseTypeOK /\ ClearedLeftAlone
  OBVIOUS
<1>1. ASSUME NEW s \in Service
      PROVE  /\ marks[s].suspect.source \in {"none", "cpu", "report"} /\ marks[s].until \in 0 .. MaxMinute + Exemption
             /\ runs[s].since <= runs[s].last /\ runs[s].last <= minute
             /\ marks[s].suspect.source = "cpu" => marks[s].until <= minute
  <2>1. marks[s] \in Marks /\ runs[s] \in Runs /\ RunInv(s) /\ ReviewInv(s) /\ ClockInv
    BY DEF AbuseInv, AbuseSets
  <2>2. runs[s].last <= minute
    BY AbuseAssumption, <2>1 DEF RunInv, OfItsTime, Runs, ClockInv
  <2> QED
    BY <2>1, <2>2 DEF Marks, Suspicions, RunInv, OfItsTime, ReviewInv
<1>2. sampling.left \subseteq Service /\ abusePass.left \subseteq Service
  BY DEF AbuseInv, AbuseSets
<1> QED
  BY <1>1, <1>2 DEF AbuseInv, AbuseSets, ClockInv, AbuseTypeOK, ClearedLeftAlone

(* "A run is broken ... by a sample ... that is below the threshold", and  *)
(* "the sustained-CPU signal leaves the service alone until then": with    *)
(* samples missed, copies replaced, reports and reviews in any order, only *)
(* a service that was busy in every sample of the window is suspected for  *)
(* its CPU (Observe, recordSuspect), and none under a review               *)
(* (handleAbuseClear).                                                     *)
THEOREM SuspectsWereBusy ==
    ASSUME NoAbuseIncident
    PROVE  AbuseSpec => AbuseSafe
<1>1. ASSUME AbuseInv, [AbuseNext]_abuseVars
      PROVE  AbuseInv' /\ SustainedOnly
  <2>1. CASE MinutePasses
    BY <1>1, <2>1, MinutePassesInv, OldMarks DEF MinutePasses
  <2>2. CASE \E s \in Service : CopiesChange(s)
    BY <1>1, <2>2, CopiesChangeInv, OldMarks DEF CopiesChange
  <2>3. CASE SampleBegins
    BY <1>1, <2>3, SampleBeginsInv, OldMarks DEF SampleBegins
  <2>4. CASE StoreState \/ SampleFails
    BY <1>1, <2>4, SampleEndsInv, OldMarks DEF StoreState, SampleFails
  <2>5. CASE \E s \in Service : measure(s)
    BY <1>1, <2>5, MeasureInv
  <2>6. CASE ~(MinutePasses \/ SampleBegins \/ StoreState \/ SampleFails \/ \E s \in Service : CopiesChange(s) \/ measure(s))
    BY <1>1, <2>6, MarksKeepInv, OldMarks
  <2> QED
    BY <2>1, <2>2, <2>3, <2>4, <2>5, <2>6
<1>2. ASSUME AbuseInv, AbuseInv', [AbuseNext]_abuseVars
      PROVE  [abuseVars' # abuseVars => (AbuseTypeOK /\ ClearedLeftAlone)' /\ SustainedOnly]_abuseVars
  BY <1>1, <1>2, AbuseInvSays, PTL
<1> QED
  BY AbuseInitInv, <1>1, <1>2, PTL DEF AbuseSpec, AbuseSafe
=============================================================================
