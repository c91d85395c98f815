------------------------------- MODULE Builds -------------------------------
(***************************************************************************)
(* One GeassBuild and its Job (internal/controller/geassbuild_controller   *)
(* .go).  A push or a rebuild puts the build back to the start, in two     *)
(* writes, while a pass of the controller may be at work on what it read   *)
(* before; the pass ends with a status that is written against the latest  *)
(* copy (pkg/platform/status.go).  A commit is a number, 0 is none.        *)
(***************************************************************************)
EXTENDS Naturals

CONSTANT MaxCommit      \* commits that are pushed

ASSUME BuildsAssumption == MaxCommit \in Nat \ {0}

Commit == 0 .. MaxCommit
NoJob == [rev |-> 0, state |-> "none"]
Phase == {"Pending", "WaitingForCI", "Running", "Succeeded", "Failed", "Cancelled"}

VARIABLES
    head,      \* the newest commit
    since,     \* the newest commit when the build was last put back
    build,     \* phase, startedAt, cancelRequested, imageDigest, sourceRevision
    kaniko,    \* the Job
    buildPass, \* idle, act, look, patch
    mine,      \* the build as the pass read it
    result,    \* what the pass is to write: phase, started
    latest,    \* the build as the status write read it
    jobFound,  \* whether the status write found a Job
    found,     \* the digest the pass is to write
    again,     \* a push: idle, reset
    retold     \* history: a pass begun before the last reset wrote its status after it

buildPassVars == <<buildPass, mine, result, latest, jobFound, found>>
buildVars == <<head, since, build, kaniko, buildPassVars, again, retold>>

Fresh == [phase |-> "Pending", started |-> FALSE, cancel |-> FALSE, digest |-> 0, rev |-> 0, resets |-> 0]

BuildsInit ==
    /\ head = 1 /\ since = 1 /\ build = Fresh /\ kaniko = NoJob /\ again = "idle" /\ retold = FALSE
    /\ buildPass = "idle" /\ mine = Fresh /\ result = [phase |-> "Pending", started |-> FALSE] /\ latest = Fresh
    /\ jobFound = FALSE /\ found = 0

started(b) == b.started /\ b.phase \in {"Running", "Succeeded", "Failed"}

(* A mutant: any Job that ended is this run's.                             *)
EndedAtAll(b) == b.phase \in {"Succeeded", "Failed"}

jobRan(b) == b.started /\ b.phase \in {"Succeeded", "Failed"}
buildSettled(b) == b.phase = "Succeeded" /\ b.digest # 0 /\ ~b.cancel

-----------------------------------------------------------------------------
(* People and the Job.                                                     *)

(* retriggerBuild: the Job is deleted (or left, by a dashboard that has no *)
(* connection to the cluster), then the status reset.                      *)
retriggerBuild ==
    /\ \/ /\ again = "idle" /\ head < MaxCommit /\ head' = head + 1 /\ again' = "reset"
          /\ kaniko' \in {NoJob, kaniko} /\ UNCHANGED <<since, build, retold>>
       \/ /\ again = "reset" /\ again' = "idle" /\ since' = head /\ retold' = FALSE
          /\ build' = [Fresh EXCEPT !.resets = build.resets + 1] /\ UNCHANGED <<head, kaniko>>
    /\ UNCHANGED buildPassVars

CancelBuild ==
    /\ build.phase \in {"Pending", "WaitingForCI", "Running"} /\ ~build.cancel
    /\ build' = [build EXCEPT !.cancel = TRUE, !.phase = "Cancelled"]
    /\ UNCHANGED <<head, since, kaniko, buildPassVars, again, retold>>

JobEnds ==
    /\ kaniko.state = "running" /\ \E s \in {"succeeded", "failed"} : kaniko' = [kaniko EXCEPT !.state = s]
    /\ UNCHANGED <<head, since, build, buildPassVars, again, retold>>

(* The Job's time to live runs out, an hour after it ended, whatever the   *)
(* controller is doing.                                                    *)
JobExpires ==
    /\ kaniko.state \in {"succeeded", "failed"} /\ kaniko' = NoJob
    /\ UNCHANGED <<head, since, build, buildPassVars, again, retold>>

-----------------------------------------------------------------------------
(* A pass.                                                                 *)

Reads ==
    /\ buildPass = "idle" /\ ~buildSettled(build) /\ buildPass' = "act" /\ mine' = build
    /\ UNCHANGED <<head, since, build, kaniko, result, latest, jobFound, found, again, retold>>

(* The pass is over, or goes on to write a status.                         *)
BuildPassOver == buildPass' = "idle" /\ UNCHANGED result
Writes(phase, begun) == buildPass' = "look" /\ result' = [phase |-> phase, started |-> begun]

StaleJob(b) == ~started(b) /\ ~b.cancel /\ kaniko.state # "none"

(* A build that has not started has no Job of its own: one that is there   *)
(* is the last run's.                                                      *)
RemovesStale == StaleJob(mine) /\ kaniko' = NoJob /\ BuildPassOver /\ UNCHANGED mine

Cancels == mine.cancel /\ kaniko' = NoJob /\ Writes("Cancelled", FALSE) /\ UNCHANGED mine

(* The commit is resolved once a run; the checks have to be over, and      *)
(* GitHub has to answer.                                                   *)
refreshGitHubState ==
    /\ ~mine.cancel /\ ~started(mine) /\ ~StaleJob(mine) /\ UNCHANGED kaniko
    /\ \/ Writes("WaitingForCI", FALSE) /\ mine' = [mine EXCEPT !.rev = IF @ = 0 THEN head ELSE @]
       \/ \E p \in {"Failed", "Pending"} : Writes(p, FALSE) /\ UNCHANGED mine

MakesJob ==
    /\ ~mine.cancel /\ ~jobRan(mine) /\ kaniko.state = "none"
    /\ mine' = [mine EXCEPT !.rev = IF @ = 0 THEN head ELSE @]
    /\ kaniko' = [rev |-> mine'.rev, state |-> "running"] /\ Writes("Running", TRUE)

PhaseOf(state) == CASE state = "succeeded" -> "Succeeded" [] state = "failed" -> "Failed" [] OTHER -> "Running"

ReadsJob ==
    /\ ~mine.cancel /\ ~StaleJob(mine) /\ UNCHANGED <<kaniko, mine>>
    /\ IF kaniko.state # "none" THEN Writes(PhaseOf(kaniko.state), FALSE) ELSE jobRan(mine) /\ BuildPassOver

reconcileBuild ==
    /\ buildPass = "act" /\ (RemovesStale \/ Cancels \/ refreshGitHubState \/ MakesJob \/ ReadsJob)
    /\ UNCHANGED <<head, since, build, latest, jobFound, found, again, retold>>

(* A mutant: a pass does not see that the build was put back.              *)
NeverPutBack == FALSE

(* updateStatus: what the Job says is read first; what was found out from  *)
(* a Job under a build that has been put back since is not written.        *)
PutBack == kaniko.state # "none" /\ ~result.started /\ ~build.started

Digest ==
    IF result.phase # "Succeeded" THEN 0
    ELSE IF kaniko.state = "succeeded" THEN kaniko.rev
    ELSE IF build.phase = "Succeeded" THEN build.digest ELSE 0

updateStatus ==
    /\ buildPass = "look" /\ latest' = build /\ jobFound' = (kaniko.state # "none") /\ found' = Digest
    /\ buildPass' = IF PutBack THEN "idle" ELSE "patch"
    /\ UNCHANGED <<head, since, build, kaniko, mine, result, again, retold>>

Updated(b) ==
    [b EXCEPT !.phase = IF result.phase = "Succeeded" /\ found = 0 THEN "Failed" ELSE result.phase,
              !.started = @ \/ result.started, !.rev = mine.rev,
              !.digest = IF result.phase = "Succeeded" THEN found ELSE @]

(* PatchStatus: a copy that is not the latest any more is read again and   *)
(* the same change made to it, over a reset too.                           *)
PatchStatus ==
    /\ buildPass = "patch" /\ build' = Updated(build) /\ buildPass' = "idle"
    /\ retold' = (retold \/ mine.resets # build.resets)
    /\ UNCHANGED <<head, since, kaniko, mine, result, latest, jobFound, found, again>>

(* The operator restarts, or a call fails.                                 *)
BuildPassFails ==
    /\ buildPass # "idle" /\ buildPass' = "idle"
    /\ UNCHANGED <<head, since, build, kaniko, mine, result, latest, jobFound, found, again, retold>>

BuildPass == Reads \/ reconcileBuild \/ updateStatus \/ PatchStatus

BuildsNext == retriggerBuild \/ CancelBuild \/ JobEnds \/ JobExpires \/ BuildPass \/ BuildPassFails

BuildsSpec == BuildsInit /\ [][BuildsNext]_buildVars

(* Passes go on, Jobs end, GitHub answers and its checks end, failures of  *)
(* the operator end, and a pass comes within the hour for which a Job that *)
(* ended is kept.                                                          *)
BuildsFair ==
    /\ WF_buildVars(BuildPass) /\ WF_buildVars(JobEnds) /\ WF_buildVars(retriggerBuild /\ again = "reset")
    /\ SF_buildVars(reconcileBuild /\ MakesJob) /\ <>[][BuildPassFails => BuildPass]_buildVars
    /\ <>[][JobExpires => jobRan(build)]_buildVars

-----------------------------------------------------------------------------
Record == [phase : Phase, started : BOOLEAN, cancel : BOOLEAN, digest : Commit, rev : Commit, resets : Commit]

(* A run has a commit, and a digest is of a run that succeeded.            *)
BuildsTypeOK ==
    /\ head \in Commit /\ since \in Commit /\ build \in Record /\ mine \in Record /\ latest \in Record
    /\ kaniko \in [rev : Commit, state : {"none", "running", "succeeded", "failed"}]
    /\ buildPass \in {"idle", "act", "look", "patch"} /\ result \in [phase : Phase, started : BOOLEAN] /\ found \in Commit
    /\ jobFound \in BOOLEAN /\ again \in {"idle", "reset"} /\ retold \in BOOLEAN
    /\ kaniko.state = "none" <=> kaniko.rev = 0

(* The digest that is shown is of the commit that is shown beside it, over *)
(* Jobs that expire and are made again, failures and resets (updateStatus, *)
(* "Kaniko completed without an immutable image digest").                  *)
ShowsWhatItBuilt == build.phase = "Succeeded" => build.digest # 0 /\ build.digest = build.rev

(* A pass that found a Job which it did not make notices every reset that  *)
(* came before its look: a start time is gone for good once the build is   *)
(* put back, since only a pass gives it a new one (updateStatus, "This     *)
(* pass read a Job that the build has since been put back to the start     *)
(* under").                                                                *)
ResetIsSeen == buildPass = "patch" /\ jobFound /\ ~result.started => mine.resets = latest.resets

(* "a digest left from its last run is never taken for the result of this  *)
(* one" (updateStatus): unless a pass begun before the reset wrote over    *)
(* it, a build that has succeeded since it was put back to the start built *)
(* a commit at least as new as the one that was newest then.               *)
ResultIsOwn == build.phase = "Succeeded" /\ ~retold => build.digest >= since

(* A build that is put back, cancelled and superseded while a pass works   *)
(* on it (updateStatus) shows what it built; a reset before the look is    *)
(* seen, and one that no pass overlaps is not undone.                      *)
BuildsSafe == BuildsTypeOK /\ ShowsWhatItBuilt /\ ResetIsSeen /\ ResultIsOwn

(* A push is built: the build that was put back for it has its Job run to  *)
(* an end, or is cancelled, or a pass begun before the reset wrote an old  *)
(* result over it; a GitHub that did not answer, a Job or a status of the  *)
(* run before, and a Job that expired do not keep it from that.            *)
PushIsBuilt ==
    BuildsFair => (build.phase = "Pending" /\ ~build.started) ~>
                  \/ build.cancel \/ (build.started /\ build.phase \in {"Succeeded", "Failed"})
                  \/ retold /\ build.phase = "Succeeded"

(* A build that is cancelled does not go on: its Job is removed, one that  *)
(* a pass made at the same moment too.                                     *)
CancelStopsJob == BuildsFair => build.cancel ~> (kaniko.state = "none" \/ ~build.cancel)

(* Where builds end (reconcileBuild): a push is built, a cancelled one     *)
(* stops.                                                                  *)
BuildsSettle == PushIsBuilt /\ CancelStopsJob
=============================================================================
