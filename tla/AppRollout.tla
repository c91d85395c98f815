----------------------------- MODULE AppRollout -----------------------------
(***************************************************************************)
(* How a service is rolled out: the passes of GeassAppReconciler over its  *)
(* Deployment, scale to zero, giving up and trying again                   *)
(* (pkg/platform/reconcile_retry.go), suspension for abuse, and what the   *)
(* webhooks of the project are told of a deploy.  One copy is asked for.   *)
(***************************************************************************)
EXTENDS Naturals, FiniteSets

CONSTANTS
    MaxVersion,       \* deploys of the service
    Broken,           \* versions whose copies crash when they start
    MaxFailures,      \* reconcileFailureLimits
    FailureThreshold, \* spec.deploy.failureThreshold; 0: none
    RolloutHappens    \* what else may happen, see RolloutIncidents

(* lag: the Deployment is read back from the cache as it was before the    *)
(* pass wrote it; overlap: two deploys announce themselves in the other    *)
(* order.                                                                  *)
RolloutIncidents == {"lag", "overlap"}

ASSUME RolloutAssumption ==
    /\ MaxVersion \in Nat \ {0} /\ MaxFailures \in Nat \ {0} /\ FailureThreshold \in Nat
    /\ Broken \subseteq 1 .. MaxVersion /\ RolloutHappens \subseteq RolloutIncidents

VARIABLES
    app,        \* version (its generation and its deploy revision; 0: a draft), suspended, sleepy (asks for scale to zero)
    rollout,    \* Ready's reason, failures, gaveUpOn (FailureGeneration), health, paused
    announced,  \* the webhook state annotation; waiting: deploys not announced yet
    told,       \* the outcomes sent to the webhooks
    deployment, \* version and replicas of its spec, observed
    copies,     \* versions with a copy up and with one that cannot start; started: all that were ever up
    sleeper,    \* the HTTPScaledObject: the version seen to start, the fewest copies
    appPass     \* the pass at work and what it read

rolloutVars == <<app, rollout, announced, told, deployment, copies, sleeper, appPass>>

Version == 0 .. MaxVersion
NoSleeper == [there |-> FALSE, verified |-> 0, min |-> 1]
AppIdle == [at |-> "idle", version |-> 0, suspended |-> FALSE, verifying |-> FALSE, fresh |-> FALSE,
            mark |-> [of |-> 0, event |-> "none"], event |-> "none"]

RolloutInit ==
    /\ \E sleepy \in BOOLEAN : app = [version |-> 0, suspended |-> FALSE, sleepy |-> sleepy]
    /\ rollout = [reason |-> "none", failures |-> 0, gaveUpOn |-> 0, health |-> 0, paused |-> FALSE]
    /\ announced = [mark |-> AppIdle.mark, waiting |-> {}] /\ told = {}
    /\ deployment = [version |-> 0, replicas |-> 0, observed |-> TRUE]
    /\ copies = [up |-> {}, crashing |-> {}, started |-> {}] /\ sleeper = NoSleeper /\ appPass = AppIdle

(***************************************************************************)
(* What is written to the service while a pass is at work makes the copy   *)
(* that pass holds an old one, which a patch under the optimistic lock     *)
(* refuses.                                                                *)
(***************************************************************************)
Outdates == appPass' = [appPass EXCEPT !.fresh = FALSE]

DeploysApp ==
    /\ app.version < MaxVersion /\ app' = [app EXCEPT !.version = @ + 1] /\ Outdates
    /\ announced' = [announced EXCEPT !.waiting = @ \cup {app.version + 1}]
    /\ UNCHANGED <<rollout, told, deployment, copies, sleeper>>

announceDeployment(v) ==
    /\ v \in announced.waiting /\ (v < announced.mark.of => "overlap" \in RolloutHappens) /\ Outdates
    /\ announced' = [mark |-> [of |-> v, event |-> "started"], waiting |-> announced.waiting \ {v}]
    /\ UNCHANGED <<app, rollout, told, deployment, copies, sleeper>>

(* A platform administrator suspends the service or releases it: an        *)
(* annotation, so its generation stays.                                    *)
SuspendsApp ==
    /\ app.version > 0 /\ app' = [app EXCEPT !.suspended = ~@] /\ Outdates
    /\ UNCHANGED <<rollout, announced, told, deployment, copies, sleeper>>

(* A mutant: Retry clears the counters and leaves the reason.              *)
RetriesOnlyCount ==
    /\ rollout.reason = "ProvisionFailed" /\ rollout' = [rollout EXCEPT !.failures = 0, !.gaveUpOn = 0] /\ Outdates
    /\ UNCHANGED <<app, announced, told, deployment, copies, sleeper>>

(* The Retry button: ResetProvisionRetry.                                  *)
retryProvisionResource ==
    /\ rollout.reason = "ProvisionFailed"
    /\ rollout' = [rollout EXCEPT !.reason = "ReconcileError", !.failures = 0, !.gaveUpOn = 0] /\ Outdates
    /\ UNCHANGED <<app, announced, told, deployment, copies, sleeper>>

(***************************************************************************)
(* Kubernetes rolls the Deployment: a copy of the old version stays until  *)
(* one of the new version is up.  The add-on starts and stops what sleeps. *)
(***************************************************************************)
DeploymentSeen ==
    /\ ~deployment.observed /\ deployment' = [deployment EXCEPT !.observed = TRUE]
    /\ copies' = [copies EXCEPT !.crashing = @ \cap {deployment.version}]
    /\ UNCHANGED <<app, rollout, announced, told, sleeper, appPass>>

Rolling == deployment.observed /\ deployment.replicas = 1 /\ deployment.version \notin copies.up
CopyStarts ==
    /\ Rolling /\ deployment.version \notin Broken
    /\ copies' = [up |-> {deployment.version}, crashing |-> {}, started |-> copies.started \cup {deployment.version}]
    /\ UNCHANGED <<app, rollout, announced, told, deployment, sleeper, appPass>>
CopyCrashes ==
    /\ Rolling /\ deployment.version \in Broken \ copies.crashing
    /\ copies' = [copies EXCEPT !.crashing = @ \cup {deployment.version}]
    /\ UNCHANGED <<app, rollout, announced, told, deployment, sleeper, appPass>>
CopiesStop ==
    /\ deployment.observed /\ deployment.replicas = 0 /\ copies.up \cup copies.crashing # {}
    /\ copies' = [copies EXCEPT !.up = {}, !.crashing = {}]
    /\ UNCHANGED <<app, rollout, announced, told, deployment, sleeper, appPass>>

AddonScales(n) ==
    /\ sleeper.there /\ deployment.replicas = 1 - n /\ n >= sleeper.min
    /\ deployment' = [deployment EXCEPT !.replicas = n, !.observed = FALSE]
    /\ UNCHANGED <<app, rollout, announced, told, copies, sleeper, appPass>>
AddonWakes == AddonScales(1)
AddonIdles == AddonScales(0)

(***************************************************************************)
(* beginProvisionReconcile: the counters are reset in memory when the spec *)
(* changed, and then looked at.                                            *)
(***************************************************************************)
SyncReconcileRetryForGeneration == IF rollout.gaveUpOn # app.version THEN 0 ELSE rollout.gaveUpOn
ReconcileProvisionPaused ==
    rollout.reason = "ProvisionFailed" /\ SyncReconcileRetryForGeneration \in {0, app.version}

AppPassBegins ==
    /\ appPass.at = "idle" /\ ~ReconcileProvisionPaused /\ (app.version > 0 => ~rollout.paused)
    /\ appPass' = [AppIdle EXCEPT !.at = IF app.version = 0 THEN "waits" ELSE "begun", !.version = app.version,
                                  !.suspended = app.suspended, !.fresh = TRUE, !.mark = announced.mark]
    /\ UNCHANGED <<app, rollout, announced, told, deployment, copies, sleeper>>

(* planScaleToZero: the service sleeps, unless it is suspended.            *)
Active == app.sleepy /\ ~appPass.suspended

(* The replicas of a service that sleeps are left to the add-on; a new     *)
(* Deployment has one.                                                     *)
WantedReplicas == IF appPass.suspended THEN 0 ELSE 1
reconcileDeployment ==
    /\ appPass.at = "begun" /\ appPass' = [appPass EXCEPT !.at = "deployed"]
    /\ LET replicas == IF ~Active THEN WantedReplicas ELSE IF deployment.version = 0 THEN 1 ELSE deployment.replicas
           same == deployment.version = appPass.version /\ deployment.replicas = replicas
       IN  deployment' = [version |-> appPass.version, replicas |-> replicas, observed |-> same /\ deployment.observed]
    /\ UNCHANGED <<app, rollout, announced, told, copies, sleeper>>

(* The fingerprint is read back; what was not seen to start is held at one *)
(* copy.                                                                   *)
templateFingerprint == IF "lag" \in RolloutHappens THEN {deployment.version} \cup copies.started ELSE {deployment.version}
reconcileScaleToZero ==
    /\ appPass.at = "deployed"
    /\ \E fingerprint \in templateFingerprint :
          LET verifying == Active /\ sleeper.verified # fingerprint
          IN  /\ appPass' = [appPass EXCEPT !.at = "routed", !.verifying = verifying]
              /\ sleeper' = IF Active THEN [there |-> TRUE, verified |-> sleeper.verified, min |-> IF verifying THEN 1 ELSE 0]
                                      ELSE NoSleeper
    /\ UNCHANGED <<app, rollout, announced, told, deployment, copies>>

(***************************************************************************)
(* startGate, and what reconcileApp makes of the Deployment after it.  An  *)
(* old version's copy makes a Deployment ready; to be verified it takes a  *)
(* copy of the version, and no other.                                      *)
(***************************************************************************)
effectiveReplicas == IF appPass.suspended THEN 0
                     ELSE IF appPass.verifying \/ ~Active THEN 1
                     ELSE deployment.replicas
deploymentReady == deployment.observed /\ (effectiveReplicas = 0 \/ copies.up # {})

(* A mutant: a copy of the version before counts as a start.               *)
AnyCopyUp == deployment.observed /\ copies.up # {}

deploymentVerified == deployment.observed /\ copies.up = {deployment.version} /\ copies.crashing = {}
startProblem == copies.crashing # {}

(* A verified service that sleeps when idle; asleep, it has no copy.       *)
MaySleep == Active /\ ~appPass.verifying
Asleep == MaySleep /\ effectiveReplicas = 0

Finds(where) == appPass' = [appPass EXCEPT !.at = where]
startGate ==
    /\ appPass.at = "routed"
    /\ IF ~Asleep /\ startProblem /\ ~(IF appPass.verifying THEN deploymentVerified ELSE deploymentReady)
       THEN Finds("fails") /\ UNCHANGED sleeper
       ELSE IF appPass.verifying /\ deploymentVerified
       THEN Finds("ready") /\ sleeper' = [sleeper EXCEPT !.verified = deployment.version, !.min = 0]
       ELSE IF deploymentReady
       THEN Finds("ready") /\ UNCHANGED sleeper
       ELSE Finds(IF MaySleep /\ ~Asleep THEN "wakes" ELSE "starts") /\ UNCHANGED sleeper
    /\ UNCHANGED <<app, rollout, announced, told, deployment, copies>>

(* One of the many calls before it fails, and the pass says so.            *)
AppPassFails ==
    /\ appPass.at \in {"begun", "deployed", "routed"} /\ Finds("fails")
    /\ UNCHANGED <<app, rollout, announced, told, deployment, copies, sleeper>>

(***************************************************************************)
(* setNotReady and ApplyNotReady: the service is read again, and its       *)
(* generation then is the one given up on.  A message that is no failure   *)
(* clears the count.                                                       *)
(***************************************************************************)
Counts == rollout.failures + 1
GivesUp == Counts >= MaxFailures
ApplyNotReady ==
    IF appPass.at # "fails" THEN [rollout EXCEPT !.reason = "ReconcileError", !.failures = 0, !.gaveUpOn = 0]
    ELSE IF GivesUp THEN [rollout EXCEPT !.reason = "ProvisionFailed", !.failures = Counts, !.gaveUpOn = app.version]
    ELSE [rollout EXCEPT !.reason = "ReconcileError", !.failures = Counts]

setNotReady ==
    /\ appPass.at \in {"fails", "waits"} /\ rollout' = ApplyNotReady
    /\ appPass' = IF rollout'.reason = "ProvisionFailed"
                  THEN [appPass EXCEPT !.at = "tells", !.version = app.version, !.event = "failed", !.fresh = TRUE, !.mark = announced.mark]
                  ELSE AppIdle
    /\ UNCHANGED <<app, announced, told, deployment, copies, sleeper>>

setWaking ==
    /\ appPass.at = "wakes" /\ appPass' = AppIdle /\ rollout' = [rollout EXCEPT !.reason = "Waking"]
    /\ UNCHANGED <<app, announced, told, deployment, copies, sleeper>>

(* The failed health checks of a service that asks for a threshold.        *)
AtThreshold == FailureThreshold > 0 /\ rollout.health + 1 >= FailureThreshold
HealthCheckFails ==
    /\ appPass.at = "starts"
    /\ IF AtThreshold
       THEN /\ \E pauseOnFailure \in BOOLEAN :
                  rollout' = [rollout EXCEPT !.reason = "RolloutFailed", !.health = FailureThreshold, !.paused = pauseOnFailure]
            /\ appPass' = AppIdle
       ELSE /\ rollout' = [rollout EXCEPT !.health = IF FailureThreshold > 0 THEN @ + 1 ELSE @] /\ Finds("waits")
    /\ UNCHANGED <<app, announced, told, deployment, copies, sleeper>>

(* The status of a ready service.  The patch of it makes the copy the pass *)
(* began with an old one, when it changes anything.                        *)
TellsReady == ~appPass.suspended
SetReady ==
    /\ appPass.at = "ready"
    /\ rollout' = [reason |-> IF appPass.suspended THEN "Suspended" ELSE "AppReady", failures |-> 0, gaveUpOn |-> 0, health |-> 0,
                   paused |-> rollout.paused /\ rollout.health = 0]
    /\ appPass' = IF TellsReady THEN [appPass EXCEPT !.at = "tells", !.event = "succeeded", !.fresh = @ /\ rollout' = rollout]
                                ELSE AppIdle
    /\ UNCHANGED <<app, announced, told, deployment, copies, sleeper>>

(* notifyDeployOutcome: claimed on the service, then sent.                 *)
Announced == appPass.mark.of = appPass.version /\ appPass.mark.event # appPass.event
notifyDeployOutcome ==
    /\ appPass.at = "tells" /\ appPass' = AppIdle
    /\ IF Announced /\ appPass.fresh
       THEN /\ announced' = [announced EXCEPT !.mark.event = appPass.event]
            /\ told' = told \cup {<<appPass.version, appPass.event>>}
       ELSE UNCHANGED <<announced, told>>
    /\ UNCHANGED <<app, rollout, deployment, copies, sleeper>>

AppPassStops ==
    /\ appPass.at # "idle" /\ appPass' = AppIdle
    /\ UNCHANGED <<app, rollout, announced, told, deployment, copies, sleeper>>

AppPassStep == \/ reconcileDeployment \/ reconcileScaleToZero \/ startGate \/ setNotReady \/ setWaking
               \/ HealthCheckFails \/ SetReady \/ notifyDeployOutcome
RolloutNext ==
    \/ DeploysApp \/ SuspendsApp \/ retryProvisionResource \/ \E v \in 1 .. MaxVersion : announceDeployment(v)
    \/ DeploymentSeen \/ CopyStarts \/ CopyCrashes \/ CopiesStop \/ AddonWakes \/ AddonIdles
    \/ AppPassBegins \/ AppPassStep \/ AppPassFails \/ AppPassStops

RolloutSpec == RolloutInit /\ [][RolloutNext]_rolloutVars

(* Passes are tried again and run to their end, Kubernetes and the add-on  *)
(* do their work, and a deploy announces itself.  Administrators decide at *)
(* last, visitors stay at last, and at last no pass is cut short.          *)
RolloutFair ==
    /\ WF_rolloutVars(AppPassBegins) /\ WF_rolloutVars(AppPassStep)
    /\ WF_rolloutVars(DeploymentSeen \/ CopyStarts \/ CopyCrashes \/ CopiesStop)
    /\ WF_rolloutVars(sleeper.min = 1 /\ AddonWakes)
    /\ WF_rolloutVars(\E v \in 1 .. MaxVersion : announceDeployment(v))
    /\ <>[][~SuspendsApp /\ ~AddonIdles /\ (AppPassStops => AppPassStep)]_rolloutVars
RolloutFairSpec == RolloutSpec /\ RolloutFair
-----------------------------------------------------------------------------
(* Types; and the version a Deployment has is one that was deployed.       *)
RolloutTypeOK ==
    /\ app \in [version : Version, suspended : BOOLEAN, sleepy : BOOLEAN]
    /\ rollout \in [reason : {"none", "ReconcileError", "ProvisionFailed", "RolloutFailed", "Waking", "Suspended", "AppReady"},
                    failures : 0 .. MaxFailures, gaveUpOn : Version, health : 0 .. FailureThreshold, paused : BOOLEAN]
    /\ announced.mark \in [of : Version, event : {"none", "started", "succeeded", "failed"}] /\ announced.waiting \subseteq 1 .. app.version
    /\ told \subseteq (1 .. MaxVersion) \X {"succeeded", "failed"}
    /\ deployment \in [version : 0 .. app.version, replicas : 0 .. 1, observed : BOOLEAN]
    /\ copies \in [up : SUBSET Version, crashing : SUBSET Broken, started : SUBSET (Version \ Broken)]
    /\ sleeper \in [there : BOOLEAN, verified : Version, min : 0 .. 1]

(* A version that has not been seen to start is held at one copy           *)
(* (reconcileScaleToZero, deploymentVerified "a copy of the previous       *)
(* version that is still up while the new one fails does not count"): a    *)
(* pass lets no version sleep that never had a copy up.                    *)
SleepsOnlyStarted ==
    /\ sleeper.verified \in copies.started \cup {0}
    /\ appPass.at \in {"routed", "ready", "wakes", "starts"} /\ Active /\ ~appPass.verifying => appPass.version \in copies.started

(* notifyDeployOutcome is for a deploy that ended: no deploy is told to    *)
(* have succeeded before any copy of the service ever ran, whatever is     *)
(* suspended, asleep or given up meanwhile.                                *)
SucceededHasRun == \A v \in 1 .. MaxVersion : <<v, "succeeded">> \in told => \E w \in copies.started : w <= v

(* What a service is let sleep on and told (reconcileScaleToZero,          *)
(* startGate, notifyDeployOutcome) is something that ran.                  *)
RolloutSafe == RolloutTypeOK /\ SleepsOnlyStarted /\ SucceededHasRun

(* docs/guides/github-and-builds.md:721, "`deployment.succeeded` when the  *)
(* pods of that deploy are ready".                                         *)
SucceededIsReady == \A v \in 1 .. MaxVersion : <<v, "succeeded">> \in told => v \in copies.started

(* "Suspended for abuse: no copy runs until a platform administrator       *)
(* releases it" (reconcileDeployment): a service that stays suspended, and *)
(* is not given up on or paused, is brought to zero copies and kept there, *)
(* whatever the add-on does meanwhile.                                     *)
SuspendedStops ==
    RolloutFair /\ <>[][~AppPassFails]_rolloutVars
        => (<>[](app.suspended /\ rollout.reason # "ProvisionFailed" /\ ~rollout.paused) => <>[](deployment.replicas = 0 /\ copies.up = {}))

(* "Only announced deploys report an outcome" (notifyDeployOutcome), and   *)
(* they do: the last deploy of a service that is not suspended is told to  *)
(* have succeeded or failed, if someone presses Retry when it was given    *)
(* up (and not for ever in the moment between the status and the event).   *)
OutcomeTold ==
    RolloutFair /\ WF_rolloutVars(retryProvisionResource) /\ <>[][~(retryProvisionResource /\ appPass.at = "tells")]_rolloutVars
        /\ <>[](app.version = MaxVersion /\ ~app.suspended)
        => <>(\E e \in {"succeeded", "failed"} : <<MaxVersion, e>> \in told)

(* Where a rollout ends: a suspended service at rest without a copy        *)
(* (reconcileDeployment), a deploy with its outcome told                   *)
(* (notifyDeployOutcome).                                                  *)
RolloutsSettle == SuspendedStops /\ OutcomeTold

(* ReconcileProvisionPaused "reports whether reconciliation should idle    *)
(* until spec changes": a service given up on one version that is deployed *)
(* again is reconciled again.                                              *)
ChangedIsTried == (rollout.reason = "ProvisionFailed" /\ rollout.gaveUpOn # app.version) ~> (appPass.at # "idle")
=============================================================================
