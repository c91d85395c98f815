------------------------------ MODULE MCFair ------------------------------
(***************************************************************************)
(* The larger components with a liveness property, each by itself. Such a  *)
(* property is asked of the behaviours of its own component only, and brings*)
(* the fairness it needs.                                                  *)
(***************************************************************************)
EXTENDS LostNode, AppRollout, DatabaseBackups, ServiceAbuse

CONSTANT Moving  \* the components that move
VARIABLE part    \* the one that moves in this behaviour

(* Every component starts as it does by itself; one that does not move     *)
(* starts in one fixed state.                                              *)
FairInit ==
    /\ part \in Moving
    /\ LostInit
    /\ RolloutInit
    /\ BackupsInit
    /\ AbuseInit
    /\ part # "LostNode" => (kind = (CHOOSE k \in VolumeKinds : TRUE) /\ \A i, j \in Instance : on[i] = on[j] /\ on[i] = (CHOOSE m \in Machine : TRUE))
    /\ part # "AppRollout" => ~app.sleepy
    /\ part # "DatabaseBackups" => backupKind = CHOOSE k \in BackupKinds : TRUE
    /\ part # "ServiceAbuse" => abuseOn.suspends

FairNext ==
    /\ UNCHANGED part
    /\ \/ part = "LostNode" /\ LostNext
          /\ UNCHANGED <<rolloutVars, backupVars, abuseVars>>
       \/ part = "AppRollout" /\ RolloutNext
          /\ UNCHANGED <<lostVars, backupVars, abuseVars>>
       \/ part = "DatabaseBackups" /\ BackupsNext
          /\ UNCHANGED <<lostVars, rolloutVars, abuseVars>>
       \/ part = "ServiceAbuse" /\ AbuseNext
          /\ UNCHANGED <<lostVars, rolloutVars, backupVars>>

FairSpec == FairInit /\ [][FairNext]_<<part, lostVars, rolloutVars, backupVars, abuseVars>>

(* A database is whole again after machines were lost (lost_node.go):      *)
(* WholeAgain, where it moves.                                             *)
DatabasesWhole == part = "LostNode" => WholeAgain

(* A suspended service comes to rest with no copy (reconcileDeployment) and *)
(* every deploy has its outcome told (notifyDeployOutcome): RolloutsSettle, *)
(* where it moves.                                                         *)
RolloutsEnd == part = "AppRollout" => RolloutsSettle

(* A deleted database goes, with its server and its archives (Reconcile of *)
(* geassdatabase_controller.go): DeletedGoes, where it moves.              *)
DatabasesGo == part = "DatabaseBackups" => DeletedGoes

(* Detection that is switched off leaves no mark (AbuseReconciler), and    *)
(* conditions come to say what the annotations say (reconcileService):     *)
(* AbuseSettles, where it moves.                                           *)
AbuseFollows == part = "ServiceAbuse" => AbuseSettles
=============================================================================
