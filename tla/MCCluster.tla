----------------------------- MODULE MCCluster -----------------------------
(***************************************************************************)
(* The parts of the operator that work on machines and services,           *)
(* each by itself: these modules share no variable, so every behaviour is  *)
(* one of a single component and the others stay as they start.            *)
(***************************************************************************)
EXTENDS PoolDrain, K3sUpgrade, LostNode, AppRollout

CONSTANT Moving  \* the components that move
VARIABLE part    \* the one that moves in this behaviour

(* Every component starts as it does by itself; one that does not move     *)
(* starts in one fixed state.                                              *)
FleetInit ==
    /\ part \in Moving
    /\ Init
    /\ UpgradeInit
    /\ LostInit
    /\ RolloutInit
    /\ part # "PoolDrain" => busy = {}
    /\ part # "LostNode" => (kind = (CHOOSE k \in VolumeKinds : TRUE) /\ \A i, j \in Instance : on[i] = on[j] /\ on[i] = (CHOOSE m \in Machine : TRUE))
    /\ part # "AppRollout" => ~app.sleepy

FleetNext ==
    /\ UNCHANGED part
    /\ \/ part = "PoolDrain" /\ Next
          /\ UNCHANGED <<upgradeVars, lostVars, rolloutVars>>
       \/ part = "K3sUpgrade" /\ UpgradeNext
          /\ UNCHANGED <<vars, lostVars, rolloutVars>>
       \/ part = "LostNode" /\ LostNext
          /\ UNCHANGED <<vars, upgradeVars, rolloutVars>>
       \/ part = "AppRollout" /\ RolloutNext
          /\ UNCHANGED <<vars, upgradeVars, lostVars>>

FleetSpec == FleetInit /\ [][FleetNext]_<<part, vars, upgradeVars, lostVars, rolloutVars>>
=============================================================================
