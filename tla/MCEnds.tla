------------------------------ MODULE MCEnds ------------------------------
(***************************************************************************)
(* The smaller components with a liveness property, each by itself, as in  *)
(* MCFair.                                                                 *)
(***************************************************************************)
EXTENDS PoolDrain, K3sUpgrade, Webhooks, SsoSessions, Builds

CONSTANT Moving  \* the components that move
VARIABLE part    \* the one that moves in this behaviour

(* Every component starts as it does by itself; one that does not move     *)
(* starts in one fixed state.                                              *)
EndsInit ==
    /\ part \in Moving
    /\ Init
    /\ UpgradeInit
    /\ HooksInit
    /\ SsoInit
    /\ BuildsInit
    /\ part # "PoolDrain" => busy = {}

EndsNext ==
    /\ UNCHANGED part
    /\ \/ part = "PoolDrain" /\ Next
          /\ UNCHANGED <<upgradeVars, hookVars, ssoVars, buildVars>>
       \/ part = "K3sUpgrade" /\ UpgradeNext
          /\ UNCHANGED <<vars, hookVars, ssoVars, buildVars>>
       \/ part = "Webhooks" /\ HooksNext
          /\ UNCHANGED <<vars, upgradeVars, ssoVars, buildVars>>
       \/ part = "SsoSessions" /\ SsoNext
          /\ UNCHANGED <<vars, upgradeVars, hookVars, buildVars>>
       \/ part = "Builds" /\ BuildsNext
          /\ UNCHANGED <<vars, upgradeVars, hookVars, ssoVars>>

EndsSpec == EndsInit /\ [][EndsNext]_<<part, vars, upgradeVars, hookVars, ssoVars, buildVars>>

(* The upgrade uncordons every node it cordoned, or its status says why it *)
(* has not (geasscluster_k3supgrade.go): UpgradeLetsGo, where it moves.    *)
NodesLetGo == part = "K3sUpgrade" => UpgradeLetsGo

(* Every event emitted is delivered or given up (Deliver of webhooks.go):  *)
(* EventEnds, where it moves.                                              *)
DeliveriesEnd == part = "Webhooks" => EventEnds

(* A session that the provider no longer vouches for is ended (refreshOne): *)
(* StaleSessionEnds, where it moves.                                       *)
StaleSessionsEnd == part = "SsoSessions" => StaleSessionEnds

(* A push is built, and the Job of a cancelled build is removed            *)
(* (reconcileBuild): BuildsSettle, where it moves.                         *)
BuildsEnd == part = "Builds" => BuildsSettle

(* A node that the pool began to empty is put back into service or goes    *)
(* (continueDrains): DrainEnds, where it moves.                            *)
DrainsEnd == part = "PoolDrain" => (DrainFairness => DrainEnds)
=============================================================================
