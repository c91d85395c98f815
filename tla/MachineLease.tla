---------------------------- MODULE MachineLease ----------------------------
(***************************************************************************)
(* What a node whose machine Geass creates promises about what it pays     *)
(* for: it holds at most one machine, takes the next one only when the     *)
(* last is released, and goes away only when it holds none, unless its     *)
(* user said to leave the machine at the provider.                         *)
(***************************************************************************)
CONSTANT Machine

VARIABLES
    held,   \* machines the provider has and was not asked to remove
    here,   \* the node exists
    left    \* the user said to leave the machine

leaseVars == <<held, here, left>>

Init == held = {} /\ here = TRUE /\ left = FALSE

Acquire == /\ here /\ held = {}
           /\ \E m \in Machine : held' = {m}
           /\ UNCHANGED <<here, left>>

(* By the node, or by the provider or someone at its console.              *)
Release == held' = {} /\ UNCHANGED <<here, left>>

Leave == here /\ left' = TRUE /\ UNCHANGED <<held, here>>

LetGo == /\ here /\ (held = {} \/ left)
         /\ here' = FALSE
         /\ UNCHANGED <<held, left>>

Next == Acquire \/ Release \/ Leave \/ LetGo

Spec == Init /\ [][Next]_leaseVars
=============================================================================
