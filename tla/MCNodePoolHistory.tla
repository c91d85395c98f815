------------------------- MODULE MCNodePoolHistory -------------------------
(* NodePoolHistory on small instances.                                     *)
EXTENDS NodePoolHistory, TLC

NameSymmetry == Permutations(Name)
=============================================================================
