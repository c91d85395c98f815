----------------------------- MODULE MCNodePool -----------------------------
(* NodePool on small instances.                                            *)
EXTENDS NodePool, TLC

NameSymmetry == Permutations(Name)
=============================================================================
