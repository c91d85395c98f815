---------------------------- MODULE MCCloudNode ----------------------------
(* CloudNode on small instances.                                           *)
EXTENDS CloudNode, TLC

MachineSymmetry == Permutations(Machine)
=============================================================================
