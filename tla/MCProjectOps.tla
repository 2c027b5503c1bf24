---------------------------- MODULE MCProjectOps ----------------------------
(* Instances of ProjectOps for TLC.                                         *)
EXTENDS ProjectOps, TLC

RequestSymmetry == Permutations(Requests)
=============================================================================
