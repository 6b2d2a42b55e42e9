------------------------------- MODULE MCMaster -------------------------------
(* Instances of Master for TLC. *)
EXTENDS Master, TLC

StartSymmetry == Permutations(Start)
===============================================================================
