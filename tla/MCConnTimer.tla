----------------------------- MODULE MCConnTimer -----------------------------
(* Instances of ConnTimer for TLC. *)
EXTENDS ConnTimer, TLC

SlotSymmetry == Permutations(Front) \cup Permutations(Back)
==============================================================================
