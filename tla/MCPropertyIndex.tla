-------------------------- MODULE MCPropertyIndex --------------------------
(* Instances of PropertyIndex for TLC. *)
EXTENDS PropertyIndex, TLC

Symmetry == Permutations(Handler) \cup Permutations(Property)
=============================================================================
