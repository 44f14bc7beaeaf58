----------------------------- MODULE MCMlsSync -----------------------------
(* Instances of MlsSync for TLC. *)
EXTENDS MlsSync, TLC

KeySymmetry == Permutations(Key) \cup Permutations(Runs)
=============================================================================
