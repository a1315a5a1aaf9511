--------------------------- MODULE MCAuthRecovery ---------------------------
(* Instances of AuthRecovery. *)
EXTENDS AuthRecovery, TLC

RequestSymmetry == Permutations(Requests)
=============================================================================
