---------------------------- MODULE MCAccessLog -----------------------------
(* Small instances of AccessLog for TLC. *)
EXTENDS AccessLog, TLC

BlockSymmetry == Permutations(Blocks)
=============================================================================
