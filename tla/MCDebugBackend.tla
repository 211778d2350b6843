--------------------------- MODULE MCDebugBackend ---------------------------
(* Small instances of DebugBackend for TLC. *)
EXTENDS DebugBackend, TLC

CommandSymmetry == Permutations(Commands)
Symmetry == Permutations(Commands) \cup Permutations(Clients)
=============================================================================
