----------------------------- MODULE MCEmulator -----------------------------
(* Instances of Emulator: input and a GDB client where they matter most.    *)
EXTENDS Emulator

Inputs  == [m \in Modes |-> IF m = "spin" THEN 1 ELSE 2]
Packets == [m \in Modes |-> IF m = "sound" THEN 0 ELSE 2]
=============================================================================
