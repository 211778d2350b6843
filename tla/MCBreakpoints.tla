--------------------------- MODULE MCBreakpoints ----------------------------
(* A program of three instructions: a branch at 0 that falls to 1 or jumps   *)
(* to 2, a step from 1 to 2, and a jump back at 2 to 0 or to itself.         *)
EXTENDS Breakpoints

MCAddrs == 0..2
MCSucc == [a \in MCAddrs |-> CASE a = 0 -> {1, 2} [] a = 1 -> {2} [] a = 2 -> {0, 2}]
MCFall == [a \in MCAddrs |-> (a + 1) % 3]
=============================================================================
