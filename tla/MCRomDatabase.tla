--------------------------- MODULE MCRomDatabase ----------------------------
(* Instances of RomDatabase: two ROMs, of which one has a map.              *)
EXTENDS RomDatabase

CONSTANTS a1, a2, n1, n2, r1, r2

\* A comment with a line break becomes one without.
ThreeNotes == {"", "line", "broken"}
OneLine(c) == IF c = "broken" THEN "line" ELSE c

One(a, n, c) == [x \in Addrs |-> IF x = a THEN [name |-> n, note |-> c] ELSE NoObject]
MapOfFirst == [r \in Roms |-> IF r = r1 THEN One(a1, n1, "line") ELSE NoMap]
FilesBefore == {Absent, Corrupt, One(a1, n2, "broken")}
=============================================================================
