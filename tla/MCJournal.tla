----------------------------- MODULE MCJournal -----------------------------
(* Small instances of Journal.                                             *)
EXTENDS Journal

CONSTANTS p1, p2, p3

(* The first entry is shorter, as it has no previous digest.               *)
MCSizes == <<{2, 3}, {3, 5}, {3, 5}>>
MCLeast == [i \in 0..3 |-> CASE i = 0 -> 0 [] i = 1 -> 2 [] i = 2 -> 5 [] i = 3 -> 8]
=============================================================================
