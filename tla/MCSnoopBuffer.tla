--------------------------- MODULE MCSnoopBuffer ---------------------------
(* Instances of SnoopBuffer for TLC: the names of the cores and the lines. *)
EXTENDS SnoopBuffer, TLC

CONSTANTS c1, c2, a, b, d

\* Cores are interchangeable, and so are lines.  No run with a liveness property
\* uses the symmetry.
Perms == Permutations(CORE) \cup Permutations(LINE)
=============================================================================
