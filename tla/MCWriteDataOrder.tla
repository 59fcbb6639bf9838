-------------------------- MODULE MCWriteDataOrder --------------------------
(* Instances of WriteDataOrder for TLC: the names of the cores and banks. *)
EXTENDS WriteDataOrder, TLC

CONSTANTS c1, c2, b0, b1

\* Cores are interchangeable, and so are banks.  No run with a liveness property
\* uses the symmetry.
Perms == Permutations(CORE) \cup Permutations(BANK)
=============================================================================
