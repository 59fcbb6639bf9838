--------------------------- MODULE MCCircularFifo ---------------------------
(***************************************************************************)
(* A queue of four slots and three words: both pointers wrap, at every     *)
(* distance from each other.  Four is the depth of the write data queue of *)
(* a PIU; the depths in use are 2, 4, 8 and 12, and nothing in the circuit *)
(* depends on a power of two.                                              *)
(***************************************************************************)
EXTENDS CircularFifo
=============================================================================
