--------------------------- MODULE MCExternalBus ---------------------------
EXTENDS ExternalBus, TLC
CONSTANTS la, lb, b0, b1, na

(* Two lines of different indices, one in each bank.                       *)
Home == (la :> b0) @@ (lb :> b1)
Index == [a \in {la, lb, na} |-> a]
=============================================================================
