---------------------------- MODULE MCPrioMatrix ----------------------------
(***************************************************************************)
(* The matrix arbiter with four requesters: enough for a waiter to be      *)
(* overtaken by several others whose order changes meanwhile.              *)
(***************************************************************************)
EXTENDS PrioMatrix
=============================================================================
