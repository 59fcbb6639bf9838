-------------------------------- MODULE Fifo --------------------------------
(***************************************************************************)
(* What a ct_fifo promises the units that instantiate it: a bounded queue, *)
(* written at its back and read at its front, in one clock cycle or in two.*)
(***************************************************************************)
EXTENDS Naturals, Sequences

CONSTANTS Data, DEPTH

VARIABLE q     \* the queued words, the oldest first

Init == q = <<>>

Create(d) == Len(q) < DEPTH /\ q' = Append(q, d)

Pop == q # <<>> /\ q' = Tail(q)

\* Both in one cycle: the word created is never the word popped.
CreatePop(d) == q # <<>> /\ Len(q) < DEPTH /\ q' = Append(Tail(q), d)

Next == Pop \/ \E d \in Data : Create(d) \/ CreatePop(d)

Spec == Init /\ [][Next]_q

=============================================================================
