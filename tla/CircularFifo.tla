---------------------------- MODULE CircularFifo ----------------------------
(***************************************************************************)
(* ct_fifo, the synchronous queue between every two units of the coherence *)
(* unit: DEPTH slots with a valid bit each, a one-hot write pointer that   *)
(* rotates and a read pointer that counts and wraps.  The circuit keeps no *)
(* count: full and empty are read off the valid bits alone.                *)
(*                                                                         *)
(* The circuit has no guard of its own.  Its clients raise fifo_create_en  *)
(* only when fifo_full is down, and fifo_pop_en only when a word is valid; *)
(* both guards read the registered valid bits, so a full queue cannot be   *)
(* written in the cycle that pops it.                                      *)
(*                                                                         *)
(* A definition with a double underscore in its name is a faulty variant of *)
(* the definition after it: a mistake that a property has to notice.       *)
(***************************************************************************)
EXTENDS Naturals, Sequences

CONSTANTS
  Data,      \* the words that are queued
  DEPTH,     \* number of slots
  NoData     \* what a slot holds after reset

ASSUME DEPTHAssumption == DEPTH \in Nat \ {0}
ASSUME NoDataAssumption == NoData \notin Data

VARIABLES
  fifo_entry_vld,    \* fifo_entry_vld[i]: slot i holds a word
  fifo_entry_cont,   \* fifo_entry_cont[i]: the word in slot i
  fifo_create_ptr,   \* position of the one in the one-hot write pointer
  fifo_pop_ptr       \* the read pointer

vars == <<fifo_entry_vld, fifo_entry_cont, fifo_create_ptr, fifo_pop_ptr>>

Slot == 0 .. DEPTH - 1

Init ==
  /\ fifo_entry_vld = [i \in Slot |-> FALSE]
  /\ fifo_entry_cont = [i \in Slot |-> NoData]
  /\ fifo_create_ptr = 0
  /\ fifo_pop_ptr = 0

fifo_full__ignored == FALSE
fifo_full == \A i \in Slot : fifo_entry_vld[i]
fifo_not_empty == \E i \in Slot : fifo_entry_vld[i]
fifo_pop_data == fifo_entry_cont[fifo_pop_ptr]

\* Both pointers step through the slots and wrap after the last.
Succ(p) == IF p = DEPTH - 1 THEN 0 ELSE p + 1

\* The slot's content after the clock edge.
NextCont__next_slot(i, create, d) ==
  IF create /\ i = Succ(fifo_create_ptr) THEN d ELSE fifo_entry_cont[i]
NextCont(i, create, d) ==
  IF create /\ i = fifo_create_ptr THEN d ELSE fifo_entry_cont[i]

\* One clock edge.  A slot that is created and popped at once stays valid.
Clock(create, pop, d) ==
  /\ fifo_entry_vld' =
       [i \in Slot |-> \/ create /\ i = fifo_create_ptr
                       \/ fifo_entry_vld[i] /\ ~(pop /\ i = fifo_pop_ptr)]
  /\ fifo_entry_cont' = [i \in Slot |-> NextCont(i, create, d)]
  /\ fifo_create_ptr' = IF create THEN Succ(fifo_create_ptr) ELSE fifo_create_ptr
  /\ fifo_pop_ptr' = IF pop THEN Succ(fifo_pop_ptr) ELSE fifo_pop_ptr

Create(d) == ~fifo_full /\ Clock(TRUE, FALSE, d)

Pop == fifo_not_empty /\ Clock(FALSE, TRUE, NoData)

CreatePop(d) == ~fifo_full /\ fifo_not_empty /\ Clock(TRUE, TRUE, d)

Next == Pop \/ \E d \in Data : Create(d) \/ CreatePop(d)

Spec == Init /\ [][Next]_vars

-----------------------------------------------------------------------------

TypeOK ==
  /\ fifo_entry_vld \in [Slot -> BOOLEAN]
  /\ fifo_entry_cont \in [Slot -> Data \cup {NoData}]
  /\ fifo_create_ptr \in Slot
  /\ fifo_pop_ptr \in Slot

\* Slot i lies in the window of n slots that starts at the read pointer.
InWindow(i, n) == \/ fifo_pop_ptr <= i /\ i < fifo_pop_ptr + n
                  \/ i + DEPTH < fifo_pop_ptr + n

\* The slot n places behind the read pointer.
At(n) == IF fifo_pop_ptr + n < DEPTH THEN fifo_pop_ptr + n
                                     ELSE fifo_pop_ptr + n - DEPTH

\* n words are queued: the valid slots are exactly the window between the
\* two pointers, although nothing in the circuit compares the two.
Holds(n) == /\ fifo_create_ptr = At(n)
            /\ \A i \in Slot : fifo_entry_vld[i] <=> InWindow(i, n)

\* Valid slots stay contiguous from the read pointer to the write pointer.
Contiguous == \E n \in 0 .. DEPTH : Holds(n)

\* The slot the read pointer shows is valid whenever any slot is: the word a
\* client pops is a word that was created and not popped before.
PopSlotValid == fifo_not_empty => fifo_entry_vld[fifo_pop_ptr] /\ fifo_pop_data # NoData

-----------------------------------------------------------------------------
(***************************************************************************)
(* The queue the circuit implements.                                       *)
(***************************************************************************)

Count == CHOOSE n \in 0 .. DEPTH : Holds(n)

Contents == [k \in 1 .. Count |-> fifo_entry_cont[At(k - 1)]]

AbstractFifo == INSTANCE Fifo WITH q <- Contents

\* Words leave in the order they entered; none is lost, repeated or made up.
ImplementsFifo == AbstractFifo!Spec

=============================================================================
