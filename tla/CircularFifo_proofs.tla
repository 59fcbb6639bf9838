------------------------ MODULE CircularFifo_proofs ------------------------
(***************************************************************************)
(* Proofs about CircularFifo for any depth and any set of words: the valid *)
(* bits alone are enough to make a queue of the slots.                     *)
(***************************************************************************)
EXTENDS CircularFifo, SequenceTheorems, TLAPS

\* The words between the pointers are words that were created.
WordsQueued == \A i \in Slot : fifo_entry_vld[i] => fifo_entry_cont[i] \in Data

Inv == TypeOK /\ Contiguous /\ WordsQueued

-----------------------------------------------------------------------------
(***************************************************************************)
(* The window.                                                             *)
(***************************************************************************)

LEMMA SlotFacts ==
  /\ DEPTH \in Nat /\ DEPTH > 0
  /\ \A i : i \in Slot <=> i \in Nat /\ i < DEPTH
BY DEPTHAssumption DEF Slot

\* The slots of a window and those that are not yet in it.
LEMMA AtSlot ==
  ASSUME TypeOK, NEW n \in 0 .. DEPTH
  PROVE  /\ At(n) \in Slot
         /\ \A k \in 0 .. DEPTH : InWindow(At(n), k) <=> n < k \/ (n = DEPTH /\ 0 < k)
BY SlotFacts DEF TypeOK, At, InWindow

\* The queue is full, or empty, when the window says so.
LEMMA FullEmpty ==
  ASSUME TypeOK, NEW n \in 0 .. DEPTH, Holds(n)
  PROVE  /\ fifo_full <=> n = DEPTH
         /\ fifo_not_empty <=> n > 0
         /\ n > 0 => fifo_entry_vld[fifo_pop_ptr]
<1>1. fifo_pop_ptr \in Slot /\ (InWindow(fifo_pop_ptr, n) <=> n > 0)
  BY SlotFacts DEF TypeOK, InWindow
<1>2. n > 0 => fifo_entry_vld[fifo_pop_ptr]
  BY <1>1 DEF Holds
<1>3. n = DEPTH => \A i \in Slot : InWindow(i, n)
  BY SlotFacts DEF TypeOK, InWindow
<1>4. n < DEPTH => At(n) \in Slot /\ ~InWindow(At(n), n)
  BY AtSlot, SlotFacts
<1>5. n = 0 => \A i \in Slot : ~InWindow(i, n)
  BY SlotFacts DEF TypeOK, InWindow
<1> QED
  BY <1>1, <1>2, <1>3, <1>4, <1>5, SlotFacts DEF Holds, fifo_full, fifo_not_empty

\* There is only one window.
LEMMA HoldsUnique ==
  ASSUME TypeOK, NEW n \in 0 .. DEPTH, Holds(n), NEW m \in 0 .. DEPTH, Holds(m)
  PROVE  n = m
<1>1. At(n) = At(m)
  BY DEF Holds
<1>2. n = m \/ (n = 0 /\ m = DEPTH) \/ (n = DEPTH /\ m = 0)
  BY <1>1, SlotFacts DEF TypeOK, At
<1> QED
  BY <1>2, FullEmpty, SlotFacts

-----------------------------------------------------------------------------
(***************************************************************************)
(* A clock edge moves the window.                                          *)
(***************************************************************************)

LEMMA ClockStep ==
  ASSUME Inv, NEW n \in 0 .. DEPTH, Holds(n),
         NEW create \in BOOLEAN, NEW pop \in BOOLEAN, NEW d \in Data \cup {NoData},
         Clock(create, pop, d), create => n < DEPTH /\ d \in Data, pop => n > 0
  PROVE  /\ Inv'
         /\ Holds((n + (IF create THEN 1 ELSE 0)) - (IF pop THEN 1 ELSE 0))'
         /\ fifo_create_ptr = At(n)
<1> DEFINE m == (n + (IF create THEN 1 ELSE 0)) - (IF pop THEN 1 ELSE 0)
<1>1. m \in 0 .. DEPTH
  BY SlotFacts
<1>2. TypeOK'
  BY SlotFacts DEF Inv, TypeOK, Clock, NextCont, Succ
<1>3. fifo_create_ptr' = At(m)'
  BY SlotFacts DEF Inv, TypeOK, Clock, Succ, Holds, At
<1>4. fifo_entry_vld' =
        [i \in Slot |-> \/ create /\ i = fifo_create_ptr
                        \/ fifo_entry_vld[i] /\ ~(pop /\ i = fifo_pop_ptr)]
  BY Zenon DEF Clock
<1>5. ASSUME NEW i \in Slot
      PROVE  fifo_entry_vld'[i] <=> InWindow(i, m)'
  <2>1. fifo_entry_vld'[i] <=> \/ create /\ i = fifo_create_ptr
                               \/ fifo_entry_vld[i] /\ ~(pop /\ i = fifo_pop_ptr)
    BY <1>4
  <2>2. fifo_entry_vld'[i] <=> \/ create /\ i = At(n)
                               \/ InWindow(i, n) /\ ~(pop /\ i = fifo_pop_ptr)
    <3>1. fifo_create_ptr = At(n) /\ (fifo_entry_vld[i] <=> InWindow(i, n))
      BY DEF Holds
    <3> QED
      BY <2>1, <3>1
  <2>3. fifo_pop_ptr' = IF pop THEN Succ(fifo_pop_ptr) ELSE fifo_pop_ptr
    BY DEF Clock
  <2> QED
    BY <2>2, <2>3, SlotFacts DEF Inv, TypeOK, At, InWindow, Succ
<1>6. Holds(m)'
  BY <1>3, <1>5 DEF Holds
<1>7. Contiguous'
  BY <1>1, <1>6 DEF Contiguous
<1>8. WordsQueued'
  BY DEF Inv, TypeOK, WordsQueued, Clock, NextCont
<1> QED
  BY <1>2, <1>6, <1>7, <1>8 DEF Inv, Holds
LEMMA InitInv == Init => Inv /\ Holds(0)
<1> SUFFICES ASSUME Init
             PROVE  Inv /\ Holds(0)
  OBVIOUS
<1>1. TypeOK /\ Holds(0)
  BY SlotFacts DEF Init, TypeOK, Holds, At, InWindow
<1>2. WordsQueued
  BY DEF Init, WordsQueued
<1> QED
  BY <1>1, <1>2, SlotFacts DEF Inv, Contiguous

\* What the steps do to a window of n slots.
LEMMA StepWindow ==
  ASSUME Inv, NEW n \in 0 .. DEPTH, Holds(n)
  PROVE  /\ \A d \in Data : Create(d) => n < DEPTH /\ Inv' /\ Holds(n + 1)'
         /\ Pop => n > 0 /\ Inv' /\ Holds(n - 1)'
         /\ \A d \in Data : CreatePop(d) => n > 0 /\ n < DEPTH /\ Inv' /\ Holds(n)'
<1>1. TypeOK /\ (fifo_full <=> n = DEPTH) /\ (fifo_not_empty <=> n > 0) /\ n <= DEPTH
  BY FullEmpty, SlotFacts DEF Inv
<1>2. ASSUME NEW d \in Data, Create(d)
      PROVE  n < DEPTH /\ Inv' /\ Holds(n + 1)'
  <2>1. Clock(TRUE, FALSE, d) /\ ~fifo_full
    BY <1>2, Zenon DEF Create
  <2>2. n < DEPTH
    BY <1>1, <2>1, SlotFacts
  <2>3. Inv' /\ Holds((n + 1) - 0)'
    BY <2>1, <2>2, ClockStep
  <2>4. (n + 1) - 0 = n + 1
    BY SlotFacts
  <2> QED
    BY <2>2, <2>3, <2>4
<1>3. ASSUME Pop
      PROVE  n > 0 /\ Inv' /\ Holds(n - 1)'
  <2>1. n > 0 /\ Clock(FALSE, TRUE, NoData)
    BY <1>1, <1>3 DEF Pop
  <2>2. Inv' /\ Holds((n + 0) - 1)'
    BY <2>1, ClockStep
  <2>3. (n + 0) - 1 = n - 1
    BY SlotFacts
  <2> QED
    BY <2>1, <2>2, <2>3
<1>4. ASSUME NEW d \in Data, CreatePop(d)
      PROVE  n > 0 /\ n < DEPTH /\ Inv' /\ Holds(n)'
  <2>1. Clock(TRUE, TRUE, d) /\ ~fifo_full /\ fifo_not_empty
    BY <1>4, Zenon DEF CreatePop
  <2>2. n > 0 /\ n < DEPTH
    BY <1>1, <2>1, SlotFacts
  <2>3. Inv' /\ Holds((n + 1) - 1)'
    BY <2>1, <2>2, ClockStep
  <2>4. (n + 1) - 1 = n
    BY SlotFacts
  <2> QED
    BY <2>2, <2>3, <2>4
<1> QED
  BY <1>2, <1>3, <1>4

LEMMA StepInv == Inv /\ [Next]_vars => Inv'
<1> SUFFICES ASSUME Inv, [Next]_vars
             PROVE  Inv'
  OBVIOUS
<1>1. CASE Next
  <2>1. PICK n \in 0 .. DEPTH : Holds(n)
    BY DEF Inv, Contiguous
  <2> QED
    BY <1>1, <2>1, StepWindow DEF Next
<1>2. CASE UNCHANGED vars
  BY <1>2 DEF vars, Inv, TypeOK, Contiguous, Holds, At, InWindow, WordsQueued
<1> QED
  BY <1>1, <1>2

\* The window is there at all times: the valid slots of ct_fifo are those
\* from the pop pointer up to the create pointer.
THEOREM Invariance == Spec => []Inv
BY InitInv, StepInv, PTL DEF Spec

\* The slots, the pointers and the valid bits keep their types.
THEOREM TypeCorrect == Spec => []TypeOK
<1>1. Inv => TypeOK
  BY DEF Inv
<1> QED
  BY <1>1, Invariance, PTL

\* Valid slots lie between the pointers, at any depth.
THEOREM AlwaysContiguous == Spec => []Contiguous
<1>1. Inv => Contiguous
  BY DEF Inv
<1> QED
  BY <1>1, Invariance, PTL

\* The word shown at the read pointer is a word that was created.
THEOREM AlwaysPopSlotValid == Spec => []PopSlotValid
<1>1. Inv => PopSlotValid
  <2> SUFFICES ASSUME Inv, fifo_not_empty
               PROVE  fifo_entry_vld[fifo_pop_ptr] /\ fifo_pop_data # NoData
    BY DEF PopSlotValid
  <2>1. PICK n \in 0 .. DEPTH : Holds(n)
    BY DEF Inv, Contiguous
  <2>2. fifo_entry_vld[fifo_pop_ptr]
    BY <2>1, FullEmpty DEF Inv
  <2> QED
    BY <2>2, NoDataAssumption DEF Inv, TypeOK, WordsQueued, fifo_pop_data
<1> QED
  BY <1>1, Invariance, PTL

-----------------------------------------------------------------------------
(***************************************************************************)
(* The circuit implements the queue.                                       *)
(***************************************************************************)

\* The words in the window of n slots, in the order they are read.
Words(n) == [k \in 1 .. n |-> fifo_entry_cont[At(k - 1)]]

LEMMA ContentsWords ==
  \A n \in 0 .. DEPTH : Inv /\ Holds(n) => Contents = Words(n)
<1> SUFFICES ASSUME NEW n \in 0 .. DEPTH, Inv, Holds(n)
             PROVE  Contents = Words(n)
  OBVIOUS
<1>1. Count \in 0 .. DEPTH /\ Holds(Count)
  BY DEF Count
<1>2. Count = n
  BY <1>1, HoldsUnique DEF Inv
<1> QED
  BY <1>2 DEF Contents, Words

LEMMA ContentsWordsNext ==
  (\A n \in 0 .. DEPTH : Inv /\ Holds(n) => Contents = Words(n))'
BY ContentsWords, PTL

LEMMA WordsSeq ==
  ASSUME Inv, NEW n \in 0 .. DEPTH, Holds(n)
  PROVE  /\ Words(n) \in Seq(Data) /\ Len(Words(n)) = n
         /\ \A k \in 1 .. n : At(k - 1) \in Slot
         /\ \A k \in 1 .. n + 1, j \in 1 .. n + 1 :
              n < DEPTH /\ k # j => At(k - 1) # At(j - 1)
<1>1. \A k \in 1 .. n : k - 1 \in 0 .. DEPTH /\ k - 1 < n
  BY SlotFacts
<1>2. \A k \in 1 .. n : At(k - 1) \in Slot /\ InWindow(At(k - 1), n)
  BY <1>1, AtSlot, SlotFacts DEF Inv
<1>3. \A k \in 1 .. n : fifo_entry_cont[At(k - 1)] \in Data
  BY <1>2 DEF Inv, WordsQueued, Holds
<1>4. Words(n) \in Seq(Data) /\ Len(Words(n)) = n
  BY <1>3, SlotFacts DEF Words
<1>5. ASSUME n < DEPTH, NEW k \in 1 .. n + 1, NEW j \in 1 .. n + 1, k # j
      PROVE  At(k - 1) # At(j - 1)
  BY <1>5, SlotFacts DEF Inv, TypeOK, At
<1> QED
  BY <1>2, <1>4, <1>5

\* A queue without its first word is the queue shifted by one.
LEMMA TailShift ==
  ASSUME NEW s \in Seq(Data), Len(s) > 0,
         NEW t, t = [k \in 1 .. Len(s) - 1 |-> s[k + 1]]
  PROVE  t = Tail(s) /\ t \in Seq(Data) /\ Len(t) = Len(s) - 1
<1>1. Len(s) \in Nat /\ s # <<>> /\ \A k \in 1 .. Len(s) : s[k] \in Data
  BY LenProperties
<1>2. \A k \in 1 .. Len(s) - 1 : k + 1 \in 1 .. Len(s)
  BY <1>1
<1>3. t \in Seq(Data) /\ Len(t) = Len(s) - 1
  BY <1>1, <1>2
<1>4. Tail(s) \in Seq(Data) /\ Len(Tail(s)) = Len(s) - 1
  BY <1>1, HeadTailProperties
<1>5. \A k \in 1 .. Len(t) : Tail(s)[k] = t[k]
  BY <1>1, <1>3, HeadTailProperties
<1> QED
  BY <1>3, <1>4, <1>5, SeqEqual

LEMMA AppendLast ==
  ASSUME NEW s \in Seq(Data), NEW d \in Data,
         NEW t, t = [k \in 1 .. Len(s) + 1 |-> IF k = Len(s) + 1 THEN d ELSE s[k]]
  PROVE  t = Append(s, d)
<1>1. Len(s) \in Nat /\ \A k \in 1 .. Len(s) : s[k] \in Data
  BY LenProperties
<1>2. \A k \in 1 .. Len(s) + 1 : k = Len(s) + 1 \/ k \in 1 .. Len(s)
  BY <1>1
<1>3. t \in Seq(Data) /\ Len(t) = Len(s) + 1
  BY <1>1, <1>2
<1>4. Append(s, d) \in Seq(Data) /\ Len(Append(s, d)) = Len(s) + 1
  BY AppendProperties
<1>5. \A k \in 1 .. Len(t) : t[k] = Append(s, d)[k]
  BY <1>2, <1>3, AppendProperties
<1> QED
  BY <1>3, <1>4, <1>5, SeqEqual

LEMMA RefineCreate ==
  ASSUME Inv, NEW d \in Data, Create(d)
  PROVE  AbstractFifo!Create(d)
<1>1. PICK n \in 0 .. DEPTH : Holds(n)
  BY DEF Inv, Contiguous
<1>2. n < DEPTH /\ Inv' /\ Holds(n + 1)' /\ n + 1 \in 0 .. DEPTH
  BY <1>1, StepWindow, SlotFacts
<1>3. Contents = Words(n) /\ Contents' = Words(n + 1)'
  BY <1>1, <1>2, ContentsWords, ContentsWordsNext
<1>4. Clock(TRUE, FALSE, d)
  BY Zenon DEF Create
<1>5. /\ fifo_pop_ptr' = fifo_pop_ptr
      /\ fifo_entry_cont' = [fifo_entry_cont EXCEPT ![At(n)] = d]
      /\ At(n) \in Slot
  BY <1>1, <1>4, AtSlot DEF Clock, NextCont, Inv, TypeOK, Holds
<1>6. Words(n + 1)' = Append(Words(n), d)
  <2>1. Words(n + 1)' = [k \in 1 .. n + 1 |-> fifo_entry_cont'[At(k - 1)]]
    BY <1>5 DEF Words, At
  <2>2. \A k \in 1 .. n : fifo_entry_cont'[At(k - 1)] = fifo_entry_cont[At(k - 1)]
    <3>1. ASSUME NEW k \in 1 .. n
          PROVE  At(k - 1) # At(n) /\ At(k - 1) \in Slot
      <4>1. k \in 1 .. n + 1 /\ n + 1 \in 1 .. n + 1 /\ k # n + 1 /\ (n + 1) - 1 = n
        BY SlotFacts
      <4> QED
        BY <1>1, <1>2, <4>1, WordsSeq
    <3> QED
      BY <1>5, <3>1 DEF Inv, TypeOK
  <2>3. fifo_entry_cont'[At((n + 1) - 1)] = d
    <3>1. (n + 1) - 1 = n
      BY SlotFacts
    <3> QED
      BY <1>5, <3>1 DEF Inv, TypeOK
  <2>4. Words(n) \in Seq(Data) /\ Len(Words(n)) = n
    BY <1>1, WordsSeq
  <2>5. \A k \in 1 .. n : Words(n)[k] = fifo_entry_cont[At(k - 1)]
    BY DEF Words
  <2> QED
    BY <2>1, <2>2, <2>3, <2>4, <2>5, SlotFacts
<1>7. Len(Contents) < DEPTH
  BY <1>1, <1>2, <1>3, WordsSeq
<1> QED
  BY <1>3, <1>6, <1>7 DEF AbstractFifo!Create

LEMMA RefinePop ==
  ASSUME Inv, Pop
  PROVE  AbstractFifo!Pop
<1>1. PICK n \in 0 .. DEPTH : Holds(n)
  BY DEF Inv, Contiguous
<1>2. n > 0 /\ Inv' /\ Holds(n - 1)' /\ n - 1 \in 0 .. DEPTH
  BY <1>1, StepWindow, SlotFacts
<1>3. Contents = Words(n) /\ Contents' = Words(n - 1)'
  BY <1>1, <1>2, ContentsWords, ContentsWordsNext
<1>4. fifo_pop_ptr' = Succ(fifo_pop_ptr) /\ fifo_entry_cont' = fifo_entry_cont
  <2>1. Clock(FALSE, TRUE, NoData)
    BY Zenon DEF Pop
  <2> QED
    BY <2>1 DEF Clock, NextCont, Inv, TypeOK
<1>5. Words(n) \in Seq(Data) /\ Len(Words(n)) = n
  BY <1>1, WordsSeq
<1>6. \A k \in 1 .. n - 1 : At(k - 1)' = At((k + 1) - 1)
  BY <1>4, SlotFacts DEF Inv, TypeOK, At, Succ
<1>7. Words(n - 1)' = Tail(Words(n))
  <2>1. \A k \in 1 .. n - 1 : Words(n)[k + 1] = fifo_entry_cont[At((k + 1) - 1)]
    BY SlotFacts DEF Words
  <2>2. Words(n - 1)' = [k \in 1 .. n - 1 |-> Words(n)[k + 1]]
    BY <1>4, <1>6, <2>1 DEF Words
  <2> QED
    BY <1>2, <1>5, <2>2, TailShift
<1>8. Contents # <<>>
  BY <1>2, <1>3, <1>5
<1> QED
  BY <1>3, <1>7, <1>8 DEF AbstractFifo!Pop

LEMMA RefineCreatePop ==
  ASSUME Inv, NEW d \in Data, CreatePop(d)
  PROVE  AbstractFifo!CreatePop(d)
<1>1. PICK n \in 0 .. DEPTH : Holds(n)
  BY DEF Inv, Contiguous
<1>2. n > 0 /\ n < DEPTH /\ Inv' /\ Holds(n)'
  BY <1>1, StepWindow
<1>3. Contents = Words(n) /\ Contents' = Words(n)'
  BY <1>1, <1>2, ContentsWords, ContentsWordsNext
<1>4. Clock(TRUE, TRUE, d)
  BY Zenon DEF CreatePop
<1>5. /\ fifo_pop_ptr' = Succ(fifo_pop_ptr)
      /\ fifo_entry_cont' = [fifo_entry_cont EXCEPT ![At(n)] = d]
      /\ At(n) \in Slot
  BY <1>1, <1>4, AtSlot DEF Clock, NextCont, Inv, TypeOK, Holds
<1>6. Words(n) \in Seq(Data) /\ Len(Words(n)) = n
  BY <1>1, WordsSeq
<1>7. \A k \in 1 .. n : At(k - 1)' = At(k)
  BY <1>2, <1>5, SlotFacts DEF Inv, TypeOK, At, Succ
<1>8. \A k \in 1 .. n - 1 : /\ fifo_entry_cont'[At(k)] = fifo_entry_cont[At(k)]
                            /\ Words(n)[k + 1] = fifo_entry_cont[At(k)]
  <2> TAKE k \in 1 .. n - 1
  <2>1. /\ k + 1 \in 1 .. n /\ k + 1 \in 1 .. n + 1 /\ n + 1 \in 1 .. n + 1
        /\ k + 1 # n + 1 /\ (k + 1) - 1 = k /\ (n + 1) - 1 = n
    BY SlotFacts
  <2>2. At(k) # At(n) /\ At(k) \in Slot
    BY <1>1, <1>2, <2>1, WordsSeq
  <2> QED
    BY <1>5, <2>1, <2>2 DEF Inv, TypeOK, Words
<1>9. fifo_entry_cont'[At(n)] = d
  BY <1>5 DEF Inv, TypeOK
<1> DEFINE t == [k \in 1 .. n - 1 |-> Words(n)[k + 1]]
<1>10. t = Tail(Words(n)) /\ t \in Seq(Data) /\ Len(t) = n - 1
  BY <1>2, <1>6, TailShift
<1>11. Words(n)' = Append(t, d)
  <2>1. Words(n)' = [k \in 1 .. n |-> fifo_entry_cont'[At(k)]]
    BY <1>7 DEF Words
  <2>2. \A k \in 1 .. n - 1 : fifo_entry_cont'[At(k)] = t[k]
    BY <1>8
  <2> HIDE DEF t
  <2>3. n \in Nat /\ Len(t) + 1 = n
    BY <1>10, SlotFacts
  <2>4. Words(n)' = [k \in 1 .. Len(t) + 1 |-> IF k = Len(t) + 1 THEN d ELSE t[k]]
    BY <1>9, <2>1, <2>2, <2>3
  <2> QED
    BY <1>10, <2>4, AppendLast
<1>12. Contents # <<>> /\ Len(Contents) < DEPTH
  BY <1>2, <1>3, <1>6
<1> QED
  BY <1>3, <1>10, <1>11, <1>12 DEF AbstractFifo!CreatePop

\* The circuit is a queue of DEPTH words: every step of the circuit is the
\* same step of the queue.
THEOREM Refinement == Spec => ImplementsFifo
<1>1. Init => AbstractFifo!Init
  <2> SUFFICES ASSUME Init
               PROVE  Contents = <<>>
    BY DEF AbstractFifo!Init
  <2>1. Contents = Words(0)
    BY InitInv, ContentsWords, SlotFacts
  <2> QED
    BY <2>1 DEF Words
<1>2. Inv /\ [Next]_vars => [AbstractFifo!Next]_Contents
  <2> SUFFICES ASSUME Inv, [Next]_vars
               PROVE  AbstractFifo!Next \/ UNCHANGED Contents
    OBVIOUS
  <2>1. CASE Next
    BY <2>1, RefineCreate, RefinePop, RefineCreatePop DEF Next, AbstractFifo!Next
  <2>2. CASE UNCHANGED vars
    BY <2>2 DEF vars, Contents, Count, Holds, At, InWindow
  <2> QED
    BY <2>1, <2>2
<1> QED
  BY <1>1, <1>2, Invariance, PTL DEF Spec, ImplementsFifo, AbstractFifo!Spec

=============================================================================
