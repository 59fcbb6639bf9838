------------------------- MODULE PrioMatrix_proofs -------------------------
(***************************************************************************)
(* Proofs about PrioMatrix for any number of requesters.                   *)
(***************************************************************************)
EXTENDS PrioMatrix, OrderFacts, TLAPS

\* The inductive invariant.  Who was selected while i waits is behind i, and
\* nobody has been selected yet since a requester that does not wait.
Inv ==
  /\ TypeOK /\ StrictOrder
  /\ PassedOnceBehind
  /\ \A i \in Req \ valid : passed[i] = {}

\* In a strict order at most one requester with its line up is beaten by none.
LEMMA SelectedAlone ==
  ASSUME TypeOK, StrictOrder
  PROVE  OneHot
BY DEF TypeOK, StrictOrder, OneHot, Sel

LEMMA InitInv == Init => Inv
<1> SUFFICES ASSUME Init
             PROVE  Inv
  OBVIOUS
<1>1. Req \subseteq Nat
  BY NUMAssumption DEF Req
<1>2. TypeOK /\ StrictOrder
  BY <1>1 DEF Init, TypeOK, StrictOrder
<1> QED
  BY <1>2 DEF Init, Inv, PassedOnceBehind

LEMMA RotateInv ==
  ASSUME Inv, Rotate, valid' = valid \ Sel \/ valid' = valid
  PROVE  Inv'
<1>1. PICK w \in valid : Sel = {w}
  BY SelectedAlone DEF Inv, Rotate, OneHot, Sel
<1>2. /\ w \in Req /\ valid \subseteq Req
      /\ prio' = [i \in Req |-> IF i = w THEN Req \ {w} ELSE prio[i] \ {w}]
      /\ passed' = [i \in Req |-> IF i \in valid \ {w} THEN passed[i] \cup {w} ELSE {}]
  BY <1>1 DEF Inv, TypeOK, Rotate, NextRow
<1>3. TypeOK'
  BY <1>1, <1>2 DEF Inv, TypeOK
<1>4. StrictOrder'
  BY <1>2 DEF Inv, TypeOK, StrictOrder
<1>5. PassedOnceBehind'
  BY <1>1, <1>2 DEF Inv, PassedOnceBehind
<1>6. \A i \in Req \ valid' : passed'[i] = {}
  BY <1>1, <1>2
<1> QED
  BY <1>3, <1>4, <1>5, <1>6 DEF Inv

LEMMA StepInv == Inv /\ [Next]_vars => Inv'
<1> SUFFICES ASSUME Inv, [Next]_vars
             PROVE  Inv'
  OBVIOUS
<1>1. CASE \E i \in Req : Request(i)
  BY <1>1 DEF Inv, Request, TypeOK, StrictOrder, PassedOnceBehind
<1>2. CASE Grant
  BY <1>2, RotateInv DEF Grant
<1>3. CASE RotateBlocked
  BY <1>3, RotateInv DEF RotateBlocked
<1>4. CASE UNCHANGED vars
  BY <1>4 DEF vars, Inv, TypeOK, StrictOrder, PassedOnceBehind
<1> QED
  BY <1>1, <1>2, <1>3, <1>4 DEF Next

\* The matrix of ct_prio is a strict total order at all times, and who was
\* selected stays behind those who wait since.
THEOREM Invariance == Spec => []Inv
BY InitInv, StepInv, PTL DEF Spec

\* The matrix and the request lines keep their types.
THEOREM TypeCorrect == Spec => []TypeOK
<1>1. Inv => TypeOK
  BY DEF Inv
<1> QED
  BY <1>1, Invariance, PTL

\* The rows of the matrix of any number of requesters stay a strict total order.
THEOREM AlwaysStrictOrder == Spec => []StrictOrder
<1>1. Inv => StrictOrder
  BY DEF Inv
<1> QED
  BY <1>1, Invariance, PTL

\* The grant vector of any number of requesters is one-hot.
THEOREM AlwaysOneHot == Spec => []OneHot
<1>1. Inv => OneHot
  BY SelectedAlone DEF Inv
<1> QED
  BY <1>1, Invariance, PTL

\* Somebody is selected whenever anybody asks: the order has a first.
THEOREM AlwaysSelected == Spec => []SomebodySelected
<1>1. Inv => SomebodySelected
  <2> SUFFICES ASSUME Inv, valid # {}
               PROVE  Sel # {}
    BY DEF SomebodySelected
  <2>1. IsFiniteSet(Req)
    <3>1. 0 \in Int /\ NUM - 1 \in Int
      BY NUMAssumption
    <3> QED
      BY <3>1, FS_Interval, Zenon DEF Req
  <2>2. \E i \in valid : prio[i] \cap valid = {}
    <3>1. /\ prio \in [Req -> SUBSET Req] /\ valid \subseteq Req
          /\ \A i \in Req : i \notin prio[i]
          /\ \A i, j, k \in Req : i \in prio[j] /\ j \in prio[k] => i \in prio[k]
      BY DEF Inv, TypeOK, StrictOrder
    <3> QED
      BY <2>1, <3>1, FirstElement
  <2> QED
    BY <2>2 DEF Sel
<1> QED
  BY <1>1, Invariance, PTL

\* A waiter is overtaken at most once by each other requester, whoever asks
\* when, and even if the winners are not served.
THEOREM BoundedBypass == Spec => NoDoubleBypass
<1>1. Inv /\ Rotate => \A i \in valid \ Sel : Sel \cap passed[i] = {}
  <2> SUFFICES ASSUME Inv, Rotate, NEW i \in valid \ Sel, NEW w \in Sel \cap passed[i]
               PROVE  FALSE
    OBVIOUS
  <2>1. i \in Req /\ w \in valid /\ w \in Req /\ i # w /\ valid \cap prio[w] = {}
    BY DEF Inv, TypeOK, Sel
  <2>2. w \notin prio[i]
    BY DEF Inv, PassedOnceBehind
  <2>3. i \in prio[w]
    BY <2>1, <2>2 DEF Inv, StrictOrder
  <2> QED
    BY <2>1, <2>3
<1>2. Inv /\ [Next]_vars =>
        [Rotate => \A i \in valid \ Sel : Sel \cap passed[i] = {}]_vars
  BY <1>1
<1> QED
  BY <1>2, Invariance, PTL DEF Spec, NoDoubleBypass
=============================================================================
