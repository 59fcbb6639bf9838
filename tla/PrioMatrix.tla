------------------------------ MODULE PrioMatrix ------------------------------
(***************************************************************************)
(* The least-recently-selected arbiter ct_prio, which every shared channel *)
(* of the coherence unit is arbitrated by: the AR, AW and CD requests of a *)
(* snoop buffer bank, the snoops (AC), read (R) and write (B) responses of *)
(* a PIU.                                                                  *)
(*                                                                         *)
(* Row prio[i] of the matrix is the set of requesters that beat i.  The    *)
(* request lines are an input of the circuit; they are a variable here     *)
(* because every client holds its line until it is granted.  A client may  *)
(* use the arbiter in either of two ways: clr is the grant (AR, R), or clr *)
(* is raised in every cycle with a request although the grant also needs   *)
(* room downstream (AW), so that the matrix turns under a blocked winner.  *)
(*                                                                         *)
(* A definition with a double underscore in its name is a faulty variant of *)
(* the definition after it: a mistake that a property has to notice.       *)
(***************************************************************************)
EXTENDS Naturals, FiniteSets

CONSTANT NUM             \* number of requesters (the module's parameter NUM)

ASSUME NUMAssumption == NUM \in Nat \ {0}

VARIABLES
  prio,    \* prio[i]: the requesters that have priority over i
  valid,   \* the requesters whose line is up
  passed   \* history: passed[i] is who was selected since i is waiting

vars == <<prio, valid, passed>>

Req == 0 .. NUM - 1

Init ==
  /\ prio = [i \in Req |-> {j \in Req : j < i}]
  /\ valid = {}
  /\ passed = [i \in Req |-> {}]

\* sel: the requesters that no other requester with its line up beats.
Sel == {i \in valid : valid \cap prio[i] = {}}

\* A new request; the line stays up until the requester is granted.
Request(i) ==
  /\ i \notin valid
  /\ valid' = valid \cup {i}
  /\ UNCHANGED <<prio, passed>>

\* A clock edge with clr up: a lone winner falls behind all the others, and
\* no winner beats anyone any more.
NextRow__not_behind(i) == prio[i] \ Sel
NextRow__fixed(i) == prio[i]
NextRow(i) == IF Sel = {i} THEN Req \ Sel ELSE prio[i] \ Sel

Rotate ==
  /\ Sel # {}
  /\ prio' = [i \in Req |-> NextRow(i)]
  /\ passed' = [i \in Req |-> IF i \in valid \ Sel THEN passed[i] \cup Sel
                                                   ELSE {}]

\* The winner is served and withdraws its request.
Grant == Rotate /\ valid' = valid \ Sel

\* The winner is not served (no room downstream), but clr is up.
RotateBlocked == Rotate /\ UNCHANGED valid

Next ==
  \/ \E i \in Req : Request(i)
  \/ Grant
  \/ RotateBlocked

\* clr is up in every cycle in which somebody is selected (AW, CD) or in
\* which the selected request is taken (AR, R).
Fairness == WF_vars(Grant \/ RotateBlocked)

Spec == Init /\ [][Next]_vars /\ Fairness

-----------------------------------------------------------------------------

TypeOK ==
  /\ prio \in [Req -> SUBSET Req]
  /\ valid \subseteq Req
  /\ passed \in [Req -> SUBSET Req]

\* The matrix is always a strict total order of the requesters, whatever
\* sequence of single-row updates the clock edges apply to it.
StrictOrder ==
  /\ \A i \in Req : i \notin prio[i]
  /\ \A i, j \in Req : i # j => (i \in prio[j] <=> j \notin prio[i])
  /\ \A i, j, k \in Req : i \in prio[j] /\ j \in prio[k] => i \in prio[k]

\* The grant vector sel is one-hot: the muxes behind the arbiter OR the
\* buses of all selected requesters together.
OneHot == \A i, j \in Sel : i = j

\* A request is always answered: if any line is up somebody is selected.
SomebodySelected == valid # {} => Sel # {}

\* Whoever was selected while i waits does not beat i until i is selected.
PassedOnceBehind == \A i \in valid : passed[i] \cap prio[i] = {}

\* No requester is selected twice while another one waits: a waiter is
\* overtaken at most NUM - 1 times.
NoDoubleBypass ==
  [][Rotate => \A i \in valid \ Sel : Sel \cap passed[i] = {}]_vars

\* Every request is eventually selected.
EventuallySelected == \A i \in Req : i \in valid ~> i \in Sel

=============================================================================
