----------------------------- MODULE OrderFacts -----------------------------
(***************************************************************************)
(* Facts about orders that the proofs of several modules use: a priority   *)
(* encoder picks a least number, an age or priority matrix has a first.    *)
(***************************************************************************)
EXTENDS Naturals, FiniteSetTheorems, WellFoundedInduction, TLAPS

LessThan == {p \in Nat \X Nat : p[1] < p[2]}

\* The order of the natural numbers is well founded.
LEMMA LessThanWellFounded == IsWellFoundedOn(LessThan, Nat)
<1>1. LessThan = OpToRel(<, Nat)
  BY Zenon DEF OpToRel, LessThan
<1> QED
  BY <1>1, NatLessThanWellFounded, Zenon

\* A nonempty set of natural numbers has a least element: what the code's
\* priority encoders pick is there.
LEMMA LeastNat ==
  ASSUME NEW T, T \subseteq Nat, T # {}
  PROVE  \E n \in T : \A m \in T : n <= m
<1>1. \E n \in T : \A m \in T : ~(<<m, n>> \in LessThan)
  BY LessThanWellFounded, WFMin, Zenon
<1>2. PICK n \in T : \A m \in T : ~(<<m, n>> \in LessThan)
  BY <1>1
<1>3. \A x, y \in Nat : x < y => <<x, y>> \in LessThan
  BY DEF LessThan
<1>4. \A m \in T : n <= m
  <2> TAKE m \in T
  <2>1. n \in Nat /\ m \in Nat /\ ~(m < n)
    BY <1>2, <1>3
  <2> QED
    BY <2>1
<1> QED
  BY <1>4

\* In a strict order of a finite set, given as the set of those before each
\* element, every nonempty subset has an element with none of it before.
LEMMA FirstElement ==
  ASSUME NEW U, IsFiniteSet(U), NEW before \in [U -> SUBSET U],
         \A u \in U : u \notin before[u],
         \A u, v, w \in U : u \in before[v] /\ v \in before[w] => u \in before[w],
         NEW S, S \subseteq U, S # {}
  PROVE  \E s \in S : before[s] \cap S = {}
<1> DEFINE rank(u) == Cardinality(before[u])
           Ranks == {rank(s) : s \in S}
<1>1. ASSUME NEW u \in U
      PROVE  IsFiniteSet(before[u]) /\ rank(u) \in Nat
  BY FS_Subset, FS_CardinalityType
<1>2. ASSUME NEW u \in U, NEW v \in before[u]
      PROVE  rank(v) < rank(u)
  <2>1. v \in U /\ before[v] \subseteq before[u] /\ v \notin before[v]
    OBVIOUS
  <2>2. before[v] # before[u]
    BY <2>1
  <2>3. rank(v) <= rank(u) /\ rank(v) # rank(u)
    BY <1>1, <2>1, <2>2, FS_Subset
  <2> QED
    BY <1>1, <2>1, <2>3
<1>3. Ranks \subseteq Nat /\ Ranks # {}
  BY <1>1
<1>4. PICK s \in S : \A t \in S : rank(s) <= rank(t)
  <2>1. PICK n \in Ranks : \A m \in Ranks : n <= m
    BY <1>3, LeastNat, Zenon
  <2>2. PICK s \in S : n = rank(s)
    BY <2>1
  <2> HIDE DEF rank
  <2> QED
    BY <2>1, <2>2
<1>5. \A t \in S : t \notin before[s]
  BY <1>1, <1>2, <1>4
<1> QED
  BY <1>4, <1>5

(***************************************************************************)
(* p numbers the elements of a set of indices in their order, from 1 to n: *)
(* how the entries of one kind in a queue that several sources share meet  *)
(* the entries of that source's own queue.                                 *)
(***************************************************************************)
Ranks(I, n, p) ==
  /\ p \in [I -> 1 .. n]
  /\ \A i, j \in I : i < j => p[i] < p[j]
  /\ \A k \in 1 .. n : \E i \in I : p[i] = k

\* An element with a greater index than the others comes last.
LEMMA RanksAppend ==
  ASSUME NEW I, I \subseteq Nat, NEW n \in Nat, NEW p, Ranks(I, n, p),
         NEW m \in Nat, \A i \in I : i < m,
         NEW q, q = [i \in I \cup {m} |-> IF i = m THEN n + 1 ELSE p[i]]
  PROVE  Ranks(I \cup {m}, n + 1, q)
<1> DEFINE J == I \cup {m}
<1>1. \A i \in I : i # m /\ p[i] \in 1 .. n /\ q[i] = p[i]
  BY DEF Ranks
<1>2. q \in [J -> 1 .. n + 1] /\ q[m] = n + 1
  BY <1>1
<1>3. \A i, j \in J : i < j => q[i] < q[j]
  BY <1>1, <1>2 DEF Ranks
<1>4. ASSUME NEW k \in 1 .. n + 1 PROVE \E i \in J : q[i] = k
  <2>1. CASE k = n + 1
    BY <1>2, <2>1
  <2>2. CASE k \in 1 .. n
    BY <1>1, <2>2 DEF Ranks
  <2> QED
    BY <2>1, <2>2
<1> QED
  BY <1>2, <1>3, <1>4 DEF Ranks

(***************************************************************************)
(* The indices of a sequence's elements after the g-th has left it.        *)
(***************************************************************************)
Cut(S, g) == {i \in Nat \ {0} : (i < g /\ i \in S) \/ (i >= g /\ i + 1 \in S)}

\* The first element has the first number.
LEMMA RanksFirst ==
  ASSUME NEW I, I \subseteq Nat \ {0}, 1 \in I, NEW n \in Nat, NEW p, Ranks(I, n, p)
  PROVE  p[1] = 1 /\ n > 0
<1>1. \A i \in I : p[i] \in 1 .. n
  BY DEF Ranks
<1>2. n > 0 /\ 1 \in 1 .. n
  BY <1>1
<1>3. p[1] = 1
  <2>1. PICK i \in I : p[i] = 1
    BY <1>2 DEF Ranks
  <2>2. i # 1 => p[1] < p[i]
    BY DEF Ranks
  <2> QED
    BY <1>1, <2>1, <2>2
<1> QED
  BY <1>2, <1>3

\* Without it the others move up.
LEMMA RanksTail ==
  ASSUME NEW I, I \subseteq Nat \ {0}, 1 \in I, NEW n \in Nat, NEW p, Ranks(I, n, p),
         NEW q, q = [i \in Cut(I, 1) |-> p[i + 1] - 1]
  PROVE  Ranks(Cut(I, 1), n - 1, q)
<1> DEFINE J == Cut(I, 1)
<1>1. \A i \in I : p[i] \in 1 .. n
  BY DEF Ranks
<1>3. p[1] = 1
  BY RanksFirst
<1>4. J \subseteq Nat \ {0} /\ \A i \in J : i + 1 \in I /\ i + 1 > 1
  BY DEF Cut
<1>5. \A i \in J : q[i] = p[i + 1] - 1 /\ q[i] \in 1 .. n - 1
  <2> TAKE i \in J
  <2>1. p[1] < p[i + 1]
    BY <1>4 DEF Ranks
  <2> QED
    BY <1>1, <1>3, <1>4, <2>1
<1>6. q \in [J -> 1 .. n - 1]
  BY <1>5
<1>7. \A i, j \in J : i < j => q[i] < q[j]
  <2> TAKE i, j \in J
  <2>1. i < j => p[i + 1] < p[j + 1]
    BY <1>4 DEF Ranks
  <2> QED
    BY <1>1, <1>4, <1>5, <2>1
<1>8. ASSUME NEW k \in 1 .. n - 1 PROVE \E i \in J : q[i] = k
  <2>1. PICK i \in I : p[i] = k + 1
    BY DEF Ranks
  <2>2. i # 1 /\ i - 1 \in Nat \ {0} /\ (i - 1) + 1 = i /\ i - 1 >= 1
    BY <1>3, <2>1
  <2>3. i - 1 \in J
    BY <2>2 DEF Cut
  <2> QED
    BY <1>5, <2>1, <2>2, <2>3
<1> QED
  BY <1>6, <1>7, <1>8 DEF Ranks

\* An element that is not of the kind leaves, and the numbers stay.
LEMMA RanksSkip ==
  ASSUME NEW I, I \subseteq Nat \ {0}, 1 \notin I, NEW n \in Nat, NEW p, Ranks(I, n, p),
         NEW q, q = [i \in Cut(I, 1) |-> p[i + 1]]
  PROVE  Ranks(Cut(I, 1), n, q)
<1> DEFINE J == Cut(I, 1)
<1>1. J \subseteq Nat \ {0} /\ \A i \in J : i + 1 \in I /\ q[i] = p[i + 1]
  BY DEF Cut
<1>2. q \in [J -> 1 .. n]
  BY <1>1 DEF Ranks
<1>3. \A i, j \in J : i < j => q[i] < q[j]
  <2> TAKE i, j \in J
  <2>1. i < j => i + 1 < j + 1
    BY <1>1
  <2> QED
    BY <1>1, <2>1 DEF Ranks
<1>4. ASSUME NEW k \in 1 .. n PROVE \E i \in J : q[i] = k
  <2>1. PICK i \in I : p[i] = k
    BY DEF Ranks
  <2>2. i # 1 /\ i - 1 \in Nat \ {0} /\ (i - 1) + 1 = i /\ i - 1 >= 1
    OBVIOUS
  <2>3. i - 1 \in J
    BY <2>2 DEF Cut
  <2> QED
    BY <1>1, <2>1, <2>2, <2>3
<1> QED
  BY <1>2, <1>3, <1>4 DEF Ranks

\* How many indices are left.
LEMMA CutCard ==
  ASSUME NEW n \in Nat, NEW S, S \subseteq 1 .. n, NEW g \in Nat \ {0}
  PROVE  /\ IsFiniteSet(S) /\ Cardinality(S) \in Nat
         /\ g \in S => Cardinality(S) > 0 /\ Cardinality(Cut(S, g)) = Cardinality(S) - 1
         /\ g \notin S => Cardinality(Cut(S, g)) = Cardinality(S)
<1> DEFINE T == Cut(S, g)
           U == S \ {g}
           f == [i \in T |-> IF i < g THEN i ELSE i + 1]
<1>1. IsFiniteSet(S) /\ Cardinality(S) \in Nat
  <2>1. IsFiniteSet(1 .. n)
    BY FS_Interval
  <2> QED
    BY <2>1, FS_Subset, FS_CardinalityType
<1>2. \A i \in T : i \in Nat \ {0} /\ f[i] = (IF i < g THEN i ELSE i + 1) /\ f[i] \in U
  BY DEF Cut
<1>3. f \in [T -> U]
  BY <1>2
<1>4. \A i, j \in T : f[i] = f[j] => i = j
  <2> TAKE i, j \in T
  <2> QED
    BY <1>2
<1>5. ASSUME NEW u \in U PROVE \E i \in T : f[i] = u
  <2>1. u \in Nat \ {0} /\ u # g /\ u \in S
    OBVIOUS
  <2>2. CASE u < g
    <3>1. u \in T
      BY <2>1, <2>2 DEF Cut
    <3> QED
      BY <1>2, <2>2, <3>1
  <2>3. CASE u > g
    <3>1. u - 1 \in Nat \ {0} /\ (u - 1) + 1 = u /\ u - 1 >= g
      BY <2>1, <2>3
    <3>2. u - 1 \in T
      BY <2>1, <3>1 DEF Cut
    <3> QED
      BY <1>2, <3>1, <3>2
  <2> QED
    BY <2>1, <2>2, <2>3
<1>6. f \in Bijection(T, U)
  <2> HIDE DEF f, T, U
  <2>1. f \in Surjection(T, U)
    BY <1>3, <1>5 DEF Surjection
  <2>2. f \in Injection(T, U)
    BY <1>3, <1>4 DEF Injection, IsInjective
  <2> QED
    BY <2>1, <2>2 DEF Bijection
<1>7. IsFiniteSet(U) /\ Cardinality(U) = IF g \in S THEN Cardinality(S) - 1 ELSE Cardinality(S)
  BY <1>1, FS_RemoveElement
<1>8. Cardinality(T) = Cardinality(U)
  <2> HIDE DEF T, U, f
  <2>1. f \in Injection(T, U) /\ f \in Surjection(T, U)
    BY <1>6 DEF Bijection
  <2> QED
    BY <1>7, <2>1, FS_Injection
<1>9. g \in S => Cardinality(S) > 0
  BY <1>1, FS_EmptySet
<1> QED
  BY <1>1, <1>7, <1>8, <1>9
=============================================================================
