---------------------------- MODULE MCSimMemory -----------------------------
EXTENDS SimMemory, TLC
CONSTANTS w1, w2

(* A line of two words, and its second word, in another bank.              *)
Line == {<<w1, w2>>}
LineOrWord == {<<w1, w2>>, <<w2>>}
TwoBanks == [w \in WORDS |-> w]
Perms == Permutations(RIDS) \cup Permutations(WIDS)
=============================================================================
