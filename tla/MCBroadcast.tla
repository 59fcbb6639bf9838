---------------------------- MODULE MCBroadcast ----------------------------
EXTENDS Broadcast, TLC
CONSTANTS c1, c2

Makes(S) == [k \in KIND |-> IF k \in S THEN 1 ELSE 0]

(* Operations against snoops and refills of both cores, against a refill   *)
(* and a barrier, and with operations of the other core against a barrier   *)
(* of either; writes of all kinds against one barrier and against two.      *)
Budgets == {(c1 :> Makes({"ici", "fetch"})) @@ (c2 :> Makes({"fetch", "st"})),
            (c1 :> Makes({"ici", "fence"})) @@ (c2 :> Makes({"fetch"})),
            (c1 :> Makes({"ici", "fence"})) @@ (c2 :> Makes({"ici"})),
            (c1 :> Makes({"ici"})) @@ (c2 :> Makes({"tlb", "fence"})),
            (c1 :> Makes({"st", "wo", "fence"})) @@ (c2 :> Makes({"so"})),
            (c1 :> Makes({"st", "fence"})) @@ (c2 :> Makes({"so", "fence"}))}
=============================================================================
