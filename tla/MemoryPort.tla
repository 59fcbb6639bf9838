----------------------------- MODULE MemoryPort -----------------------------
(***************************************************************************)
(* What the memory behind the AXI port of the design promises its master.  *)
(* A request is asked, each of its beats takes effect at one moment before *)
(* it is answered, and a read is answered beat by beat in the order of its *)
(* burst.  Requests of different ids are not ordered.  Both memories of    *)
(* the verification environment implement it: AxiSim and DramSim.          *)
(***************************************************************************)
EXTENDS Sequences, FiniteSets

CONSTANTS RIDS,    \* the ids of reads (axi_ar_id)
          WIDS,    \* the ids of writes (axi_aw_id); an id is also the data it writes
          WORDS,   \* the addresses of beats
          BURSTS,  \* the requests: sequences of the words of their beats
          NONE,    \* the value of a word that was never written
          UNREAD   \* the value of a beat that was not read yet

VARIABLES mem,     \* the words
          rd,      \* per read id, the beats still owed: <<[word, val], ...>>
          wr,      \* per write id, NONE or the words not yet written
          answer   \* the answer of the last step: [id, val], NoAnswer if it gave none

Values == WIDS \cup {NONE}
NoAnswer == [id |-> NONE, val |-> NONE]

(* What is owed for a burst that was just asked for.                       *)
Asked(b) == [k \in DOMAIN b |-> [word |-> b[k], val |-> UNREAD]]

Init == /\ mem = [w \in WORDS |-> NONE]
        /\ rd = [i \in RIDS |-> <<>>]
        /\ wr = [i \in WIDS |-> NONE]
        /\ answer = NoAnswer

AskRead(i, b) ==
    /\ rd[i] = <<>>
    /\ rd' = [rd EXCEPT ![i] = Asked(b)]
    /\ answer' = NoAnswer
    /\ UNCHANGED <<mem, wr>>

AskWrite(i, b) ==
    /\ wr[i] = NONE
    /\ wr' = [wr EXCEPT ![i] = {b[k] : k \in DOMAIN b}]
    /\ answer' = NoAnswer
    /\ UNCHANGED <<mem, rd>>

(* Any reads' beats, or none, take the value memory holds now.             *)
Sampled(beat) == [beat EXCEPT !.val = IF @ = UNREAD THEN mem[beat.word] ELSE @]

Sample(beats) ==
    /\ rd' = [i \in RIDS |-> [k \in DOMAIN rd[i] |->
                 IF <<i, k>> \in beats THEN Sampled(rd[i][k]) ELSE rd[i][k]]]
    /\ answer' = NoAnswer
    /\ UNCHANGED <<mem, wr>>

(* Any words of accepted writes are written; where several of them write   *)
(* one word, one of them is last.                                          *)
Perform(words) ==
    /\ \A p \in words : wr[p[1]] # NONE /\ p[2] \in wr[p[1]]
    /\ wr' = [i \in WIDS |-> IF wr[i] = NONE THEN NONE
                             ELSE wr[i] \ {w \in WORDS : <<i, w>> \in words}]
    /\ mem' \in [WORDS -> Values]
    /\ \A w \in WORDS : LET last == {i \in WIDS : <<i, w>> \in words}
                        IN  IF last = {} THEN mem'[w] = mem[w] ELSE mem'[w] \in last
    /\ answer' = NoAnswer
    /\ UNCHANGED rd

AnswerRead(i) ==
    /\ rd[i] # <<>>
    /\ rd' = [rd EXCEPT ![i] = Tail(@)]
    /\ answer' = [id |-> i, val |-> Sampled(Head(rd[i])).val]
    /\ UNCHANGED <<mem, wr>>

AnswerWrite(i) ==
    /\ wr[i] = {}
    /\ wr' = [wr EXCEPT ![i] = NONE]
    /\ answer' = [id |-> i, val |-> NONE]
    /\ UNCHANGED <<mem, rd>>

Next == \/ \E i \in RIDS, b \in BURSTS : AskRead(i, b)
        \/ \E i \in WIDS, b \in BURSTS : AskWrite(i, b)
        \/ \E beats \in SUBSET UNION {{i} \X DOMAIN rd[i] : i \in RIDS} : Sample(beats)
        \/ \E words \in SUBSET (WIDS \X WORDS) : words # {} /\ Perform(words)
        \/ \E i \in RIDS : AnswerRead(i)
        \/ \E i \in WIDS : AnswerWrite(i)

Spec == Init /\ [][Next]_<<mem, rd, wr, answer>>
=============================================================================
