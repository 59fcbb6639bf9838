------------------------------- MODULE AxiSim -------------------------------
(***************************************************************************)
(* The memory of the default simulation build (AXI_wrapper of axi.cpp):    *)
(* one queue of reads, one of writes, each served one burst at a time, a   *)
(* beat at a time, straight from and to the simulated RAM.  The simulation *)
(* loop calls the handlers once in each cycle, after the rising edge; what *)
(* they read of the master's signals is what the next edge completes, so a *)
(* request, a beat or an answer is exchanged in the handler that sees both *)
(* valid and ready.                                                        *)
(***************************************************************************)
EXTENDS Naturals, Sequences

CONSTANTS RIDS, WIDS, WORDS, NONE, UNREAD

VARIABLES mem,          \* ram
          answer,       \* the R beat or B response the last step gave the master: [id, val]
          rreq_list,    \* std::queue of accepted reads: [id, words]
          wreq_list,    \* std::queue of accepted writes: [id, words]
          rinflight,    \* rtask is loaded
          winflight,    \* wtask is loaded
          rtask,        \* the words left of the first read, and its R beat once sampled
          wtask,        \* the words left of the first write
          wfinish       \* the write to answer (wfinish, wtask_finished), or NONE

vars == <<mem, answer, rreq_list, wreq_list, rinflight, winflight, rtask, wtask, wfinish>>
readVars == <<rreq_list, rinflight, rtask>>
writeVars == <<wreq_list, winflight, wtask, wfinish>>

NoAnswer == [id |-> NONE, val |-> NONE]

Init == /\ mem = [w \in WORDS |-> NONE]
        /\ answer = NoAnswer
        /\ rreq_list = <<>> /\ wreq_list = <<>>
        /\ rinflight = FALSE /\ winflight = FALSE
        /\ rtask = [words |-> <<>>, val |-> UNREAD]
        /\ wtask = <<>>
        /\ wfinish = NONE

InRead(i) == \E k \in DOMAIN rreq_list : rreq_list[k].id = i
InWrite(i) == wfinish = i \/ \E k \in DOMAIN wreq_list : wreq_list[k].id = i

(* get_rtask, get_wtask: load the request at the head of a queue.          *)
get_rtask(list) == [words |-> Head(list).words, val |-> UNREAD]
get_wtask(list) == Head(list).words

handle_ar(i, b) ==
    /\ ~InRead(i)
    /\ rreq_list' = Append(rreq_list, [id |-> i, words |-> b])
    /\ answer' = NoAnswer
    /\ UNCHANGED <<mem, rinflight, rtask, writeVars>>

(* readx fetches the beat once; it waits in rtask while r_ready is low.    *)
readx == IF rtask.val = UNREAD THEN mem[Head(rtask.words)] ELSE rtask.val

(* What follows a beat that the master takes: the next beat of the burst   *)
(* (update_rtask), the next burst, or an idle channel.                     *)
TakeBeat ==
    /\ answer' = [id |-> Head(rreq_list).id, val |-> readx]
    /\ \/ /\ Len(rtask.words) > 1
          /\ rtask' = [words |-> Tail(rtask.words), val |-> UNREAD]
          /\ UNCHANGED <<rreq_list, rinflight>>
       \/ /\ Len(rtask.words) = 1
          /\ rreq_list' = Tail(rreq_list)
          /\ rinflight' = (Len(rreq_list) > 1)
          /\ rtask' = IF Len(rreq_list) > 1 THEN get_rtask(Tail(rreq_list)) ELSE rtask

handle_r(r_ready) ==
    /\ \/ /\ rreq_list = <<>>
          /\ answer' = NoAnswer
          /\ UNCHANGED readVars
       \/ /\ rreq_list # <<>> /\ ~rinflight
          /\ rinflight' = TRUE
          /\ rtask' = get_rtask(rreq_list)
          /\ answer' = NoAnswer
          /\ UNCHANGED rreq_list
       \/ /\ rreq_list # <<>> /\ rinflight /\ r_ready
          /\ TakeBeat
       \/ /\ rreq_list # <<>> /\ rinflight /\ ~r_ready
          /\ rtask' = [rtask EXCEPT !.val = readx]
          /\ answer' = NoAnswer
          /\ UNCHANGED <<rreq_list, rinflight>>
    /\ UNCHANGED <<mem, writeVars>>

handle_aw(i, b) ==
    /\ ~InWrite(i)
    /\ wreq_list' = Append(wreq_list, [id |-> i, words |-> b])
    /\ answer' = NoAnswer
    /\ UNCHANGED <<mem, readVars, winflight, wtask, wfinish>>

(* A W beat is written as it comes; the last one ends the burst.           *)
WriteBeat ==
    /\ mem' = [mem EXCEPT ![Head(wtask)] = Head(wreq_list).id]
    /\ \/ /\ Len(wtask) > 1
          /\ wtask' = Tail(wtask)
          /\ UNCHANGED <<wreq_list, winflight, wfinish>>
       \/ /\ Len(wtask) = 1
          /\ wreq_list' = Tail(wreq_list)
          /\ wfinish' = Head(wreq_list).id
          /\ winflight' = (Len(wreq_list) > 1)
          /\ wtask' = IF Len(wreq_list) > 1 THEN get_wtask(Tail(wreq_list)) ELSE wtask

handle_w(w_valid) ==
    /\ \/ /\ wreq_list = <<>>
          /\ UNCHANGED <<mem, writeVars>>
       \/ /\ wreq_list # <<>> /\ ~winflight
          /\ winflight' = TRUE
          /\ wtask' = get_wtask(wreq_list)
          /\ UNCHANGED <<mem, wreq_list, wfinish>>
       \/ /\ wreq_list # <<>> /\ winflight /\ w_valid
          /\ WriteBeat
       \/ /\ wreq_list # <<>> /\ winflight /\ ~w_valid
          /\ UNCHANGED <<mem, writeVars>>
    /\ answer' = NoAnswer
    /\ UNCHANGED readVars

(* The response is shown for one cycle, whatever b_ready: the master must  *)
(* take it then.                                                           *)
handle_b ==
    /\ answer' = IF wfinish = NONE THEN NoAnswer ELSE [id |-> wfinish, val |-> NONE]
    /\ wfinish' = NONE
    /\ UNCHANGED <<mem, readVars, wreq_list, winflight, wtask>>

-----------------------------------------------------------------------------
(* What the requests are owed: the mapping to MemoryPort.                  *)
OwedRead(i) ==
    IF ~InRead(i) THEN <<>>
    ELSE LET k == CHOOSE j \in DOMAIN rreq_list : rreq_list[j].id = i
             words == IF k = 1 /\ rinflight THEN rtask.words ELSE rreq_list[k].words
         IN  [j \in DOMAIN words |->
                [word |-> words[j],
                 val  |-> IF k = 1 /\ j = 1 /\ rinflight THEN rtask.val ELSE UNREAD]]

OwedWrite(i) ==
    IF ~InWrite(i) THEN NONE
    ELSE IF wfinish = i THEN {}
    ELSE LET k == CHOOSE j \in DOMAIN wreq_list : wreq_list[j].id = i
             words == IF k = 1 /\ winflight THEN wtask ELSE wreq_list[k].words
         IN  {words[j] : j \in DOMAIN words}
=============================================================================
