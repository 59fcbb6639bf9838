----------------------------- MODULE SimMemory ------------------------------
(***************************************************************************)
(* The simulation loop (sim_main.cpp) over the memory of its build: the    *)
(* five handlers in the order of the loop, then, with USE_DRAM_SIM, the    *)
(* controller's tick.  The master is the bus interface of the design: it   *)
(* asks with ids that are free, sends write data in the order of the       *)
(* addresses and not before them, and is ready when it likes; a response   *)
(* to a write it takes at once in the default build, see handle_b there.   *)
(***************************************************************************)
EXTENDS Naturals, Sequences, SequencesExt, FiniteSets

CONSTANTS RIDS, WIDS, WORDS, READS, WRITES, NONE, UNREAD,
          BANK, WCMAX, TRANS_QUEUE, CMD_QUEUE, DRAIN, READ_DELAY, OUTSTANDING

VARIABLES build,  \* "axi" or "dram" (USE_DRAM_SIM)
          mem, answer,
          rreq_list, wreq_list, rinflight, winflight, rtask, wtask, wfinish,
          inflight_read, respond_read, coalesce_write, require_write, inflight_write,
          respond_write, read_queue_, write_buffer_, pending_rd_q_, pending_wr_q_,
          return_queue_, ticking, write_draining_, cmd_queue

A == INSTANCE AxiSim
D == INSTANCE DramSim

axiVars == <<rreq_list, wreq_list, rinflight, winflight, rtask, wtask, wfinish>>
dramVars == <<inflight_read, respond_read, coalesce_write, require_write, inflight_write,
              respond_write, read_queue_, write_buffer_, pending_rd_q_, pending_wr_q_,
              return_queue_, ticking, write_draining_, cmd_queue>>
vars == <<build, mem, answer, axiVars, dramVars>>

Init == build \in {"axi", "dram"} /\ A!Init /\ D!Init

Axi(handler) == build = "axi" /\ handler /\ UNCHANGED <<build, dramVars>>
Dram(handler) == build = "dram" /\ handler /\ UNCHANGED <<build, axiVars>>
Call(handler) == ~ticking /\ Dram(handler)

(* OUTSTANDING bounds the requests of the master that wait for an answer.  *)
OwedReads == [i \in RIDS |-> IF build = "axi" THEN A!OwedRead(i) ELSE D!OwedRead(i)]
OwedWrites == [i \in WIDS |-> IF build = "axi" THEN A!OwedWrite(i) ELSE D!OwedWrite(i)]

Room == Cardinality({i \in RIDS : OwedReads[i] # <<>>})
        + Cardinality({i \in WIDS : OwedWrites[i] # NONE}) < OUTSTANDING

HandleAr(i, b) == Room /\ (Axi(A!handle_ar(i, b)) \/ Call(D!handle_ar(i, b)))
HandleR(ready) == Axi(A!handle_r(ready)) \/ Call(D!handle_r(ready))
HandleAw(i, b) == Room /\ (Axi(A!handle_aw(i, b)) \/ Call(D!handle_aw(i, b)))
HandleW(valid) == (wfinish = NONE /\ Axi(A!handle_w(valid))) \/ Call(D!handle_w(valid))
HandleB(ready) == Axi(A!handle_b) \/ Call(D!handle_b(ready))

(* dramsim_tick, of the build that has it.                                 *)
Return == Dram(D!ReturnDoneTrans)
Tick == Dram(D!TickIdle)
Issue(a) == \E c \in D!Ready : cmd_queue[c[1]][c[2]].addr = a /\ Dram(D!TickIssue(c[1], c[2]))

Next == \/ \E i \in RIDS, b \in READS : HandleAr(i, b)
        \/ \E i \in WIDS, b \in WRITES : HandleAw(i, b)
        \/ \E signal \in BOOLEAN : HandleR(signal) \/ HandleW(signal) \/ HandleB(signal)
        \/ Return \/ Tick \/ \E a \in WORDS : Issue(a)

Spec == Init /\ [][Next]_vars

-----------------------------------------------------------------------------
(* Every program that runs on the design relies on the port: whichever     *)
(* memory is built, and however the controller merges, forwards and        *)
(* reorders, each read returns what the words hold at one moment between   *)
(* its request and its beat, each write is performed once before its       *)
(* response, and none is answered twice or without being asked.            *)
P == INSTANCE MemoryPort WITH rd <- OwedReads, wr <- OwedWrites, BURSTS <- READS \cup WRITES

(* IssueCommand (controller.cc) would end the simulation for a command     *)
(* whose transaction is not pending, and two commands of one address and   *)
(* direction would return a transaction twice: see DramSim.                *)
PendingIsQueued == D!PendingIsQueued

(* No request waits in an inflight map for a completion that never comes.  *)
NoneForgotten == D!NoneForgotten

(* ScheduleTransaction never stalls, except in the one wedge that its      *)
(* read-before-write rule can meet (DramSim!Wedged).                       *)
TickProgress == [][build = "dram" => D!TickProgress]_vars
=============================================================================
