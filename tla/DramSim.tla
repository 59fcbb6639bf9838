------------------------------ MODULE DramSim -------------------------------
(***************************************************************************)
(* The memory of a build with USE_DRAM_SIM (AXI_wrapper of memorysim*.cpp) *)
(* over the DRAMsim3 controller.  A request is kept under its address      *)
(* while the controller schedules that address; the controller's callback  *)
(* moves the data and completes every request kept under the address.      *)
(* Timing parameters and rows of the banks are abstracted: a queued        *)
(* command is issued some time later, in an order the queues allow.        *)
(***************************************************************************)
EXTENDS Naturals, FiniteSets, Sequences, SequencesExt

CONSTANTS RIDS, WIDS, WORDS, NONE, UNREAD,
          BANK,        \* the bank of an address: a function of WORDS
          WCMAX,       \* SIM_AXI_WCMAX: write addresses waiting for their data
          TRANS_QUEUE, \* trans_queue_size: room in read_queue_ and in write_buffer_
          CMD_QUEUE,   \* cmd_queue_size: room in the command queue of a bank
          DRAIN,       \* more buffered writes than this are drained (8 in the code)
          READ_DELAY   \* controller cycles from a READ command to its data

VARIABLES mem,             \* ram
          answer,          \* the R beat or B response the last step gave the master: [id, val]
          inflight_read,   \* per address, reads in the controller: [id, words]
          respond_read,    \* reads with the beats left to send: [id, data]
          coalesce_write,  \* writes short of data: [id, words, got]
          require_write,   \* writes the controller did not accept yet
          inflight_write,  \* per address, writes in the controller
          respond_write,   \* writes to answer: their ids
          read_queue_, write_buffer_,   \* addresses not yet scheduled
          pending_rd_q_,   \* per address, how many reads are not yet issued
          pending_wr_q_,   \* addresses of writes not yet issued
          return_queue_,   \* completions to come: [addr, is_write, left], left in cycles
          ticking,         \* the controller's tick is returning what is complete
          write_draining_, \* writes to schedule before reads are again
          cmd_queue        \* per bank, commands not yet issued: [addr, is_write]

readVars == <<inflight_read, respond_read>>
writeVars == <<coalesce_write, require_write, inflight_write, respond_write>>
queueVars == <<read_queue_, write_buffer_, pending_rd_q_, pending_wr_q_>>
ctrlVars == <<queueVars, return_queue_, ticking, write_draining_, cmd_queue>>
vars == <<mem, answer, readVars, writeVars, ctrlVars>>

Banks == {BANK[a] : a \in WORDS}

NoAnswer == [id |-> NONE, val |-> NONE]

Init == /\ mem = [w \in WORDS |-> NONE]
        /\ answer = NoAnswer
        /\ inflight_read = [a \in WORDS |-> <<>>] /\ respond_read = <<>>
        /\ inflight_write = [a \in WORDS |-> <<>>] /\ respond_write = <<>>
        /\ coalesce_write = <<>> /\ require_write = <<>>
        /\ read_queue_ = <<>> /\ write_buffer_ = <<>>
        /\ pending_rd_q_ = [a \in WORDS |-> 0] /\ pending_wr_q_ = {}
        /\ return_queue_ = <<>> /\ ticking = FALSE /\ write_draining_ = 0
        /\ cmd_queue = [b \in Banks |-> <<>>]

Has(list, i) == \E k \in DOMAIN list : list[k].id = i
InRead(i) == Has(respond_read, i) \/ \E a \in WORDS : Has(inflight_read[a], i)
InWrite(i) == \/ Has(coalesce_write, i) \/ Has(require_write, i)
              \/ i \in ToSet(respond_write) \/ \E a \in WORDS : Has(inflight_write[a], i)

(***************************************************************************)
(* Controller::AddTransaction.  A write is done at once as far as its      *)
(* master is concerned; a second write to its address merges with the      *)
(* first while that one is not issued.  A read of an address with such a   *)
(* write is forwarded, and reads of one address share one command.         *)
(***************************************************************************)
WillAcceptTransaction(is_write) ==
    Len(IF is_write THEN write_buffer_ ELSE read_queue_) < TRANS_QUEUE

Done(a, is_write, delay) == [addr |-> a, is_write |-> is_write, left |-> delay]

AddWrite(a) ==
    /\ write_buffer_' = IF a \in pending_wr_q_ THEN write_buffer_ ELSE Append(write_buffer_, a)
    /\ pending_wr_q_' = pending_wr_q_ \cup {a}
    /\ return_queue_' = Append(return_queue_, Done(a, TRUE, 1))
    /\ UNCHANGED <<read_queue_, pending_rd_q_, ticking, write_draining_, cmd_queue>>

AddRead__no_merge(a) ==
    /\ \/ /\ a \in pending_wr_q_
          /\ return_queue_' = Append(return_queue_, Done(a, FALSE, 1))
          /\ UNCHANGED <<read_queue_, pending_rd_q_>>
       \/ /\ a \notin pending_wr_q_
          /\ read_queue_' = Append(read_queue_, a)
          /\ pending_rd_q_' = [pending_rd_q_ EXCEPT ![a] = @ + 1]
          /\ UNCHANGED return_queue_
    /\ UNCHANGED <<write_buffer_, pending_wr_q_, ticking, write_draining_, cmd_queue>>

AddRead__not_returned(a) ==
    /\ \/ /\ a \in pending_wr_q_
          /\ UNCHANGED <<read_queue_, pending_rd_q_>>
       \/ /\ a \notin pending_wr_q_
          /\ read_queue_' = IF pending_rd_q_[a] > 0 THEN read_queue_ ELSE Append(read_queue_, a)
          /\ pending_rd_q_' = [pending_rd_q_ EXCEPT ![a] = @ + 1]
    /\ UNCHANGED <<return_queue_, write_buffer_, pending_wr_q_, ticking, write_draining_, cmd_queue>>

AddRead(a) ==
    /\ \/ /\ a \in pending_wr_q_
          /\ return_queue_' = Append(return_queue_, Done(a, FALSE, 1))
          /\ UNCHANGED <<read_queue_, pending_rd_q_>>
       \/ /\ a \notin pending_wr_q_
          /\ read_queue_' = IF pending_rd_q_[a] > 0 THEN read_queue_ ELSE Append(read_queue_, a)
          /\ pending_rd_q_' = [pending_rd_q_ EXCEPT ![a] = @ + 1]
          /\ UNCHANGED return_queue_
    /\ UNCHANGED <<write_buffer_, pending_wr_q_, ticking, write_draining_, cmd_queue>>

-----------------------------------------------------------------------------
(* The handlers of the AXI channels.  The address of a request is that of  *)
(* its first beat.                                                         *)
handle_ar(i, b) ==
    /\ ~InRead(i)
    /\ WillAcceptTransaction(FALSE)
    /\ AddRead(Head(b))
    /\ inflight_read' = [inflight_read EXCEPT ![Head(b)] = Append(@, [id |-> i, words |-> b])]
    /\ answer' = NoAnswer
    /\ UNCHANGED <<mem, respond_read, writeVars>>

handle_r(r_ready) ==
    /\ IF respond_read # <<>> /\ r_ready
       THEN LET read == Head(respond_read)
            IN  /\ answer' = [id |-> read.id, val |-> Head(read.data).val]
                /\ respond_read' = IF Len(read.data) = 1 THEN Tail(respond_read)
                                   ELSE [respond_read EXCEPT ![1].data = Tail(@)]
       ELSE answer' = NoAnswer /\ UNCHANGED respond_read
    /\ UNCHANGED <<mem, inflight_read, writeVars, ctrlVars>>

handle_aw(i, b) ==
    /\ ~InWrite(i)
    /\ Len(coalesce_write) < WCMAX
    /\ coalesce_write' = Append(coalesce_write, [id |-> i, words |-> b, got |-> 0])
    /\ answer' = NoAnswer
    /\ UNCHANGED <<mem, readVars, require_write, inflight_write, respond_write, ctrlVars>>

(* A W beat belongs to the first write short of data; complete, it joins   *)
(* the writes the controller has to accept, one of which it takes if it    *)
(* has room.                                                               *)
handle_w(w_valid) ==
    LET w == [Head(coalesce_write) EXCEPT !.got = @ + 1]
        last == w_valid /\ w.got = Len(w.words)
        require == IF last THEN Append(require_write, w) ELSE require_write
        first == Head(require)
    IN  /\ w_valid => coalesce_write # <<>>
        /\ coalesce_write' = IF last THEN Tail(coalesce_write)
                             ELSE IF w_valid THEN [coalesce_write EXCEPT ![1] = w]
                             ELSE coalesce_write
        /\ IF require # <<>> /\ WillAcceptTransaction(TRUE)
           THEN /\ AddWrite(Head(first.words))
                /\ inflight_write' = [inflight_write EXCEPT ![Head(first.words)] = Append(@, first)]
                /\ require_write' = Tail(require)
           ELSE /\ require_write' = require
                /\ UNCHANGED <<inflight_write, ctrlVars>>
        /\ answer' = NoAnswer
        /\ UNCHANGED <<mem, readVars, respond_write>>

handle_b(b_ready) ==
    /\ IF respond_write # <<>> /\ b_ready
       THEN /\ answer' = [id |-> Head(respond_write), val |-> NONE]
            /\ respond_write' = Tail(respond_write)
       ELSE answer' = NoAnswer /\ UNCHANGED respond_write
    /\ UNCHANGED <<mem, readVars, coalesce_write, require_write, inflight_write, ctrlVars>>

-----------------------------------------------------------------------------
(* The callbacks: every request kept under the address is completed.       *)
read_complete(a) ==
    LET data(read) == [id |-> read.id, 
                        data |-> [k \in DOMAIN read.words |->
                                    [word |-> read.words[k], val |-> mem[read.words[k]]]]]
        reads == inflight_read[a]
    IN  /\ respond_read' = respond_read \o [k \in DOMAIN reads |-> data(reads[k])]
        /\ inflight_read' = [inflight_read EXCEPT ![a] = <<>>]
        /\ UNCHANGED <<mem, writeVars>>


write_complete(a) ==
    LET writes == inflight_write[a]
        of(w) == {k \in DOMAIN writes : w \in ToSet(writes[k].words)}
        last(w) == CHOOSE k \in of(w) : \A j \in of(w) : j <= k
    IN  /\ mem' = [w \in WORDS |-> IF of(w) = {} THEN mem[w] ELSE writes[last(w)].id]
        /\ respond_write' = respond_write \o [k \in DOMAIN writes |-> writes[k].id]
        /\ inflight_write' = [inflight_write EXCEPT ![a] = <<>>]
        /\ UNCHANGED <<readVars, coalesce_write, require_write>>

(* One round of the loop of JedecDRAMSystem::ClockTick that returns what   *)
(* is complete, the oldest transaction first (Controller::ReturnDoneTrans).*)
Due == {k \in DOMAIN return_queue_ : return_queue_[k].left = 0}

ReturnDoneTrans ==
    /\ Due # {}
    /\ LET k == CHOOSE j \in Due : \A i \in Due : j <= i
       IN  /\ return_queue_' = RemoveAt(return_queue_, k)
           /\ IF return_queue_[k].is_write THEN write_complete(return_queue_[k].addr)
                                           ELSE read_complete(return_queue_[k].addr)
    /\ ticking' = TRUE
    /\ answer' = NoAnswer
    /\ UNCHANGED <<queueVars, write_draining_, cmd_queue>>

(* The commands the bank queues may issue: a write waits for the reads of  *)
(* its address before it (CommandQueue::HasRWDependency).                  *)
HasRWDependency(b, k) ==
    /\ cmd_queue[b][k].is_write
    /\ \E j \in 1..(k - 1) : /\ cmd_queue[b][j].addr = cmd_queue[b][k].addr
                            /\ ~cmd_queue[b][j].is_write

Ready == {<<b, k>> \in Banks \X (1..CMD_QUEUE) :
             k \in DOMAIN cmd_queue[b] /\ ~HasRWDependency(b, k)}

(* write_draining_ after a transaction was taken up: a write that depends   *)
(* on a pending read ends the drain.                                       *)
drain_left__kept(drain, depends) == IF depends \/ drain = 0 THEN drain ELSE drain - 1
drain_left(drain, depends) == IF depends \/ drain = 0 THEN 0 ELSE drain - 1

(* Controller::ScheduleTransaction with the bank queues and the pending    *)
(* reads an issued command has left: the first transaction whose bank has  *)
(* room goes there; a write whose address has pending reads ends the drain.*)
ScheduleTransaction(queues, reads) ==
    LET drain == IF /\ write_draining_ = 0
                    /\ \/ Len(write_buffer_) >= TRANS_QUEUE
                       \/ Len(write_buffer_) > DRAIN /\ \A b \in Banks : queues[b] = <<>>
                 THEN Len(write_buffer_) ELSE write_draining_
        queue == IF drain > 0 THEN write_buffer_ ELSE read_queue_
        fits == {k \in DOMAIN queue : Len(queues[BANK[queue[k]]]) < CMD_QUEUE}
        k == CHOOSE j \in fits : \A i \in fits : j <= i
        depends == drain > 0 /\ reads[queue[k]] > 0
    IN  IF fits = {} \/ depends
        THEN /\ write_draining_' = IF fits = {} THEN drain ELSE drain_left(drain, depends)
             /\ cmd_queue' = queues
             /\ UNCHANGED <<read_queue_, write_buffer_>>
        ELSE /\ cmd_queue' = [queues EXCEPT ![BANK[queue[k]]] =
                                 Append(@, [addr |-> queue[k], is_write |-> drain > 0])]
             /\ write_draining_' = drain_left(drain, depends)
             /\ IF drain > 0
                THEN write_buffer_' = RemoveAt(queue, k) /\ UNCHANGED read_queue_
                ELSE read_queue_' = RemoveAt(queue, k) /\ UNCHANGED write_buffer_

Later(list) == [k \in DOMAIN list |-> [list[k] EXCEPT !.left = IF @ > 0 THEN @ - 1 ELSE 0]]

(* Controller::ClockTick once nothing is due: a command may be issued, a   *)
(* transaction is scheduled, the clock advances.                           *)
TickIdle ==
    /\ Due = {}
    /\ ScheduleTransaction(cmd_queue, pending_rd_q_)
    /\ return_queue_' = Later(return_queue_)
    /\ ticking' = FALSE
    /\ answer' = NoAnswer
    /\ UNCHANGED <<mem, readVars, writeVars, pending_rd_q_, pending_wr_q_>>

(* IssueCommand: the reads of the address are returned, all of them.       *)
TickIssue(b, k) ==
    LET cmd == cmd_queue[b][k]
        reads == IF cmd.is_write THEN pending_rd_q_ ELSE [pending_rd_q_ EXCEPT ![cmd.addr] = 0]
        returned == IF cmd.is_write THEN <<>>
                    ELSE [j \in 1..pending_rd_q_[cmd.addr] |-> Done(cmd.addr, FALSE, READ_DELAY)]
    IN  /\ Due = {}
        /\ <<b, k>> \in Ready
        /\ pending_wr_q_' = IF cmd.is_write THEN pending_wr_q_ \ {cmd.addr} ELSE pending_wr_q_
        /\ pending_rd_q_' = reads
        /\ return_queue_' = Later(return_queue_ \o returned)
        /\ ticking' = FALSE
        /\ ScheduleTransaction([cmd_queue EXCEPT ![b] = RemoveAt(@, k)], reads)
        /\ answer' = NoAnswer
        /\ UNCHANGED <<mem, readVars, writeVars>>

-----------------------------------------------------------------------------
(* What the requests are owed: the mapping to MemoryPort.                  *)
OwedRead(i) ==
    IF Has(respond_read, i)
    THEN LET read == CHOOSE r \in ToSet(respond_read) : r.id = i
         IN  read.data
    ELSE IF \E a \in WORDS : Has(inflight_read[a], i)
    THEN LET a == CHOOSE x \in WORDS : Has(inflight_read[x], i)
             read == CHOOSE r \in ToSet(inflight_read[a]) : r.id = i
         IN  [k \in DOMAIN read.words |-> [word |-> read.words[k], val |-> UNREAD]]
    ELSE <<>>

OwedWrite(i) ==
    IF i \in ToSet(respond_write) THEN {}
    ELSE IF ~InWrite(i) THEN NONE
    ELSE LET w == CHOOSE r \in ToSet(coalesce_write) \cup ToSet(require_write)
                               \cup UNION {ToSet(inflight_write[a]) : a \in WORDS} : r.id = i
         IN  ToSet(w.words)

-----------------------------------------------------------------------------
(* IssueCommand ends the simulation when the transaction of a command is   *)
(* not pending, and GetFirstReadyInQueue assumes one command at most per   *)
(* address and direction: an address is pending exactly while one of its   *)
(* transactions is queued, in the transaction queue or in its bank's.      *)
Queued(a, is_write) ==
    {<<k>> : k \in {j \in DOMAIN (IF is_write THEN write_buffer_ ELSE read_queue_) :
                        (IF is_write THEN write_buffer_ ELSE read_queue_)[j] = a}}
    \cup {<<b, k>> \in Banks \X (1..CMD_QUEUE) :
              k \in DOMAIN cmd_queue[b] /\ cmd_queue[b][k] = [addr |-> a, is_write |-> is_write]}

PendingIsQueued ==
    \A a \in WORDS :
        /\ Cardinality(Queued(a, FALSE)) = IF pending_rd_q_[a] > 0 THEN 1 ELSE 0
        /\ Cardinality(Queued(a, TRUE)) = IF a \in pending_wr_q_ THEN 1 ELSE 0

(* A request kept under its address has a completion to come: a pending    *)
(* read whose command returns it, or an entry of the return queue.         *)
NoneForgotten ==
    \A a \in WORDS :
        /\ inflight_read[a] # <<>> =>
               \/ pending_rd_q_[a] > 0
               \/ \E r \in ToSet(return_queue_) : r.addr = a /\ ~r.is_write
        /\ inflight_write[a] # <<>> =>
               \E r \in ToSet(return_queue_) : r.addr = a /\ r.is_write

(* The one way the controller stops: it wants to drain, the bank queues    *)
(* are empty, and the first buffered write has to wait for a read of its   *)
(* address that is not scheduled because writes are to be drained.         *)
Idle == \A b \in Banks : cmd_queue[b] = <<>>

Wedged ==
    /\ Idle
    /\ Len(write_buffer_) > DRAIN \/ Len(write_buffer_) = TRANS_QUEUE
    /\ pending_rd_q_[Head(write_buffer_)] > 0

(* A tick of an idle controller with reads to schedule schedules one of    *)
(* its transactions, or ends a drain the next tick does not take up.       *)
TickProgress ==
    TickIdle /\ Idle /\ read_queue_ # <<>> /\ ~Wedged =>
        \/ cmd_queue' # cmd_queue
        \/ write_draining_ > 0 /\ write_draining_' = 0
=============================================================================
