----------------------------- MODULE Broadcast ------------------------------
(***************************************************************************)
(* Cache and TLB maintenance for all cores, and the barrier that waits for *)
(* it.  A core sends an operation (CTC) on its AR channel, in one or two   *)
(* transactions.  The CTC queue of the CIU broadcasts it on the AC         *)
(* channels, where it meets the snoops of the snoop buffer (SNB), and      *)
(* collects the CR responses.  The core that asked is answered at once; it *)
(* learns that all cores have obeyed from a barrier, whose halves on AR    *)
(* and AW meet in the port of the core (PIU) and go on, through the queues *)
(* of the BMBIF, to the SNB, the non-cacheable queue (NCQ) and the CTCQ.   *)
(*                                                                         *)
(* The one bank of the SNB stands for both.  Its entries are at different  *)
(* indices, so that they wait for nothing but their snoops (SnoopBuffer    *)
(* has the rest).  Every core is in the coherence domain, and every        *)
(* operation and barrier shareable.  Not here: the answer R to a CTC, the  *)
(* data of stores and barriers, the FIFO of CR responses and wbq, which    *)
(* only delay; the path to the external bus (aim_ebiu is 0) and the        *)
(* operations on the L2.                                                   *)
(*                                                                         *)
(* A definition with a double underscore in its name is a faulty variant of *)
(* the definition after it: a mistake that a property has to notice.       *)
(***************************************************************************)
EXTENDS Naturals, Sequences, FiniteSets

CONSTANTS
  CORE,
  NONE,      \* no operation, no request
  BUDGETS,   \* the choices of how many requests of each kind each core makes
  AR_DEPTH,  \* ar_dfifo (2 in the code)
  AC_DEPTH,  \* ac_dfifo (2)
  RSPQ,      \* rspq of the PIU (12)
  REQQ,      \* requests in the CTCQ (8)
  RESPQ,     \* responses in the CTCQ (16)
  CTCQ,      \* CTC queue of a core (6)
  SNQ,       \* snoop queue of a core (6)
  RSAB,      \* entries of the SNB for reads
  WSAB,      \* entries of the SNB for stores and barriers
  NCQ_DEPTH, \* waq of the NCQ (2)
  BMB_DEPTH  \* queue of the BMBIF (4)

\* "ici" invalidates an I cache line and "tlb" the whole TLB, in two and in one
\* transaction; "fetch" refills the I cache; "st" is a store that the SNB has
\* to carry out; "wo" and "so" are weakly and strongly ordered writes of
\* non-cacheable memory.
KIND == {"ici", "tlb", "fetch", "st", "wo", "so", "fence"}

ASSUME BroadcastAssumption ==
  /\ IsFiniteSet(CORE) /\ NONE \notin CORE \cup Nat \cup {"st", "bar", "wo", "so"}
  /\ NONE \notin CORE \X KIND \X Nat
  /\ BUDGETS \subseteq [CORE -> [KIND -> Nat]]
  /\ {AR_DEPTH, AC_DEPTH, RSPQ, REQQ, CTCQ, SNQ, RSAB, WSAB, NCQ_DEPTH} \subseteq Nat \ {0}
  /\ RESPQ \in Nat \ {0, 1} /\ BMB_DEPTH \in Nat /\ BMB_DEPTH >= Cardinality(CORE)

VARIABLES
  left,     \* requests a core has still to make
  half,     \* the operation whose second transaction a core has to send
  fence,    \* a core's barrier: "none", "aw" when its AW is sent, "ar" when both are
  refill,   \* the refill of the I cache: IDLE, WFD1, INV_WFD1 or CTC_INV
  stale,    \* an invalidation was done since the refill was asked for
  ctcq,     \* CTC queue of a core: [msgs, cmplt], cmplt the CRs it has to send
  inv,      \* ctcq_ctc_req: the oldest one not done is at the IFU or MMU
  ar,       \* ar_dfifo of the PIU
  ws, wns,  \* AW registers of the PIU: "st" or "bar", "wo" or "so"
  ac,       \* ac_dfifo of the PIU
  mask,     \* ctcq_mask_snb
  owed,     \* rspq of the PIU and coq of the core: the CRs to come, in order
  bar,      \* bar FSM of the PIU: [st, grant, cmplt]
  kid,      \* queues of the BMBIF, one per target
  sync,     \* CTCQ: IDLE, WFB, WFE or CMPLT
  bar_mid,  \* CTCQ: the core whose barrier it works on
  last_req_sel, two_trans_need,
  reqq,     \* CTCQ: [msg, todo], todo the cores it has still to be sent to
  respq,    \* CTCQ: per id, the cores that have still to answer
  sab,      \* SNB: [k, mid, send, wait, older]
  waq,      \* NCQ: writes not sent to the EBIU
  ncq_bar,  \* NCQ: per core, the answers its barrier waits for
  ebiu      \* EBIU: per core, its writes that memory has not answered

prog  == <<left, half, fence>>
ifu   == <<refill, stale>>
lsu   == <<ctcq, inv>>
aw    == <<ws, wns>>
acs   == <<ac, mask, owed>>
sel   == <<last_req_sel, two_trans_need>>
ctc   == <<sync, bar_mid, sel, reqq, respq>>
nc    == <<waq, ncq_bar, ebiu>>
vars  == <<prog, ifu, lsu, ar, aw, acs, bar, kid, ctc, sab, nc>>

TARGET == {"snb", "ncq", "ctcq"}
RENTRY == 1 .. RSAB
WENTRY == RSAB + 1 .. RSAB + WSAB
ENTRY  == RENTRY \cup WENTRY
Free   == [k |-> "free", mid |-> NONE, send |-> {}, wait |-> {}, older |-> {}]

\* A transaction on AR or AC. An operation is its core, kind and number; id is
\* the entry that waits for the CR.
Msg(k, op, n, id) == [k |-> k, op |-> op, half |-> n, id |-> id]
More(m) == m.op[2] = "ici" /\ m.half = 1   \* address bit 0

Init ==
  /\ left \in BUDGETS /\ half = [c \in CORE |-> NONE] /\ fence = [c \in CORE |-> "none"]
  /\ refill = [c \in CORE |-> "IDLE"] /\ stale = [c \in CORE |-> FALSE]
  /\ ctcq = [c \in CORE |-> <<>>] /\ inv = [c \in CORE |-> FALSE]
  /\ ar = [c \in CORE |-> <<>>]
  /\ ws = [c \in CORE |-> NONE] /\ wns = [c \in CORE |-> NONE]
  /\ ac = [c \in CORE |-> <<>>] /\ mask = [c \in CORE |-> FALSE]
  /\ owed = [c \in CORE |-> <<>>]
  /\ bar = [c \in CORE |-> [st |-> "IDLE", grant |-> {}, cmplt |-> {}]]
  /\ kid = [t \in TARGET |-> <<>>]
  /\ sync = "IDLE" /\ bar_mid = NONE
  /\ last_req_sel = CORE /\ two_trans_need = FALSE
  /\ reqq = <<>> /\ respq = [i \in 1 .. RESPQ |-> {}]
  /\ sab = [e \in ENTRY |-> Free]
  /\ waq = <<>> /\ ncq_bar = [c \in CORE |-> NONE] /\ ebiu = [c \in CORE |-> <<>>]

-----------------------------------------------------------------------------
(***************************************************************************)
(* The core asks.                                                          *)
(***************************************************************************)
Use(c, k) == left[c][k] > 0 /\ left' = [left EXCEPT ![c][k] = @ - 1]

\* The write merge buffer sends an operation when all before it are sent.
SendCtc(c, k) ==
  /\ Use(c, k) /\ half[c] = NONE /\ fence[c] = "none" /\ Len(ar[c]) < AR_DEPTH
  /\ LET m == Msg("ctc", <<c, k, left[c][k]>>, 1, 0) IN
     /\ ar' = [ar EXCEPT ![c] = Append(@, m)]
     /\ half' = [half EXCEPT ![c] = IF More(m) THEN m.op ELSE NONE]
  /\ UNCHANGED <<fence, ifu, lsu, aw, acs, bar, kid, ctc, sab, nc>>

SendSecond(c) ==
  /\ half[c] # NONE /\ Len(ar[c]) < AR_DEPTH
  /\ ar' = [ar EXCEPT ![c] = Append(@, Msg("ctc", half[c], 2, 0))]
  /\ half' = [half EXCEPT ![c] = NONE]
  /\ UNCHANGED <<left, fence, ifu, lsu, aw, acs, bar, kid, ctc, sab, nc>>

Launched(c) == CHOOSE i \in DOMAIN ctcq[c] :
                 /\ ctcq[c][i].cmplt = 0
                 /\ \A j \in 1 .. i - 1 : ctcq[c][j].cmplt # 0
OnIcache(c) == inv[c] /\ ctcq[c][Launched(c)].msgs[1].op[2] = "ici"

\* The bus interface lets the IFU onto AR only when the LSU has nothing for
\* it: never between the transactions of one operation.
ifu_ar_req(c) == half[c] = NONE

Fetch(c) ==
  /\ Use(c, "fetch") /\ refill[c] = "IDLE" /\ ~OnIcache(c)
  /\ ifu_ar_req(c) /\ Len(ar[c]) < AR_DEPTH
  /\ ar' = [ar EXCEPT ![c] = Append(@, Msg("fetch", NONE, 0, 0))]
  /\ refill' = [refill EXCEPT ![c] = "WFD1"] /\ stale' = [stale EXCEPT ![c] = FALSE]
  /\ UNCHANGED <<half, fence, lsu, aw, acs, bar, kid, ctc, sab, nc>>

ChangeFlow(c) ==
  /\ refill[c] = "WFD1" /\ refill' = [refill EXCEPT ![c] = "INV_WFD1"]
  /\ UNCHANGED <<prog, stale, lsu, ar, aw, acs, bar, kid, ctc, sab, nc>>

Store(c) ==
  /\ Use(c, "st") /\ fence[c] = "none" /\ ws[c] = NONE
  /\ ws' = [ws EXCEPT ![c] = "st"]
  /\ UNCHANGED <<half, fence, ifu, lsu, ar, wns, acs, bar, kid, ctc, sab, nc>>

NcWrite(c, k) ==
  /\ Use(c, k) /\ fence[c] = "none" /\ wns[c] = NONE
  /\ wns' = [wns EXCEPT ![c] = k]
  /\ UNCHANGED <<half, fence, ifu, lsu, ar, ws, acs, bar, kid, ctc, sab, nc>>

\* The two halves of a barrier. Nothing the barrier is to cover is sent after
\* its AW, and nothing younger before it is answered.
FenceAw(c) ==
  /\ Use(c, "fence") /\ fence[c] = "none" /\ half[c] = NONE /\ ws[c] = NONE
  /\ fence' = [fence EXCEPT ![c] = "aw"] /\ ws' = [ws EXCEPT ![c] = "bar"]
  /\ UNCHANGED <<half, ifu, lsu, ar, wns, acs, bar, kid, ctc, sab, nc>>

FenceAr(c) ==
  /\ fence[c] = "aw" /\ Len(ar[c]) < AR_DEPTH
  /\ fence' = [fence EXCEPT ![c] = "ar"]
  /\ ar' = [ar EXCEPT ![c] = Append(@, Msg("bar", NONE, 0, 0))]
  /\ UNCHANGED <<left, half, ifu, lsu, aw, acs, bar, kid, ctc, sab, nc>>

-----------------------------------------------------------------------------
(***************************************************************************)
(* Barriers: the bar FSM of the PIU and the BMBIF.                         *)
(***************************************************************************)
BarHalf(c) ==
  bar' = [bar EXCEPT ![c] = [st |-> IF @.st = "IDLE" THEN "WAIT" ELSE "REQ",
                             grant |-> {}, cmplt |-> {}]]

ArBar(c) ==
  /\ ar[c] # <<>> /\ Head(ar[c]).k = "bar"
  /\ ar' = [ar EXCEPT ![c] = Tail(@)] /\ BarHalf(c)
  /\ UNCHANGED <<prog, ifu, lsu, aw, acs, kid, ctc, sab, nc>>

\* The other AW register goes first.
AwBar(c) ==
  /\ ws[c] = "bar" /\ wns[c] = NONE
  /\ ws' = [ws EXCEPT ![c] = NONE] /\ BarHalf(c)
  /\ UNCHANGED <<prog, ifu, lsu, ar, wns, acs, kid, ctc, sab, nc>>

bar_req__again(c, t) == bar[c].st = "REQ"
bar_req(c, t) == bar[c].st = "REQ" /\ t \notin bar[c].grant

\* The BMBIF takes the barrier of one core into the queue of a target. It does
\* not look whether the queue is full.
BmbGrant(c, t) ==
  /\ bar_req(c, t)
  /\ kid' = [kid EXCEPT ![t] = Append(@, c)]
  /\ LET grant == bar[c].grant \cup {t} IN
     bar' = [bar EXCEPT ![c] = [@ EXCEPT !.grant = grant,
                                  !.st = IF grant = TARGET THEN "W_BAR_CMPLT" ELSE "REQ"]]
  /\ UNCHANGED <<prog, ifu, lsu, ar, aw, acs, ctc, sab, nc>>

Cmplt(c, t) == bar' = [bar EXCEPT ![c].cmplt = @ \cup {t}]
Pop(t) == kid' = [kid EXCEPT ![t] = Tail(@)]

ebiu_no_op(c) == ebiu[c] = <<>>

BarDone(c) ==
  /\ bar[c].st = "W_BAR_CMPLT" /\ bar[c].cmplt = TARGET /\ ebiu_no_op(c)
  /\ bar' = [bar EXCEPT ![c].st = "RESP"]
  /\ UNCHANGED <<prog, ifu, lsu, ar, aw, acs, kid, ctc, sab, nc>>

\* R and B have been taken by the core.
BarResp(c) ==
  /\ bar[c].st = "RESP" /\ bar' = [bar EXCEPT ![c].st = "IDLE"]
  /\ fence' = [fence EXCEPT ![c] = "none"]
  /\ UNCHANGED <<left, half, ifu, lsu, ar, aw, acs, kid, ctc, sab, nc>>

-----------------------------------------------------------------------------
(***************************************************************************)
(* The CTC queue of the CIU.                                               *)
(***************************************************************************)
\* It takes a barrier only between operations, and works on one at a time. With
\* no operation taken since the last barrier there is nothing to wait for.
bar_req_vld == kid["ctcq"] # <<>> /\ ~two_trans_need

bar_grant == bar_req_vld /\ sync \in {"IDLE", "WFB"}

CtcBar ==
  /\ bar_grant
  /\ bar_mid' = Head(kid["ctcq"]) /\ Pop("ctcq")
  /\ sync' = IF sync = "IDLE" THEN "CMPLT" ELSE "WFE"
  /\ UNCHANGED <<prog, ifu, lsu, ar, aw, acs, bar, sel, reqq, respq, sab, nc>>

AllAnswered__sent == reqq = <<>>
AllAnswered == reqq = <<>> /\ \A i \in DOMAIN respq : respq[i] = {}

CtcEmpty ==
  /\ sync = "WFE" /\ AllAnswered
  /\ sync' = "CMPLT"
  /\ UNCHANGED <<prog, ifu, lsu, ar, aw, acs, bar, kid, bar_mid, sel, reqq, respq, sab, nc>>

CtcCmplt ==
  /\ sync = "CMPLT"
  /\ sync' = "IDLE" /\ Cmplt(bar_mid, "ctcq")
  /\ UNCHANGED <<prog, ifu, lsu, ar, aw, acs, kid, bar_mid, sel, reqq, respq, sab, nc>>

sync_fsm_stall == bar_grant \/ sync \in {"WFE", "CMPLT"}

\* The lowest id that is free. The last one is kept for the external bus.
RespqFree == {i \in 1 .. RESPQ - 1 : respq[i] = {}}
respq_create_ptr == CHOOSE i \in RespqFree : \A j \in RespqFree : i <= j

\* After the first transaction of an operation, only its core may go on.
LastReqSel__all(c, m) == CORE
LastReqSel(c, m) == IF More(m) THEN {c} ELSE CORE

CtcCreate(c) ==
  /\ ar[c] # <<>> /\ Head(ar[c]).k = "ctc" /\ c \in last_req_sel
  /\ ~sync_fsm_stall /\ RespqFree # {} /\ Len(reqq) < REQQ
  /\ LET m == [Head(ar[c]) EXCEPT !.id = respq_create_ptr] IN
     /\ reqq' = Append(reqq, [msg |-> m, todo |-> CORE])
     /\ respq' = [respq EXCEPT ![m.id] = CORE]
     /\ last_req_sel' = LastReqSel(c, m) /\ two_trans_need' = More(m)
  /\ sync' = "WFB"
  /\ ar' = [ar EXCEPT ![c] = Tail(@)]
  /\ UNCHANGED <<prog, ifu, lsu, aw, acs, bar, kid, bar_mid, sab, nc>>

\* Each PIU takes the requests in their order; a request that all have taken
\* leaves, the oldest first.
RemoveTaken(q) == IF Head(q).todo = {} THEN Tail(q) ELSE q

\* Between two transactions of one operation no snoop enters ac_dfifo.
Mask__never(m) == FALSE
Mask(m) == More(m)

AcCtc(c) ==
  /\ Len(ac[c]) < AC_DEPTH
  /\ \E i \in DOMAIN reqq :
       /\ c \in reqq[i].todo /\ \A j \in 1 .. i - 1 : c \notin reqq[j].todo
       /\ ac' = [ac EXCEPT ![c] = Append(@, reqq[i].msg)]
       /\ mask' = [mask EXCEPT ![c] = Mask(reqq[i].msg)]
       /\ reqq' = RemoveTaken([reqq EXCEPT ![i].todo = @ \ {c}])
  /\ UNCHANGED <<prog, ifu, lsu, ar, aw, owed, bar, kid, sync, bar_mid, sel, respq, sab, nc>>

-----------------------------------------------------------------------------
(***************************************************************************)
(* The snoop buffer.                                                       *)
(***************************************************************************)
\* A request takes the lowest entry that is free.
Create(entries, r) ==
  \E e \in entries :
    /\ sab[e] = Free /\ \A f \in entries : f < e => sab[f] # Free
    /\ sab' = [sab EXCEPT ![e] = r]

\* A request of core c, which snoops some of the other cores.
Enter(c, k, entries) ==
  \E S \in SUBSET (CORE \ {c}) :
    Create(entries, [k |-> k, mid |-> c, send |-> S, wait |-> S, older |-> {}])

SabFetch(c) ==
  /\ ar[c] # <<>> /\ Head(ar[c]).k = "fetch" /\ Enter(c, "fetch", RENTRY)
  /\ ar' = [ar EXCEPT ![c] = Tail(@)]
  /\ UNCHANGED <<prog, ifu, lsu, aw, acs, bar, kid, ctc, nc>>

SabStore(c) ==
  /\ ws[c] = "st" /\ wns[c] = NONE /\ Enter(c, "st", WENTRY)
  /\ ws' = [ws EXCEPT ![c] = NONE]
  /\ UNCHANGED <<prog, ifu, lsu, ar, wns, acs, bar, kid, ctc, nc>>

\* A barrier waits for all requests that are in the buffer, of any core, but
\* not for other barriers.
BarDepd == {f \in ENTRY : sab[f].k \notin {"free", "bar"}}

SabBar ==
  /\ kid["snb"] # <<>> /\ Pop("snb")
  /\ Create(WENTRY, [k |-> "bar", mid |-> Head(kid["snb"]),
                     send |-> {}, wait |-> {}, older |-> BarDepd])
  /\ UNCHANGED <<prog, ifu, lsu, ar, aw, acs, bar, ctc, nc>>

AcSnoop(c, e) ==
  /\ c \in sab[e].send /\ ~mask[c] /\ Len(ac[c]) < AC_DEPTH
  /\ ac' = [ac EXCEPT ![c] = Append(@, Msg("snp", NONE, 0, e))]
  /\ sab' = [sab EXCEPT ![e].send = @ \ {c}]
  /\ UNCHANGED <<prog, ifu, lsu, ar, aw, mask, owed, bar, kid, ctc, nc>>

Leave(e) == sab' = [f \in ENTRY |->
                     IF f = e THEN Free ELSE [sab[f] EXCEPT !.older = @ \ {e}]]

SabStoreDone(e) ==
  /\ sab[e].k = "st" /\ sab[e].wait = {} /\ Leave(e)
  /\ UNCHANGED <<prog, ifu, lsu, ar, aw, acs, bar, kid, ctc, nc>>

\* The IFU takes no data while an invalidation holds the refill. In WFD1 they
\* go into the I cache.
SabFetchDone(e) ==
  /\ sab[e].k = "fetch" /\ sab[e].wait = {} /\ refill[sab[e].mid] # "CTC_INV"
  /\ Leave(e) /\ refill' = [refill EXCEPT ![sab[e].mid] = "IDLE"]
  /\ UNCHANGED <<prog, stale, lsu, ar, aw, acs, bar, kid, ctc, nc>>

SabBarDone(e) ==
  /\ sab[e].k = "bar" /\ sab[e].older = {}
  /\ Leave(e) /\ Cmplt(sab[e].mid, "snb")
  /\ UNCHANGED <<prog, ifu, lsu, ar, aw, acs, kid, ctc, nc>>

-----------------------------------------------------------------------------
(***************************************************************************)
(* The non-cacheable queue and its writes in the EBIU.                     *)
(***************************************************************************)
NcqCreate(c) ==
  /\ wns[c] # NONE /\ kid["ncq"] = <<>> /\ Len(waq) < NCQ_DEPTH
  /\ waq' = Append(waq, [mid |-> c, k |-> wns[c]])
  /\ wns' = [wns EXCEPT ![c] = NONE]
  /\ UNCHANGED <<prog, ifu, lsu, ar, ws, acs, bar, kid, ctc, sab, ncq_bar, ebiu>>

\* The strongly ordered writes of all cores that are on their way to memory.
SoOut == UNION {{c} \X {i \in DOMAIN ebiu[c] : ebiu[c][i] = "so"} : c \in CORE}

\* The writes of all cores that the NCQ has not answered.
total_aw_ostd_cnt == Len(waq) + Cardinality(SoOut)

\* A barrier counts the answers that are due when it comes, and then every
\* answer, whether to one of these writes or to a younger one.
NcqBar ==
  /\ kid["ncq"] # <<>> /\ Pop("ncq")
  /\ ncq_bar' = [ncq_bar EXCEPT ![Head(kid["ncq"])] = total_aw_ostd_cnt]
  /\ UNCHANGED <<prog, ifu, lsu, ar, aw, acs, bar, ctc, sab, waq, ebiu>>

Answered == ncq_bar' = [c \in CORE |-> IF ncq_bar[c] \in {NONE, 0} THEN ncq_bar[c]
                                       ELSE ncq_bar[c] - 1]

NcqBarDone(c) ==
  /\ ncq_bar[c] = 0 /\ ncq_bar' = [ncq_bar EXCEPT ![c] = NONE] /\ Cmplt(c, "ncq")
  /\ UNCHANGED <<prog, ifu, lsu, ar, aw, acs, kid, ctc, sab, waq, ebiu>>

\* The EBIU answers a weakly ordered write when it has it, a strongly ordered
\* one when memory has.
EbiuTake ==
  /\ waq # <<>> /\ waq' = Tail(waq)
  /\ ebiu' = [ebiu EXCEPT ![Head(waq).mid] = Append(@, Head(waq).k)]
  /\ IF Head(waq).k = "wo" THEN Answered ELSE UNCHANGED ncq_bar
  /\ UNCHANGED <<prog, ifu, lsu, ar, aw, acs, bar, kid, ctc, sab>>

MemDone(c) ==
  /\ ebiu[c] # <<>> /\ ebiu' = [ebiu EXCEPT ![c] = Tail(@)]
  /\ IF Head(ebiu[c]) = "so" THEN Answered ELSE UNCHANGED ncq_bar
  /\ UNCHANGED <<prog, ifu, lsu, ar, aw, acs, bar, kid, ctc, sab, waq>>

-----------------------------------------------------------------------------
(***************************************************************************)
(* The core obeys.                                                         *)
(***************************************************************************)
\* An entry of the core's queue is complete with the transactions its first
\* one announces; the next transaction goes to the entry that is not.
Complete(q) == Len(q.msgs) = IF More(q.msgs[1]) THEN 2 ELSE 1
Waiting(c) == ctcq[c] # <<>> /\ ~Complete(ctcq[c][Len(ctcq[c])])

AcTakeCtc(c) ==
  /\ ac[c] # <<>> /\ Head(ac[c]).k = "ctc" /\ Len(owed[c]) < RSPQ
  /\ IF Waiting(c)
       THEN ctcq' = [ctcq EXCEPT ![c][Len(ctcq[c])].msgs = Append(@, Head(ac[c]))]
       ELSE /\ Len(ctcq[c]) < CTCQ
            /\ ctcq' = [ctcq EXCEPT ![c] = Append(@, [msgs |-> <<Head(ac[c])>>, cmplt |-> 0])]
  /\ owed' = [owed EXCEPT ![c] = Append(@, Head(ac[c]))]
  /\ ac' = [ac EXCEPT ![c] = Tail(@)]
  /\ UNCHANGED <<prog, ifu, inv, ar, aw, mask, bar, kid, ctc, sab, nc>>

AcTakeSnoop(c) ==
  /\ ac[c] # <<>> /\ Head(ac[c]).k = "snp" /\ Len(owed[c]) < RSPQ
  /\ Len(SelectSeq(owed[c], LAMBDA m : m.k = "snp")) < SNQ
  /\ owed' = [owed EXCEPT ![c] = Append(@, Head(ac[c]))]
  /\ ac' = [ac EXCEPT ![c] = Tail(@)]
  /\ UNCHANGED <<prog, ifu, lsu, ar, aw, mask, bar, kid, ctc, sab, nc>>

Launch(c) ==
  /\ ~inv[c] /\ \E i \in DOMAIN ctcq[c] : ctcq[c][i].cmplt = 0
  /\ Complete(ctcq[c][Launched(c)])
  /\ inv' = [inv EXCEPT ![c] = TRUE]
  /\ UNCHANGED <<prog, ifu, ctcq, ar, aw, acs, bar, kid, ctc, sab, nc>>

\* A refill whose data did not come yet makes way for the invalidation, and
\* drops the data afterwards.
CtcInv(c) ==
  /\ OnIcache(c) /\ refill[c] \in {"WFD1", "INV_WFD1"}
  /\ refill' = [refill EXCEPT ![c] = "CTC_INV"]
  /\ UNCHANGED <<prog, stale, lsu, ar, aw, acs, bar, kid, ctc, sab, nc>>

IcacheFree(c) == refill[c] # "WFD1"   \* not icache_refill_on, or CTC_INV

AfterInv__resume(s) == IF s = "CTC_INV" THEN "WFD1" ELSE s
AfterInv(s) == IF s = "CTC_INV" THEN "INV_WFD1" ELSE s

InvDone(c) ==
  /\ inv[c] /\ (OnIcache(c) => IcacheFree(c))
  /\ ctcq' = [ctcq EXCEPT ![c][Launched(c)].cmplt = Len(ctcq[c][Launched(c)].msgs)]
  /\ inv' = [inv EXCEPT ![c] = FALSE]
  /\ IF OnIcache(c)
       THEN /\ refill' = [refill EXCEPT ![c] = AfterInv(@)]
            /\ stale' = [stale EXCEPT ![c] = refill[c] # "IDLE"]
       ELSE UNCHANGED ifu
  /\ UNCHANGED <<prog, ar, aw, acs, bar, kid, ctc, sab, nc>>

\* The CR the core owes first. An operation of two transactions has two.
CrCtc(c) ==
  /\ owed[c] # <<>> /\ Head(owed[c]).k = "ctc"
  /\ ctcq[c] # <<>> /\ Head(ctcq[c]).cmplt > 0
  /\ ctcq' = [ctcq EXCEPT ![c] = IF Head(@).cmplt = 1 THEN Tail(@) ELSE [@ EXCEPT ![1].cmplt = 1]]
  /\ respq' = [respq EXCEPT ![Head(owed[c]).id] = @ \ {c}]
  /\ owed' = [owed EXCEPT ![c] = Tail(@)]
  /\ UNCHANGED <<prog, ifu, inv, ar, aw, ac, mask, bar, kid, sync, bar_mid, sel, reqq, sab, nc>>

CrSnoop(c) ==
  /\ owed[c] # <<>> /\ Head(owed[c]).k = "snp"
  /\ sab' = [sab EXCEPT ![Head(owed[c]).id].wait = @ \ {c}]
  /\ owed' = [owed EXCEPT ![c] = Tail(@)]
  /\ UNCHANGED <<prog, ifu, lsu, ar, aw, ac, mask, bar, kid, ctc, nc>>

-----------------------------------------------------------------------------
\* What the program chooses to ask, and what then follows by itself.
Ask == \E c \in CORE : \/ \E k \in {"ici", "tlb"} : SendCtc(c, k)
                       \/ Fetch(c) \/ ChangeFlow(c)
                       \/ Store(c) \/ \E k \in {"wo", "so"} : NcWrite(c, k)
                       \/ FenceAw(c)

Serve ==
  \/ \E c \in CORE :
       \/ SendSecond(c) \/ FenceAr(c)
       \/ ArBar(c) \/ AwBar(c) \/ \E t \in TARGET : BmbGrant(c, t)
       \/ BarDone(c) \/ BarResp(c)
       \/ CtcCreate(c) \/ AcCtc(c)
       \/ SabFetch(c) \/ SabStore(c) \/ \E e \in ENTRY : AcSnoop(c, e)
       \/ NcqCreate(c) \/ NcqBarDone(c) \/ MemDone(c)
       \/ AcTakeCtc(c) \/ AcTakeSnoop(c) \/ Launch(c) \/ CtcInv(c) \/ InvDone(c)
       \/ CrCtc(c) \/ CrSnoop(c)
  \/ CtcBar \/ CtcEmpty \/ CtcCmplt
  \/ SabBar \/ \E e \in ENTRY : SabStoreDone(e) \/ SabFetchDone(e) \/ SabBarDone(e)
  \/ NcqBar \/ EbiuTake

Next == Ask \/ Serve

Spec == Init /\ [][Next]_vars

\* The hardware goes on by itself. What is asked for is bounded, so that no
\* arbiter has to be fair.
FairSpec == Spec /\ WF_vars(Serve)

-----------------------------------------------------------------------------
\* The operations of c that some core has still to carry out.
Unperformed(c) ==
  \/ \E i \in DOMAIN ar[c] : ar[c][i].k = "ctc"
  \/ \E i \in DOMAIN reqq : reqq[i].msg.op[1] = c
  \/ \E d \in CORE : \/ \E i \in DOMAIN ac[d] : ac[d][i].k = "ctc" /\ ac[d][i].op[1] = c
                     \/ \E i \in DOMAIN ctcq[d] : /\ ctcq[d][i].cmplt = 0
                                                  /\ ctcq[d][i].msgs[1].op[1] = c

\* When a barrier is answered, every core has carried out the operations its
\* core sent before, the snoop buffer its stores, and memory has its
\* non-cacheable writes, though the operations and the weakly ordered writes
\* were answered long before, and the NCQ counts answers of any core.
FenceCovers ==
  \A c \in CORE : bar[c].st = "RESP" =>
    /\ ~Unperformed(c)
    /\ \A e \in ENTRY : ~(sab[e].k = "st" /\ sab[e].mid = c)
    /\ ebiu[c] = <<>> /\ wns[c] = NONE /\ \A i \in DOMAIN waq : waq[i].mid # c

\* The two transactions that a core puts together are those of one operation,
\* in their order, whatever operations and snoops the cores send meanwhile.
PairsMeet ==
  \A c \in CORE : \A i \in DOMAIN ctcq[c] :
    LET msgs == ctcq[c][i].msgs IN
      /\ msgs[1].half = 1
      /\ Len(msgs) = 2 => msgs[2].op = msgs[1].op /\ msgs[2].half = 2

\* The queues of the BMBIF, which are filled without a test, have room: a core
\* has one barrier at a time and asks each target once.
BarRoom == \A t \in TARGET : Len(kid[t]) <= BMB_DEPTH

\* No line goes into the I cache that was asked for before an invalidation and
\* came after it: it may be the one the invalidation was to remove.
NoStaleLine == \A c \in CORE : refill[c] = "WFD1" => ~stale[c]

\* All that was asked for comes to its end, the barriers last: operations,
\* snoops, refills and barriers never wait for each other in a circle, though
\* CR responses keep the order of AC, AC is closed to snoops between two
\* transactions, and an invalidation needs the I cache that a refill is using.
Settled ==
  /\ half = [c \in CORE |-> NONE] /\ fence = [c \in CORE |-> "none"]
  /\ refill = [c \in CORE |-> "IDLE"]
  /\ \A c \in CORE : <<ar[c], ac[c], owed[c], ctcq[c], ebiu[c]>> = <<<<>>, <<>>, <<>>, <<>>, <<>>>>
  /\ reqq = <<>> /\ waq = <<>> /\ sab = [e \in ENTRY |-> Free]

AllSettles == <>[]Settled
=============================================================================
