---------------------------- MODULE ExternalBus -----------------------------
(***************************************************************************)
(* The way from the coherence unit to memory: the CIU victim buffer (VB),  *)
(* the interface for the reads of the snoop buffer (ebiuif) and the two    *)
(* channels of the external bus interface (EBIU), with what the snoop      *)
(* buffer (SNB) and the non-cacheable queue (NCQ) keep for them.           *)
(*                                                                         *)
(* A write of a line is complete for the SNB as soon as its data are in    *)
(* the VB, and a weakly ordered non-cacheable write as soon as its data    *)
(* are in the EBIU.  Both reach memory later, on a bus that orders neither *)
(* reads with writes nor writes of different ids.  What keeps an access to *)
(* the same place behind them is a comparison of index bits in three       *)
(* tables: the VB, cawt (lines) and ncwt (non-cacheable writes).           *)
(*                                                                         *)
(* A request is its address; its data are the address again, so that the   *)
(* properties can tell whose data they are.  A burst is one beat.  The     *)
(* arbiters (vb_aw_prio, ebiu_ar_prio, aw_vb_sel, ar_snb_sel) choose any   *)
(* of the requests they could choose.  The way of read data (rfifo, rready *)
(* and rdq) repeats that of write responses and is left out, and so are    *)
(* registers that only cut timing (ebiu_w_buf, wdq, and the EBIU's         *)
(* cur_waddr_buf, cur_wdata_buf, cur_raddr_buf): what they hold is still   *)
(* before them here, or on the bus already.                                *)
(*                                                                         *)
(* A definition with a double underscore in its name is a faulty variant of *)
(* the definition after it: a mistake that a property has to notice.       *)
(***************************************************************************)
EXTENDS Naturals, Sequences, FiniteSets

CONSTANTS
  BANK,      \* the banks of the snoop buffer (2 in the code)
  LINE,      \* lines of cacheable memory
  WO,        \* weakly ordered non-cacheable addresses
  CORE,      \* cores that write strongly ordered (SO) addresses
  NONE,      \* no request
  HOME,      \* the bank of a line
  INDEX,     \* address bits 13:6 of a line or a weakly ordered address
  CAWT,      \* entries of cawt (32 in the code)
  NCWT,      \* entries of ncwt (16 in the code)
  WOQ_DEPTH, \* write data order queue (16 in the code)
  NCQ_DEPTH, \* waq and raq of the NCQ (2 in the code)
  SO_MAX,    \* SO writes of a core on the bus (8 in the code)
  MAX_SO     \* bounds the SO requests of a core under way

ASSUME SizeAssumption ==
  /\ CAWT \in Nat \ {0} /\ NCWT \in Nat \ {0} /\ WOQ_DEPTH \in Nat \ {0}
  /\ NCQ_DEPTH \in Nat \ {0} /\ SO_MAX \in Nat \ {0} /\ MAX_SO \in Nat
  /\ NONE \notin LINE \cup WO \cup CORE \cup {"wr", "rd"}

(* An address is of one kind: the page it is in says which.  The bank of a *)
(* line is one of its address bits.                                        *)
ASSUME AddressAssumption ==
  /\ HOME \in [LINE -> BANK]
  /\ LINE \cap WO = {} /\ (LINE \cup WO) \cap CORE = {}

VARIABLES
  line,          \* per line, the access the SNB has under way: none, "wr", "rd"
  wo,            \* per weakly ordered address, the same for the core that uses it
  so,            \* per core, its SO requests not answered, the oldest first:
                 \* "wr", "fail" (an exclusive write that has failed), "rd"
  ebiu_aw_buf,   \* per bank of the SNB: a write of a line
  ebiu_sel_fifo, \* per bank: [vid, line] of writes whose data are still due
  ebiu_ar_buf,   \* per bank: a read of a line
  vb,            \* the two entries of the VB: [aw, en, w]
  vb_ptr,        \* their pointers: create, req and pop
  waq,           \* NCQ: writes, [addr, kind], kind "wo", "so" or "fail"
  woq_ncq,       \* NCQ: writes whose data have not left it (its woq)
  raq,           \* NCQ: reads, [addr, kind]
  woq,           \* EBIU: [source, issue] of the writes whose data are due
  cawt,          \* EBIU: writes of lines that memory has not answered
  cawt_create_ptr,
  ncwt,          \* EBIU: weakly ordered writes, [addr, resp_ready, resp_done, bus_done]
  ncwt_ptr,      \* their pointers: create, wdata and bresp
  so_bus_cnt,    \* EBIU: SO writes per core that memory has not answered
  so_ex_fail,    \* EBIU: per core "IDLE", "WFD" or "BVLD"
  bfifo,         \* EBIU: ids of responses
  bready,        \* ebiu_pad_bready
  bus_aw,        \* bus: [id, addr] whose data did not come
  bus_wr,        \* bus: [id, addr, data] not answered, in order of arrival
  bus_rd         \* bus: [kind, addr] not answered

snb  == <<ebiu_aw_buf, ebiu_sel_fifo>>
ncq  == <<waq, woq_ncq>>
nct  == <<ncwt, ncwt_ptr>>
sos  == <<so_bus_cnt, so_ex_fail>>
cat  == <<cawt, cawt_create_ptr>>
wbus == <<bus_aw, bus_wr>>
rds  == <<ebiu_ar_buf, raq, bus_rd>>
bch  == <<bfifo, bready>>
vars == <<line, wo, so, snb, vb, vb_ptr, ncq, rds, woq, cat, nct, sos, bch, wbus>>

VID == 0 .. 1
EmptyVB == [aw |-> NONE, en |-> FALSE, w |-> NONE]
EmptyNCWT == [addr |-> NONE, resp_ready |-> FALSE, resp_done |-> FALSE,
              bus_done |-> FALSE]

Init ==
  /\ line = [l \in LINE |-> NONE] /\ wo = [a \in WO |-> NONE]
  /\ so = [c \in CORE |-> <<>>]
  /\ ebiu_aw_buf = [b \in BANK |-> NONE]
  /\ ebiu_sel_fifo = [b \in BANK |-> <<>>] /\ ebiu_ar_buf = [b \in BANK |-> NONE]
  /\ vb = [v \in VID |-> EmptyVB]
  /\ vb_ptr = [create |-> 0, req |-> 0, pop |-> 0]
  /\ waq = <<>> /\ woq_ncq = <<>> /\ raq = <<>> /\ woq = <<>>
  /\ cawt = [k \in 0 .. CAWT - 1 |-> NONE] /\ cawt_create_ptr = 0
  /\ ncwt = [k \in 0 .. NCWT - 1 |-> EmptyNCWT]
  /\ ncwt_ptr = [create |-> 0, wdata |-> 0, bresp |-> 0]
  /\ so_bus_cnt = [c \in CORE |-> 0] /\ so_ex_fail = [c \in CORE |-> "IDLE"]
  /\ bfifo = <<>> /\ bready = TRUE
  /\ bus_aw = <<>> /\ bus_wr = <<>> /\ bus_rd = {}

-----------------------------------------------------------------------------
(***************************************************************************)
(* The SNB.  It has one access to a line under way at a time               *)
(* (MemOneAtATime of SnoopBuffer).                                         *)
(***************************************************************************)
SnbWrite(l) ==
  /\ line[l] = NONE /\ ebiu_aw_buf[HOME[l]] = NONE
  /\ line' = [line EXCEPT ![l] = "wr"]
  /\ ebiu_aw_buf' = [ebiu_aw_buf EXCEPT ![HOME[l]] = l]
  /\ UNCHANGED <<wo, so, ebiu_sel_fifo, vb, vb_ptr, ncq, rds, woq,
                 cat, nct, sos, bch, wbus>>

SnbRead(l) ==
  /\ line[l] = NONE /\ ebiu_ar_buf[HOME[l]] = NONE
  /\ line' = [line EXCEPT ![l] = "rd"]
  /\ ebiu_ar_buf' = [ebiu_ar_buf EXCEPT ![HOME[l]] = l]
  /\ UNCHANGED <<wo, so, snb, vb, vb_ptr, ncq, raq, bus_rd, woq,
                 cat, nct, sos, bch, wbus>>

vb_aw_full__data == vb[vb_ptr.create].w # NONE
vb_aw_full == vb[vb_ptr.create].aw # NONE

sel_fifo_full(b) == Len(ebiu_sel_fifo[b]) = 2

(* The VB takes the address of a bank's write into the entry create points *)
(* to.  The bank hears of it only where its select FIFO has room: where it *)
(* had none, the bank would present the same write again.                  *)
VbAwGrant(b) ==
  /\ ebiu_aw_buf[b] # NONE /\ ~vb_aw_full
  /\ vb' = [vb EXCEPT ![vb_ptr.create] = [@ EXCEPT !.aw = ebiu_aw_buf[b], !.en = TRUE]]
  /\ vb_ptr' = [vb_ptr EXCEPT !.create = 1 - @]
  /\ IF sel_fifo_full(b) THEN UNCHANGED <<ebiu_aw_buf, ebiu_sel_fifo>>
     ELSE /\ ebiu_aw_buf' = [ebiu_aw_buf EXCEPT ![b] = NONE]
          /\ ebiu_sel_fifo' = [ebiu_sel_fifo EXCEPT ![b] =
               Append(@, [vid |-> vb_ptr.create, line |-> ebiu_aw_buf[b]])]
  /\ UNCHANGED <<line, wo, so, ncq, rds, woq, cat, nct, sos, bch, wbus>>

(* The VB always takes data, into the entry they name; the SNB's entry is  *)
(* complete (sab_memw_cmplt).                                              *)
put_entry__create(w) == 1 - vb_ptr.create
put_entry(w) == w.vid

VbWGrant(b) ==
  /\ ebiu_sel_fifo[b] # <<>>
  /\ LET w == Head(ebiu_sel_fifo[b])
     IN  /\ vb' = [vb EXCEPT ![put_entry(w)].w = w.line]
         /\ line' = [line EXCEPT ![w.line] = NONE]
  /\ ebiu_sel_fifo' = [ebiu_sel_fifo EXCEPT ![b] = Tail(@)]
  /\ UNCHANGED <<wo, so, ebiu_aw_buf, vb_ptr, ncq, rds, woq, cat, nct, sos, bch, wbus>>

(* A line the walk over the L2 evicts comes with its data.                 *)
L2Victim(l) ==
  /\ line[l] = NONE /\ ~vb_aw_full
  /\ vb' = [vb EXCEPT ![vb_ptr.create] = [aw |-> l, en |-> TRUE, w |-> l]]
  /\ vb_ptr' = [vb_ptr EXCEPT !.create = 1 - @]
  /\ UNCHANGED <<line, wo, so, snb, ncq, rds, woq, cat, nct, sos, bch, wbus>>

-----------------------------------------------------------------------------
(***************************************************************************)
(* The cores and the NCQ.  A core waits for the answer to an access of a   *)
(* weakly ordered address before the next one; it has SO writes or one SO  *)
(* read under way, never both (wmb_rb_so_pending, rb_wmb_so_pending).      *)
(***************************************************************************)
NcqWrite(w) ==
  /\ Len(waq) < NCQ_DEPTH
  /\ waq' = Append(waq, w) /\ woq_ncq' = Append(woq_ncq, w)
  /\ UNCHANGED <<line, snb, vb, vb_ptr, rds, woq, cat, nct, sos, bch, wbus>>

NcqRead(r) ==
  /\ Len(raq) < NCQ_DEPTH
  /\ raq' = Append(raq, r)
  /\ UNCHANGED <<line, snb, vb, vb_ptr, ncq, ebiu_ar_buf, bus_rd,
                 woq, cat, nct, sos, bch, wbus>>

WoWrite(a) ==
  /\ wo[a] = NONE /\ wo' = [wo EXCEPT ![a] = "wr"] /\ UNCHANGED so
  /\ NcqWrite([addr |-> a, kind |-> "wo"])

WoRead(a) ==
  /\ wo[a] = NONE /\ wo' = [wo EXCEPT ![a] = "rd"] /\ UNCHANGED so
  /\ NcqRead([addr |-> a, kind |-> "wo"])

SoWrite(c, fail) ==
  /\ Len(so[c]) < MAX_SO
  /\ so[c] # <<"rd">>
  /\ so' = [so EXCEPT ![c] = Append(@, IF fail THEN "fail" ELSE "wr")]
  /\ NcqWrite([addr |-> c, kind |-> IF fail THEN "fail" ELSE "so"])
  /\ UNCHANGED wo

SoRead(c) ==
  /\ so[c] = <<>> /\ so' = [so EXCEPT ![c] = <<"rd">>] /\ UNCHANGED wo
  /\ NcqRead([addr |-> c, kind |-> "so"])

-----------------------------------------------------------------------------
(***************************************************************************)
(* The write channel of the EBIU: addresses.  An id names the entry of     *)
(* cawt or ncwt, or the core of an SO write.                               *)
(***************************************************************************)
SameIndex(a, b) == a # NONE /\ INDEX[a] = INDEX[b]

cawt_full__none == FALSE
cawt_full == cawt[cawt_create_ptr] # NONE
ncwt_full == ncwt[ncwt_ptr.create].addr # NONE
woq_full == Len(woq) = WOQ_DEPTH

ca_hit_cawt__none(l) == FALSE
ca_hit_cawt(l) == \E k \in DOMAIN cawt : SameIndex(cawt[k], l)
nc_depd_ncwt(a) == \E k \in DOMAIN ncwt : SameIndex(ncwt[k].addr, a)

CreateWr(source, issue, id, addr) ==
  /\ ~woq_full
  /\ woq' = Append(woq, [source |-> source, issue |-> issue])
  /\ bus_aw' = IF issue THEN Append(bus_aw, [id |-> id, addr |-> addr]) ELSE bus_aw
  /\ UNCHANGED bus_wr

EbiuVbAwGrant ==
  LET v == vb_ptr.req
      l == vb[v].aw
  IN  /\ l # NONE /\ vb[v].en
      /\ ~cawt_full /\ ~ca_hit_cawt(l)
      /\ CreateWr("vb", TRUE, <<"vb", cawt_create_ptr>>, l)
      /\ vb' = [vb EXCEPT ![v].en = FALSE]
      /\ vb_ptr' = [vb_ptr EXCEPT !.req = 1 - @]
      /\ cawt' = [cawt EXCEPT ![cawt_create_ptr] = l]
      /\ cawt_create_ptr' = (cawt_create_ptr + 1) % CAWT
      /\ UNCHANGED <<line, wo, so, snb, ncq, rds, nct, sos, bch>>

NcqWoAwGrant ==
  /\ waq # <<>> /\ Head(waq).kind = "wo"
  /\ LET a == Head(waq).addr
         k == ncwt_ptr.create
     IN  /\ ~ncwt_full /\ ~nc_depd_ncwt(a)
         /\ CreateWr("ncq", TRUE, <<"wo", k>>, a)
         /\ ncwt' = [ncwt EXCEPT ![k] = [EmptyNCWT EXCEPT !.addr = a]]
         /\ ncwt_ptr' = [ncwt_ptr EXCEPT !.create = (@ + 1) % NCWT]
  /\ waq' = Tail(waq)
  /\ UNCHANGED <<line, wo, so, snb, vb, vb_ptr, woq_ncq, rds, cat, sos, bch>>

(* A failed exclusive write takes a place in woq for its data, which then  *)
(* go nowhere; it is answered here, once the core's SO writes are.         *)
ncq_so_ex_fail_grant__busy(c) == so_ex_fail[c] = "IDLE"
ncq_so_ex_fail_grant(c) == so_ex_fail[c] = "IDLE" /\ so_bus_cnt[c] = 0
ncq_so_bus_grant(c) == so_ex_fail[c] = "IDLE" /\ so_bus_cnt[c] < SO_MAX

NcqSoAwGrant ==
  /\ waq # <<>> /\ Head(waq).kind \in {"so", "fail"}
  /\ LET c == Head(waq).addr
     IN  \/ /\ Head(waq).kind = "fail" /\ ncq_so_ex_fail_grant(c)
            /\ CreateWr("ncq", FALSE, <<"so", c>>, c)
            /\ so_ex_fail' = [so_ex_fail EXCEPT ![c] = "WFD"]
            /\ UNCHANGED so_bus_cnt
         \/ /\ Head(waq).kind = "so" /\ ncq_so_bus_grant(c)
            /\ CreateWr("ncq", TRUE, <<"so", c>>, c)
            /\ so_bus_cnt' = [so_bus_cnt EXCEPT ![c] = @ + 1]
            /\ UNCHANGED so_ex_fail
  /\ waq' = Tail(waq)
  /\ UNCHANGED <<line, wo, so, snb, vb, vb_ptr, woq_ncq, rds, cat, nct, bch>>

(***************************************************************************)
(* The write channel: data, in the order of the addresses.                 *)
(***************************************************************************)
w_source__any(s) == woq # <<>>
w_source(s) == woq # <<>> /\ Head(woq).source = s

(* On the bus the data belong to the oldest address that has none.         *)
TakeData(d) ==
  /\ woq' = Tail(woq)
  /\ IF Head(woq).issue
     THEN /\ bus_wr' = Append(bus_wr, [id |-> Head(bus_aw).id, addr |-> Head(bus_aw).addr,
                                        data |-> d])
          /\ bus_aw' = Tail(bus_aw)
     ELSE UNCHANGED wbus

EbiuVbWGrant ==
  LET v == vb_ptr.pop
  IN  /\ vb[v].w # NONE /\ w_source("vb")
      /\ TakeData(vb[v].w)
      /\ vb' = [vb EXCEPT ![v] = EmptyVB]
      /\ vb_ptr' = [vb_ptr EXCEPT !.pop = 1 - @]
      /\ UNCHANGED <<line, wo, so, snb, ncq, rds, cat, nct, sos, bch>>

NcqWGrant ==
  /\ woq_ncq # <<>> /\ w_source("ncq")
  /\ LET w == Head(woq_ncq)
     IN  /\ TakeData(w.addr)
         /\ IF w.kind = "wo"
            THEN /\ ncwt' = [ncwt EXCEPT ![ncwt_ptr.wdata].resp_ready = TRUE]
                 /\ ncwt_ptr' = [ncwt_ptr EXCEPT !.wdata = (@ + 1) % NCWT]
                 /\ UNCHANGED so_ex_fail
            ELSE /\ so_ex_fail' = IF Head(woq).issue THEN so_ex_fail
                                  ELSE [so_ex_fail EXCEPT ![w.addr] = "BVLD"]
                 /\ UNCHANGED nct
  /\ woq_ncq' = Tail(woq_ncq)
  /\ UNCHANGED <<line, wo, so, snb, vb, vb_ptr, waq, rds, cat, so_bus_cnt, bch>>

-----------------------------------------------------------------------------
(***************************************************************************)
(* Write responses.  A slave takes data after their address, answers       *)
(* writes of different ids in any order and writes at the latest when it   *)
(* answers.  In a cycle the bus gives one response where bready is up, and *)
(* the oldest leaves bfifo, an SO response only where the NCQ takes it.    *)
(***************************************************************************)
bvalid_so == bfifo # <<>> /\ Head(bfifo)[1] = "so"

bready_set__late(pop, create) == Len(bfifo) < 2 \/ (pop /\ ~create)
bready_set(pop, create) ==
  \/ bfifo = <<>>
  \/ Len(bfifo) = 1 /\ (pop \/ ~create)
  \/ Len(bfifo) = 2 /\ pop /\ ~create

(* An entry of ncwt ends when the core and the bus are both done with it.  *)
Done(e) == IF e.resp_done /\ e.bus_done THEN EmptyNCWT ELSE e

PopB(id) ==
  /\ cawt' = IF id[1] = "vb" THEN [cawt EXCEPT ![id[2]] = NONE] ELSE cawt
  /\ ncwt' = IF id[1] = "wo" THEN [ncwt EXCEPT ![id[2]] = Done([@ EXCEPT !.bus_done = TRUE])]
             ELSE ncwt
  /\ IF id[1] = "so"
     THEN /\ so_bus_cnt' = [so_bus_cnt EXCEPT ![id[2]] = @ - 1]
          /\ so' = [so EXCEPT ![id[2]] = Tail(@)]
     ELSE UNCHANGED <<so_bus_cnt, so>>

Without(s, i) == SubSeq(s, 1, i - 1) \o SubSeq(s, i + 1, Len(s))

BClock(give, ncq_b_grant) ==
  LET create == give # 0
      pop == bfifo # <<>> /\ (~bvalid_so \/ ncq_b_grant)
  IN  /\ create => /\ bready /\ give <= Len(bus_wr)
                   /\ \A i \in 1 .. give - 1 : bus_wr[i].id # bus_wr[give].id
      /\ bready' = bready_set(pop, create)
      /\ bfifo' = (IF pop THEN Tail(bfifo) ELSE bfifo)
                  \o (IF create THEN <<bus_wr[give].id>> ELSE <<>>)
      /\ bus_wr' = IF create THEN Without(bus_wr, give) ELSE bus_wr
      /\ IF pop THEN PopB(Head(bfifo)) ELSE UNCHANGED <<cawt, ncwt, so_bus_cnt, so>>
      /\ UNCHANGED <<line, wo, snb, vb, vb_ptr, ncq, rds, woq, cawt_create_ptr,
                     ncwt_ptr, so_ex_fail, bus_aw>>

(* The answers the EBIU gives by itself yield to an SO response of the bus.*)
NcqBExFail(c) ==
  /\ so_ex_fail[c] = "BVLD" /\ ~bvalid_so
  /\ so_ex_fail' = [so_ex_fail EXCEPT ![c] = "IDLE"]
  /\ so' = [so EXCEPT ![c] = Tail(@)]
  /\ UNCHANGED <<line, wo, snb, vb, vb_ptr, ncq, rds, woq, cat, nct, so_bus_cnt, bch, wbus>>

NcqBWo ==
  LET k == ncwt_ptr.bresp
  IN  /\ ncwt[k].resp_ready /\ ~ncwt[k].resp_done
      /\ ~bvalid_so /\ \A c \in CORE : so_ex_fail[c] # "BVLD"
      /\ ncwt' = [ncwt EXCEPT ![k] = Done([@ EXCEPT !.resp_done = TRUE])]
      /\ ncwt_ptr' = [ncwt_ptr EXCEPT !.bresp = (@ + 1) % NCWT]
      /\ wo' = [wo EXCEPT ![ncwt[k].addr] = NONE]
      /\ UNCHANGED <<line, so, snb, vb, vb_ptr, ncq, rds, woq, cat, sos, bch, wbus>>

-----------------------------------------------------------------------------
(***************************************************************************)
(* The read channel.                                                       *)
(***************************************************************************)
vb_ebiuif_addr_depd__none(l) == FALSE
vb_ebiuif_addr_depd(l) == \E v \in VID : SameIndex(vb[v].aw, l)

EbiuifArGrant(b) ==
  /\ ebiu_ar_buf[b] # NONE
  /\ ~vb_ebiuif_addr_depd(ebiu_ar_buf[b]) /\ ~ca_hit_cawt(ebiu_ar_buf[b])
  /\ bus_rd' = bus_rd \cup {[kind |-> "line", addr |-> ebiu_ar_buf[b]]}
  /\ ebiu_ar_buf' = [ebiu_ar_buf EXCEPT ![b] = NONE]
  /\ UNCHANGED <<line, wo, so, snb, vb, vb_ptr, ncq, raq, woq,
                 cat, nct, sos, bch, wbus>>

ncq_so_vld(c) == so_ex_fail[c] # "IDLE" \/ so_bus_cnt[c] # 0

NcqArGrant ==
  /\ raq # <<>>
  /\ LET r == Head(raq)
     IN  /\ r.kind = "wo" => ~nc_depd_ncwt(r.addr)
         /\ r.kind = "so" => ~ncq_so_vld(r.addr)
         /\ bus_rd' = bus_rd \cup {r}
  /\ raq' = Tail(raq)
  /\ UNCHANGED <<line, wo, so, snb, vb, vb_ptr, ncq, ebiu_ar_buf, woq,
                 cat, nct, sos, bch, wbus>>

BusR(r) ==
  /\ r \in bus_rd /\ bus_rd' = bus_rd \ {r}
  /\ line' = IF r.kind = "line" THEN [line EXCEPT ![r.addr] = NONE] ELSE line
  /\ wo' = IF r.kind = "wo" THEN [wo EXCEPT ![r.addr] = NONE] ELSE wo
  /\ so' = IF r.kind = "so" THEN [so EXCEPT ![r.addr] = Tail(@)] ELSE so
  /\ UNCHANGED <<snb, vb, vb_ptr, ncq, ebiu_ar_buf, raq, woq,
                 cat, nct, sos, bch, wbus>>

-----------------------------------------------------------------------------
(* What the SNB, the L2 and the cores ask for, and what becomes of it.     *)
Ask ==
  \/ \E l \in LINE : SnbWrite(l) \/ SnbRead(l) \/ L2Victim(l)
  \/ \E a \in WO : WoWrite(a) \/ WoRead(a)
  \/ \E c \in CORE : SoRead(c) \/ \E fail \in BOOLEAN : SoWrite(c, fail)

Serve ==
  \/ \E b \in BANK : VbAwGrant(b) \/ VbWGrant(b) \/ EbiuifArGrant(b)
  \/ EbiuVbAwGrant \/ NcqWoAwGrant \/ NcqSoAwGrant
  \/ EbiuVbWGrant \/ NcqWGrant
  \/ NcqBWo \/ \E c \in CORE : NcqBExFail(c)
  \/ NcqArGrant \/ \E r \in bus_rd : BusR(r)
  \/ \E give \in 0 .. Len(bus_wr), ncq_b_grant \in BOOLEAN : BClock(give, ncq_b_grant)

Next == Ask \/ Serve

Spec == Init /\ [][Next]_vars

-----------------------------------------------------------------------------
\* The writes on their way over the bus: sent, and not yet answered.
OnBus == {bus_wr[i] : i \in DOMAIN bus_wr} \cup {bus_aw[i] : i \in DOMAIN bus_aw}

\* A read the bus may answer finds every earlier write of its address in
\* memory, the writes included that were called complete on the way: none of
\* them is in the victim buffer or on the bus. (The addresses of SO writes
\* stand for all of a core: an SO read finds the SO writes done.)
ReadsFollowWrites ==
  \A r \in bus_rd : /\ \A v \in VID : vb[v].aw # r.addr
                   /\ \A w \in OnBus : w.addr # r.addr

\* Two writes of one address are on the bus together only under one id, whose
\* writes it keeps in order: the later data are what remains in memory.
WritesKeepOrder == \A w, x \in OnBus : w.addr = x.addr => w.id = x.id

\* The data that follow an address onto the bus are the data of that write,
\* though the VB, the NCQ and the failed exclusive writes share one order and
\* the data of the banks come in another one.
DataMeetsAddress == \A i \in DOMAIN bus_wr : bus_wr[i].data = bus_wr[i].addr

\* Each entry of the VB that waits for data is named by exactly one write whose
\* data a bank still has to send, and an entry with data by none.
Due(v) == {x \in BANK \X {1, 2} : /\ x[2] \in DOMAIN ebiu_sel_fifo[x[1]]
                                   /\ ebiu_sel_fifo[x[1]][x[2]].vid = v}
VbDataComes ==
  \A v \in VID :
    /\ Cardinality(Due(v)) = IF vb[v].aw # NONE /\ vb[v].w = NONE THEN 1 ELSE 0
    /\ \A x \in Due(v) : ebiu_sel_fifo[x[1]][x[2]].line = vb[v].aw

\* An id names one write at a time, and the entry it names is that write's:
\* the response ends the entry of its own write.
IdIsOwn ==
  /\ \A w \in OnBus : /\ w.id[1] = "vb" => cawt[w.id[2]] = w.addr
                      /\ w.id[1] = "wo" => ncwt[w.id[2]].addr = w.addr
  /\ \A k \in DOMAIN cawt : cawt[k] # NONE =>
       Cardinality({w \in OnBus : w.id = <<"vb", k>>})
         + Cardinality({i \in DOMAIN bfifo : bfifo[i] = <<"vb", k>>}) = 1

\* A response never comes when bfifo is full.
BfifoRoom == bready => Len(bfifo) < 2

\* The core takes SO answers for its requests in their order: the answer that
\* is offered is of the kind of the oldest request.
SoAnswersInOrder ==
  \A c \in CORE :
    /\ so_ex_fail[c] = "BVLD" => so[c] # <<>> /\ Head(so[c]) = "fail"
    /\ <<"so", c>> \in {bfifo[i] : i \in DOMAIN bfifo} => so[c] # <<>> /\ Head(so[c]) = "wr"

\* As long as an access is not answered or a write did not reach memory,
\* something can be done about it without anything new being asked: the tables,
\* the order of the data and the order of the SO accesses never make each wait
\* for the other.
Busy == \/ \E l \in LINE : line[l] # NONE
        \/ \E a \in WO : wo[a] # NONE
        \/ \E c \in CORE : so[c] # <<>>
        \/ \E v \in VID : vb[v].aw # NONE
        \/ OnBus # {}
NeverStuck == Busy => ENABLED <<Serve>>_vars
=============================================================================
