--------------------------- MODULE WriteDataOrder ---------------------------
(***************************************************************************)
(* Write requests and their data on the way from the cores to the two      *)
(* banks of the snoop buffer, to the non-cacheable queue (NCQ) and to the  *)
(* barrier merging buffer (BMB) of the port.                               *)
(*                                                                         *)
(* A write goes over AW as an address and over W as beats of data that     *)
(* carry nothing but the class of their stream.  What belongs together is  *)
(* known only by order: the W order of the core (bus_arb_w_fifo), the      *)
(* order of grants in the port of the core (wd_sid_fifo), and the order of *)
(* grants at each receiver (wd_sel_fifo of a bank, woq of the NCQ).  The   *)
(* first is not the order of the others: a request of the class "ws"       *)
(* (shareable stores and barriers) is overtaken in the port by requests of *)
(* the class "wns" (victims and non-cacheable writes).                     *)
(*                                                                         *)
(* A beat of data is abstracted to the identity of the write it is for,    *)
(* which the circuit does not have: it lets the properties compare.        *)
(*                                                                         *)
(* The registers that only cut the timing of one channel are left out,     *)
(* except the one between a bank's AW grant and its entry, because the     *)
(* bank's own checks see it.                                               *)
(*                                                                         *)
(* A definition with a double underscore in its name is a faulty variant of *)
(* the definition after it: a mistake that a property has to notice.       *)
(***************************************************************************)
EXTENDS Naturals, Sequences, FiniteSets

CONSTANTS
  CORE,        \* the cores, one PIU each
  BANK,        \* the banks of the snoop buffer (2 in the code)
  NONE,        \* no core, no request
  KINDS,       \* the kinds of writes the cores issue
  MAX_WRITES,  \* bounds the writes of one core under way
  LINE_BEATS,  \* beats of a line (4 in the code)
  WS_DEPTH,    \* wd_ws_dfifo (4 beats in the code)
  WNS_DEPTH,   \* wd_wns_dfifo (2 beats in the code)
  SID_DEPTH,   \* wd_sid_fifo (2 in the code)
  CD_DEPTH,    \* cd_sid_fifo (8 in the code)
  CDD_DEPTH,   \* cd_dfifo (2 beats in the code)
  WDEPTH,      \* write entries of a bank (8 in the code)
  SEL_DEPTH,   \* wd_sel_fifo (8 in the code)
  WOQ_DEPTH,   \* woq of the NCQ (16 in the code)
  WDQ_DEPTH,   \* wdq of the NCQ (2 in the code)
  MAX_BAR      \* bounds the barriers in a bank

\* Victims with data (WriteBack, WriteClean), Evict, shareable stores
\* (WriteUnique, WriteLineUnique), barriers, and non-cacheable writes.
WriteKind == {"wb", "evict", "ws", "bar", "nc"}

ASSUME SizeAssumption ==
  /\ LINE_BEATS \in Nat \ {0} /\ WS_DEPTH \in Nat /\ WNS_DEPTH \in Nat \ {0}
  /\ SID_DEPTH \in Nat \ {0} /\ CD_DEPTH \in Nat
  /\ CDD_DEPTH \in Nat \ {0} /\ MAX_BAR \in Nat /\ MAX_WRITES \in Nat
  /\ WDEPTH \in Nat \ {0, 1} /\ SEL_DEPTH \in Nat /\ SEL_DEPTH >= WDEPTH
  /\ WOQ_DEPTH \in Nat \ {0} /\ WDQ_DEPTH \in Nat \ {0}
  /\ KINDS \subseteq WriteKind
  /\ NONE \notin CORE /\ "ncq" \notin BANK /\ "bmb" \notin BANK

VARIABLES
  bus_arb_w_fifo,  \* per core: the writes whose beats it has still to send
  ws_dfifo,        \* per port: the AW register of class ws
  wns_dfifo,       \* per port: the AW register of class wns
  wd_sid_fifo,     \* per port: class, receiver and entry of the granted writes
  wd_ws_dfifo,     \* per port: the beats of class ws
  wd_wns_dfifo,    \* per port: the beats of class wns
  cd_sid_fifo,     \* per port: the banks owed snoop data
  cd_dfifo,        \* per port: how many beats of it have come
  pkb,             \* per port: the package buffer
  sab,             \* per bank: the write entries
  crt,             \* per bank: the AW create register (sab_aw_crt_entry)
  wd_sel_fifo,     \* per bank: the ports whose data it takes, in this order
  woq,             \* NCQ: the writes whose data it takes, in this order
  wdq              \* NCQ: writes with their data

aw   == <<ws_dfifo, wns_dfifo>>
wd   == <<wd_ws_dfifo, wd_wns_dfifo>>
cd   == <<cd_sid_fifo, cd_dfifo>>
snb  == <<sab, crt, wd_sel_fifo>>
ncq  == <<woq, wdq>>
vars == <<bus_arb_w_fifo, aw, wd_sid_fifo, wd, cd, pkb, snb, ncq>>

WSID == 0 .. WDEPTH - 1
LAST == WDEPTH - 1
Id   == CORE \X (0 .. MAX_WRITES - 1)

IdleEntry == [kind |-> "none", mid |-> NONE, id |-> NONE, len |-> 0,
              data |-> <<>>]

Init ==
  /\ bus_arb_w_fifo = [p \in CORE |-> <<>>]
  /\ ws_dfifo = [p \in CORE |-> NONE]
  /\ wns_dfifo = [p \in CORE |-> NONE]
  /\ wd_sid_fifo = [p \in CORE |-> <<>>]
  /\ wd_ws_dfifo = [p \in CORE |-> <<>>]
  /\ wd_wns_dfifo = [p \in CORE |-> <<>>]
  /\ cd_sid_fifo = [p \in CORE |-> <<>>]
  /\ cd_dfifo = [p \in CORE |-> 0]
  /\ pkb = [p \in CORE |-> NONE]
  /\ sab = [b \in BANK |-> [s \in WSID |-> IdleEntry]]
  /\ crt = [b \in BANK |-> NONE]
  /\ wd_sel_fifo = [b \in BANK |-> <<>>]
  /\ woq = <<>>
  /\ wdq = <<>>

-----------------------------------------------------------------------------
(***************************************************************************)
(* The core: its bus interface hands over requests, and the beats of all   *)
(* of them, of both classes, in the one order of these hand-overs.         *)
(***************************************************************************)

\* The class of a request: aw_ws of the core and aw_create_ws of the port.
wns(r) == r.kind \notin {"ws", "bar"}

\* Where requests of a kind go, and with how many beats.
Receivers(kind) == CASE kind = "nc" -> {"ncq"} [] kind = "bar" -> {"bmb"}
                     [] OTHER -> BANK
Lengths(kind) == CASE kind = "wb" -> {LINE_BEATS} [] kind = "evict" -> {0}
                   [] kind = "ws" -> {1, LINE_BEATS} [] OTHER -> {1}

\* A write is under way while anybody holds anything of it.
UnderWay(i) ==
  LET p == i[1] IN
  \/ \E r \in {ws_dfifo[p], wns_dfifo[p]} \ {NONE} : r.id = i
  \/ \E q \in {bus_arb_w_fifo[p], wd_ws_dfifo[p], wd_wns_dfifo[p], wdq} :
       \E k \in DOMAIN q : q[k].id = i
  \/ pkb[p] # NONE /\ \E k \in DOMAIN pkb[p].data : pkb[p].data[k] = i
  \/ \E b \in BANK : \/ \E s \in WSID : sab[b][s].id = i
                     \/ crt[b] # NONE /\ crt[b].entry.id = i
  \/ \E k \in DOMAIN woq : woq[k] = i

\* AW is handed to the register of its class.  An Evict has no data.
HandOver(p, r) ==
  /\ \/ /\ wns(r) /\ wns_dfifo[p] = NONE
        /\ wns_dfifo' = [wns_dfifo EXCEPT ![p] = r]
        /\ UNCHANGED ws_dfifo
     \/ /\ ~wns(r) /\ ws_dfifo[p] = NONE
        /\ ws_dfifo' = [ws_dfifo EXCEPT ![p] = r]
        /\ UNCHANGED wns_dfifo
  /\ bus_arb_w_fifo' =
       IF r.kind = "evict" THEN bus_arb_w_fifo
       ELSE [bus_arb_w_fifo EXCEPT ![p] =
               Append(@, [id |-> r.id, wns |-> wns(r), left |-> r.len])]

AwHand(p) ==
  /\ \E kind \in KINDS, n \in 0 .. MAX_WRITES - 1 :
     \E dest \in Receivers(kind), len \in Lengths(kind) :
       /\ ~UnderWay(<<p, n>>) /\ \A m \in 0 .. n - 1 : UnderWay(<<p, m>>)
       /\ HandOver(p, [kind |-> kind, dest |-> dest, id |-> <<p, n>>, len |-> len])
  /\ UNCHANGED <<wd_sid_fifo, wd, cd, pkb, snb, ncq>>

\* Room in the data queues of the port.
ws_wready__half(p) == Len(wd_ws_dfifo[p]) + 1 < WS_DEPTH

ws_wready(p) == Len(wd_ws_dfifo[p]) < WS_DEPTH
wns_wready(p) == Len(wd_wns_dfifo[p]) < WNS_DEPTH

\* The next beat of the oldest write that has any to send.
WBeat(p) ==
  /\ bus_arb_w_fifo[p] # <<>>
  /\ LET w == Head(bus_arb_w_fifo[p])
         beat == [id |-> w.id, last |-> w.left = 1] IN
     /\ \/ /\ w.wns /\ wns_wready(p)
           /\ wd_wns_dfifo' = [wd_wns_dfifo EXCEPT ![p] = Append(@, beat)]
           /\ UNCHANGED wd_ws_dfifo
        \/ /\ ~w.wns /\ ws_wready(p)
           /\ wd_ws_dfifo' = [wd_ws_dfifo EXCEPT ![p] = Append(@, beat)]
           /\ UNCHANGED wd_wns_dfifo
     /\ bus_arb_w_fifo' = [bus_arb_w_fifo EXCEPT ![p] =
                             IF w.left = 1 THEN Tail(@)
                             ELSE [@ EXCEPT ![1].left = w.left - 1]]
  /\ UNCHANGED <<aw, wd_sid_fifo, cd, pkb, snb, ncq>>

\* A response with data to a snoop of a bank, and a beat of such data.
CdResponse(p, b) ==
  /\ Len(cd_sid_fifo[p]) < CD_DEPTH
  /\ cd_sid_fifo' = [cd_sid_fifo EXCEPT ![p] = Append(@, b)]
  /\ UNCHANGED <<bus_arb_w_fifo, aw, wd_sid_fifo, wd, cd_dfifo, pkb, snb, ncq>>

\* The package buffer has begun and not ended.
Filling(p) == pkb[p] # NONE /\ ~pkb[p].rdy

CdTaken(p) == IF Filling(p) /\ pkb[p].cd THEN Len(pkb[p].data) ELSE 0

CdBeat(p) ==
  /\ cd_dfifo[p] < CDD_DEPTH
  /\ CdTaken(p) + cd_dfifo[p] < LINE_BEATS * Len(cd_sid_fifo[p])
  /\ cd_dfifo' = [cd_dfifo EXCEPT ![p] = @ + 1]
  /\ UNCHANGED <<bus_arb_w_fifo, aw, wd_sid_fifo, wd, cd_sid_fifo, pkb, snb, ncq>>

-----------------------------------------------------------------------------
(***************************************************************************)
(* The AW grants: the port asks with its wns request first, and remembers  *)
(* what was granted.                                                       *)
(***************************************************************************)

aw_req(p) == IF wns_dfifo[p] # NONE THEN wns_dfifo[p] ELSE ws_dfifo[p]

aw_req_vld__unbounded(p) == aw_req(p) # NONE
aw_req_vld(p) == aw_req(p) # NONE /\ Len(wd_sid_fifo[p]) < SID_DEPTH

SidCreate__evict_too(p, sid) ==
  wd_sid_fifo' =
    [wd_sid_fifo EXCEPT ![p] =
       Append(@, [wns |-> wns_dfifo[p] # NONE, dest |-> aw_req(p).dest, sid |-> sid])]

\* wd_sid_fifo takes the class, the receiver and the entry of a write that
\* has data.
SidCreate(p, sid) ==
  wd_sid_fifo' =
    IF aw_req(p).kind = "evict" THEN wd_sid_fifo
    ELSE [wd_sid_fifo EXCEPT ![p] =
            Append(@, [wns |-> wns_dfifo[p] # NONE, dest |-> aw_req(p).dest,
                       sid |-> sid])]

\* The grant takes the request out of its register.
AwGranted(p, sid) ==
  /\ IF wns_dfifo[p] # NONE
     THEN wns_dfifo' = [wns_dfifo EXCEPT ![p] = NONE] /\ UNCHANGED ws_dfifo
     ELSE ws_dfifo' = [ws_dfifo EXCEPT ![p] = NONE] /\ UNCHANGED wns_dfifo
  /\ SidCreate(p, sid)
  /\ UNCHANGED <<bus_arb_w_fifo, wd, cd, pkb>>

\* The entries that may not be given away.
sab_wentry_vld__registered(b) == {s \in WSID : sab[b][s].kind # "none"}

sab_wentry_vld(b) ==
  {s \in WSID : \/ sab[b][s].kind # "none"
                \/ crt[b] # NONE /\ crt[b].sid = s}

\* The last entry is kept for victims.
sab_wentry_full__no_reserve(b, w) == sab_wentry_vld(b) = WSID

sab_wentry_full(b, w) ==
  IF w THEN sab_wentry_vld(b) = WSID ELSE WSID \ {LAST} \subseteq sab_wentry_vld(b)

sab_create1_ptr(b) ==
  LET free == WSID \ sab_wentry_vld(b)
  IN  CHOOSE s \in free : \A t \in free : s <= t

aw_bar_clr(b, w) == ~sab_wentry_full(b, w) /\ Len(wd_sel_fifo[b]) < SEL_DEPTH

TakesData(e) == e.kind \notin {"none", "evict", "bar"}

SelCreate__evict_too(b) ==
  [wd_sel_fifo EXCEPT ![b] = IF crt[b].entry.kind # "bar"
                             THEN Append(@, crt[b].entry.mid) ELSE @]

\* wd_sel_fifo takes the port of a write that has data.
SelCreate(b) ==
  [wd_sel_fifo EXCEPT ![b] = IF TakesData(crt[b].entry)
                             THEN Append(@, crt[b].entry.mid) ELSE @]

\* The create register becomes an entry one clock after the grant, when the
\* register may take the next grant.
CreateEntry(b, next) ==
  /\ crt' = [crt EXCEPT ![b] = next]
  /\ IF crt[b] = NONE THEN UNCHANGED <<sab, wd_sel_fifo>>
     ELSE /\ sab' = [sab EXCEPT ![b][crt[b].sid] = crt[b].entry]
          /\ wd_sel_fifo' = SelCreate(b)

AwCreate(b) ==
  /\ crt[b] # NONE
  /\ CreateEntry(b, NONE)
  /\ UNCHANGED <<bus_arb_w_fifo, aw, wd_sid_fifo, wd, cd, pkb, ncq>>

\* A bank grants the request of a core.
SnbAwGrant(p, b) ==
  LET r == aw_req(p) IN
  /\ aw_req_vld(p) /\ r.dest = b /\ aw_bar_clr(b, wns(r))
  /\ CreateEntry(b, [sid |-> sab_create1_ptr(b),
                     entry |-> [kind |-> r.kind, mid |-> p, id |-> r.id,
                                len |-> r.len, data |-> <<>>]])
  /\ AwGranted(p, sab_create1_ptr(b))
  /\ UNCHANGED ncq

\* A bank grants a barrier, which has no data here.
SnbBarGrant(b) ==
  /\ Cardinality({s \in WSID : sab[b][s].kind = "bar"}) < MAX_BAR
  /\ aw_bar_clr(b, FALSE)
  /\ CreateEntry(b, [sid |-> sab_create1_ptr(b),
                     entry |-> [IdleEntry EXCEPT !.kind = "bar"]])
  /\ UNCHANGED <<bus_arb_w_fifo, aw, wd_sid_fifo, wd, cd, pkb, ncq>>

NcqAwGrant(p) ==
  /\ aw_req_vld(p) /\ aw_req(p).dest = "ncq" /\ Len(woq) < WOQ_DEPTH
  /\ woq' = Append(woq, aw_req(p).id)
  /\ AwGranted(p, 0)
  /\ UNCHANGED <<snb, wdq>>

\* The barrier merging buffer takes a barrier at once.
BmbAwGrant(p) ==
  /\ aw_req_vld(p) /\ aw_req(p).dest = "bmb"
  /\ AwGranted(p, 0)
  /\ UNCHANGED <<snb, ncq>>

-----------------------------------------------------------------------------
(***************************************************************************)
(* The package buffer of a port collects the beats of one write, or of the *)
(* answer to one snoop, and asks the receiver to take them.                *)
(***************************************************************************)

cd_pkb_req(p) == cd_sid_fifo[p] # <<>> /\ cd_dfifo[p] > 0

\* The class of the oldest granted write, and the beats of this class.
wd_dfifo_sel_wns(p) == wd_sid_fifo[p] # <<>> /\ Head(wd_sid_fifo[p]).wns
WdFifo(p) == IF wd_dfifo_sel_wns(p) THEN wd_wns_dfifo[p] ELSE wd_ws_dfifo[p]
wd_pkb_req(p) == wd_sid_fifo[p] # <<>> /\ WdFifo(p) # <<>>

\* An empty package buffer prefers snoop data; one that is filling goes on
\* with what it has begun.
pkb_cd_grant(p) ==
  cd_pkb_req(p) /\ (pkb[p] = NONE \/ (Filling(p) /\ pkb[p].cd))

pkb_wd_grant__mixed(p) ==
  /\ wd_pkb_req(p)
  /\ pkb[p] = NONE \/ Filling(p)

pkb_wd_grant(p) ==
  /\ wd_pkb_req(p)
  /\ \/ pkb[p] = NONE /\ ~cd_pkb_req(p)
     \/ Filling(p) /\ ~pkb[p].cd

PkbCd(p) ==
  /\ pkb_cd_grant(p)
  /\ LET data == IF pkb[p] = NONE THEN <<NONE>> ELSE Append(pkb[p].data, NONE)
         last == Len(data) = LINE_BEATS IN
     /\ pkb' = [pkb EXCEPT ![p] = [cd |-> TRUE, dest |-> Head(cd_sid_fifo[p]),
                                   sid |-> 0, data |-> data, rdy |-> last]]
     /\ cd_sid_fifo' = [cd_sid_fifo EXCEPT ![p] = IF last THEN Tail(@) ELSE @]
     /\ cd_dfifo' = [cd_dfifo EXCEPT ![p] = @ - 1]
  /\ UNCHANGED <<bus_arb_w_fifo, aw, wd_sid_fifo, wd, snb, ncq>>

PkbWd(p) ==
  /\ pkb_wd_grant(p)
  /\ LET beat == Head(WdFifo(p))
         h == Head(wd_sid_fifo[p])
         data == IF pkb[p] = NONE THEN <<beat.id>> ELSE Append(pkb[p].data, beat.id) IN
     /\ pkb' = [pkb EXCEPT ![p] =
                  IF @ = NONE THEN [cd |-> FALSE, dest |-> h.dest, sid |-> h.sid,
                                    data |-> data, rdy |-> beat.last]
                  ELSE [@ EXCEPT !.data = data, !.rdy = beat.last]]
     /\ wd_sid_fifo' = [wd_sid_fifo EXCEPT ![p] = IF beat.last THEN Tail(@) ELSE @]
     /\ IF wd_dfifo_sel_wns(p)
        THEN wd_wns_dfifo' = [wd_wns_dfifo EXCEPT ![p] = Tail(@)] /\ UNCHANGED wd_ws_dfifo
        ELSE wd_ws_dfifo' = [wd_ws_dfifo EXCEPT ![p] = Tail(@)] /\ UNCHANGED wd_wns_dfifo
  /\ UNCHANGED <<bus_arb_w_fifo, aw, cd, snb, ncq>>

-----------------------------------------------------------------------------
(***************************************************************************)
(* The receivers.                                                          *)
(***************************************************************************)

Packed(p, dest) == pkb[p] # NONE /\ pkb[p].rdy /\ pkb[p].dest = dest
Unpack(p) == pkb' = [pkb EXCEPT ![p] = NONE]

\* A bank takes snoop data of anybody first, else the data of the port whose
\* turn it is, and puts it into the entry the package names.
SnbCdGrant(p, b) ==
  /\ Packed(p, b) /\ pkb[p].cd
  /\ Unpack(p)
  /\ UNCHANGED <<bus_arb_w_fifo, aw, wd_sid_fifo, wd, cd, snb, ncq>>

SnbWdGrant(p, b) ==
  /\ Packed(p, b) /\ ~pkb[p].cd
  /\ \A q \in CORE : ~(Packed(q, b) /\ pkb[q].cd)
  /\ wd_sel_fifo[b] # <<>> /\ Head(wd_sel_fifo[b]) = p
  /\ Unpack(p)
  /\ wd_sel_fifo' = [wd_sel_fifo EXCEPT ![b] = Tail(@)]
  /\ sab' = [sab EXCEPT ![b][pkb[p].sid].data = pkb[p].data]
  /\ UNCHANGED <<bus_arb_w_fifo, aw, wd_sid_fifo, wd, cd, crt, ncq>>

\* The NCQ gives the data of a port to the write of that port it waits for.
NcqWcdGrant(p) ==
  /\ Packed(p, "ncq")
  /\ woq # <<>> /\ Head(woq)[1] = p /\ Len(wdq) < WDQ_DEPTH
  /\ Unpack(p)
  /\ wdq' = Append(wdq, [id |-> Head(woq), data |-> pkb[p].data])
  /\ woq' = Tail(woq)
  /\ UNCHANGED <<bus_arb_w_fifo, aw, wd_sid_fifo, wd, cd, snb>>

BmbWcdGrant(p) ==
  /\ Packed(p, "bmb")
  /\ Unpack(p)
  /\ UNCHANGED <<bus_arb_w_fifo, aw, wd_sid_fifo, wd, cd, snb, ncq>>

\* The bus takes a write from the NCQ.
NcqPop ==
  /\ wdq # <<>>
  /\ wdq' = Tail(wdq)
  /\ UNCHANGED <<bus_arb_w_fifo, aw, wd_sid_fifo, wd, cd, pkb, snb, woq>>

\* An entry is done, at the earliest when it has its data.
Complete(b, s) ==
  /\ sab[b][s].kind # "none"
  /\ TakesData(sab[b][s]) => sab[b][s].data # <<>>
  /\ sab' = [sab EXCEPT ![b][s] = IdleEntry]
  /\ UNCHANGED <<bus_arb_w_fifo, aw, wd_sid_fifo, wd, cd, pkb, crt, wd_sel_fifo, ncq>>

-----------------------------------------------------------------------------

CoreStep(p) ==
  \/ AwHand(p) \/ WBeat(p) \/ CdBeat(p)
  \/ \E b \in BANK : CdResponse(p, b)

PortStep(p) == PkbCd(p) \/ PkbWd(p)

AwStep(p) == NcqAwGrant(p) \/ BmbAwGrant(p) \/ \E b \in BANK : SnbAwGrant(p, b)

WdStep(p) ==
  \/ NcqWcdGrant(p) \/ BmbWcdGrant(p)
  \/ \E b \in BANK : SnbCdGrant(p, b) \/ SnbWdGrant(p, b)

BankStep(b) == AwCreate(b) \/ SnbBarGrant(b) \/ \E s \in WSID : Complete(b, s)

Next ==
  \/ \E p \in CORE : CoreStep(p) \/ PortStep(p) \/ AwStep(p) \/ WdStep(p)
  \/ \E b \in BANK : BankStep(b)
  \/ NcqPop

Spec == Init /\ [][Next]_vars

\* What can move moves: the channels are clocked, and a core sends the beats
\* of what it has announced.  Of the AW arbitration nothing is assumed.
Fairness ==
  /\ \A p \in CORE : /\ WF_vars(WBeat(p)) /\ WF_vars(CdBeat(p))
                     /\ WF_vars(PortStep(p)) /\ WF_vars(WdStep(p))
  /\ \A b \in BANK : WF_vars(AwCreate(b))
  /\ WF_vars(NcqPop)

FairSpec == Spec /\ Fairness

-----------------------------------------------------------------------------
(***************************************************************************)
(* Properties.                                                             *)
(***************************************************************************)

Receiver == BANK \cup {"ncq", "bmb"}
Request  == [kind : WriteKind, dest : Receiver, id : Id, len : 0 .. LINE_BEATS]
Order    == [id : Id, wns : BOOLEAN, left : 1 .. LINE_BEATS]
Beat     == [id : Id, last : BOOLEAN]
Data     == Seq(Id \cup {NONE})
SidEntry == [wns : BOOLEAN, dest : Receiver, sid : WSID]
Package  == [cd : BOOLEAN, dest : Receiver, sid : WSID, data : Data, rdy : BOOLEAN]
Entry    == [kind : WriteKind \cup {"none"}, mid : CORE \cup {NONE},
             id : Id \cup {NONE}, len : 0 .. LINE_BEATS, data : Data]

\* NONE is no word of a register.
ASSUME NoneAssumption ==
  NONE \notin Request /\ NONE \notin Package /\ NONE \notin [sid : WSID, entry : Entry]

PortTypeOK ==
  /\ bus_arb_w_fifo \in [CORE -> Seq(Order)]
  /\ ws_dfifo \in [CORE -> Request \cup {NONE}]
  /\ wns_dfifo \in [CORE -> Request \cup {NONE}]
  /\ wd_sid_fifo \in [CORE -> Seq(SidEntry)]
  /\ wd_ws_dfifo \in [CORE -> Seq(Beat)]
  /\ wd_wns_dfifo \in [CORE -> Seq(Beat)]
  /\ cd_sid_fifo \in [CORE -> Seq(BANK)]
  /\ cd_dfifo \in [CORE -> Nat]
  /\ pkb \in [CORE -> Package \cup {NONE}]

BankTypeOK ==
  /\ sab \in [BANK -> [WSID -> Entry]]
  /\ crt \in [BANK -> [sid : WSID, entry : Entry] \cup {NONE}]
  /\ wd_sel_fifo \in [BANK -> Seq(CORE)]

NcqTypeOK ==
  /\ woq \in Seq(Id)
  /\ wdq \in Seq([id : Id, data : Data])

\* The queues that are tested for full before they are filled.
DepthOK ==
  /\ \A p \in CORE : /\ Len(wd_sid_fifo[p]) <= SID_DEPTH
                     /\ Len(wd_ws_dfifo[p]) <= WS_DEPTH
                     /\ Len(wd_wns_dfifo[p]) <= WNS_DEPTH
                     /\ Len(cd_sid_fifo[p]) <= CD_DEPTH /\ cd_dfifo[p] <= CDD_DEPTH
  /\ Len(woq) <= WOQ_DEPTH /\ Len(wdq) <= WDQ_DEPTH

\* Every variable has its type, and the tested queues keep to their depth.
TypeOK == PortTypeOK /\ BankTypeOK /\ NcqTypeOK /\ DepthOK

\* The data an entry or a write of the NCQ gets is its own, all of it and
\* nothing else, although nothing but the order of three queues ties them
\* together and snoop data and overtaking requests come in between.
DataMeetsRequest ==
  /\ \A b \in BANK, s \in WSID :
       LET e == sab[b][s] IN
       e.data # <<>> => /\ TakesData(e)
                        /\ e.data = [k \in 1 .. e.len |-> e.id]
  /\ \A k \in DOMAIN wdq : wdq[k].data = <<wdq[k].id>>

\* wd_sel_fifo is tested for full when AW is granted and filled one clock
\* later without a test (ct_ciu_snb_arb 777, 928): there is room then.
WdSelRoom ==
  \A b \in BANK :
    crt[b] # NONE /\ TakesData(crt[b].entry) => Len(wd_sel_fifo[b]) < SEL_DEPTH

\* bus_arb_w_fifo of the core is never tested for full (ct_biu_write_channel
\* 462): what the port lets in bounds it, far below its 12 entries.
WOrderRoom == \A p \in CORE : Len(bus_arb_w_fifo[p]) <= SID_DEPTH + 2

\* A bank whose write entries are all taken has a victim among them, for which
\* stores and reads may be waiting (the reserve of sab_wentry_full).
VictimSlot ==
  \A b \in BANK :
    sab_wentry_vld(b) = WSID =>
      \/ \E s \in WSID : sab[b][s].kind \in {"wb", "evict"}
      \/ crt[b] # NONE /\ crt[b].entry.kind \in {"wb", "evict"}

\* What a port has still to deliver, in its order, and what a bank waits for,
\* the request in its create register included.
Pending(p) ==
  (IF pkb[p] # NONE /\ pkb[p].rdy /\ ~pkb[p].cd
   THEN <<[dest |-> pkb[p].dest, sid |-> pkb[p].sid]>> ELSE <<>>)
  \o [k \in DOMAIN wd_sid_fifo[p] |->
        [dest |-> wd_sid_fifo[p][k].dest, sid |-> wd_sid_fifo[p][k].sid]]

Awaited(b) == IF crt[b] = NONE THEN wd_sel_fifo[b] ELSE SelCreate(b)[b]

Meets(p) ==
  /\ Pending(p) # <<>>
  /\ LET dest == Head(Pending(p)).dest IN
     \/ dest = "bmb"
     \/ dest = "ncq" /\ woq # <<>> /\ Head(woq)[1] = p
     \/ dest \in BANK /\ Awaited(dest) # <<>> /\ Head(Awaited(dest)) = p

\* The ports deliver in their orders and the receivers take in theirs; while
\* anything is owed, some port comes next in both: no port and bank wait for
\* each other across the others.
HeadsMeet ==
  \/ \E p \in CORE : Pending(p) # <<>>
  \/ \E b \in BANK : Awaited(b) # <<>>
  \/ woq # <<>>
  => \E p \in CORE : Meets(p)

\* The one W channel of a core carries both classes in the order the requests
\* were handed over, which is not the order in which the port wants them.  The
\* beats the port wants next have come, or the channel can move: the data of a
\* request that was overtaken fits into wd_ws_dfifo.
StreamMoves ==
  \A p \in CORE :
    wd_sid_fifo[p] # <<>> /\ (pkb[p] = NONE \/ Filling(p)) =>
      \/ wd_pkb_req(p)
      \/ /\ bus_arb_w_fifo[p] # <<>>
         /\ IF Head(bus_arb_w_fifo[p]).wns THEN wns_wready(p) ELSE ws_wready(p)

\* Every entry that needs data gets it, whatever becomes of the requests that
\* are not granted yet, if the snoop data, which goes first, ever pauses.
DataArrives ==
  (<>[][\A p \in CORE, b \in BANK : ~CdResponse(p, b)]_vars) =>
    \A b \in BANK, s \in WSID :
      (TakesData(sab[b][s]) /\ sab[b][s].data = <<>>)
        ~> ~(TakesData(sab[b][s]) /\ sab[b][s].data = <<>>)
=============================================================================
