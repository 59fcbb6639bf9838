------------------------- MODULE ExternalBus_proofs -------------------------
(***************************************************************************)
(* Proofs about ExternalBus for any number of banks, lines, addresses and  *)
(* cores, any index function and any size of its tables and queues.        *)
(***************************************************************************)
EXTENDS ExternalBus, OrderFacts, SequenceTheorems

(***************************************************************************)
(* Types.                                                                  *)
(***************************************************************************)
CawtIx == 0 .. CAWT - 1
NcwtIx == 0 .. NCWT - 1
Id == ({"vb"} \X CawtIx) \cup ({"wo"} \X NcwtIx) \cup ({"so"} \X CORE)
Address == LINE \cup WO \cup CORE
Select == [vid : VID, line : LINE]
VbEntry == [aw : LINE \cup {NONE}, en : BOOLEAN, w : LINE \cup {NONE}]
NcqWr == [addr : WO, kind : {"wo"}] \cup [addr : CORE, kind : {"so", "fail"}]
NcqRd == [addr : WO, kind : {"wo"}] \cup [addr : CORE, kind : {"so"}]
NcwtEntry == [addr : WO \cup {NONE}, resp_ready : BOOLEAN, resp_done : BOOLEAN,
              bus_done : BOOLEAN]

LineTypes ==
  /\ line \in [LINE -> {NONE, "wr", "rd"}]
  /\ ebiu_aw_buf \in [BANK -> LINE \cup {NONE}]
  /\ ebiu_sel_fifo \in [BANK -> Seq(Select)]
  /\ vb \in [VID -> VbEntry]
  /\ vb_ptr \in [create : VID, req : VID, pop : VID]
CoreTypes ==
  /\ wo \in [WO -> {NONE, "wr", "rd"}] /\ so \in [CORE -> Seq({"wr", "fail", "rd"})]
  /\ waq \in Seq(NcqWr) /\ woq_ncq \in Seq(NcqWr)
ReadTypes ==
  /\ ebiu_ar_buf \in [BANK -> LINE \cup {NONE}] /\ raq \in Seq(NcqRd)
  /\ bus_rd \subseteq [kind : {"line"}, addr : LINE] \cup NcqRd
TableTypes ==
  /\ cawt \in [CawtIx -> LINE \cup {NONE}] /\ cawt_create_ptr \in CawtIx
  /\ ncwt \in [NcwtIx -> NcwtEntry]
  /\ ncwt_ptr \in [create : NcwtIx, wdata : NcwtIx, bresp : NcwtIx]
  /\ so_bus_cnt \in [CORE -> Nat]
  /\ so_ex_fail \in [CORE -> {"IDLE", "WFD", "BVLD"}]
BusTypes ==
  /\ woq \in Seq([source : {"vb", "ncq"}, issue : BOOLEAN])
  /\ bfifo \in Seq(Id) /\ bready \in BOOLEAN
  /\ bus_aw \in Seq([id : Id, addr : Address])
  /\ bus_wr \in Seq([id : Id, addr : Address, data : Address])
Types == LineTypes /\ CoreTypes /\ ReadTypes /\ TableTypes /\ BusTypes

(***************************************************************************)
(* The two entries of the VB are filled, asked for and emptied in turn.    *)
(***************************************************************************)
Occupied(v) == vb[v].aw # NONE
Asked(v) == vb[v].aw # NONE /\ ~vb[v].en
VbRing ==
  /\ \A v \in VID : /\ vb[v].w # NONE => vb[v].w = vb[v].aw
                    /\ vb[v].en => Occupied(v)
  /\ LET p == vb_ptr.pop IN
     /\ vb_ptr.create = p => (Occupied(0) /\ Occupied(1)) \/ (~Occupied(0) /\ ~Occupied(1))
     /\ vb_ptr.create # p => Occupied(p) /\ ~Occupied(1 - p)
     /\ vb_ptr.req = p => (Asked(0) /\ Asked(1)) \/ (~Asked(0) /\ ~Asked(1))
     /\ vb_ptr.req # p => Asked(p) /\ ~Asked(1 - p)

(***************************************************************************)
(* A write of a line is in one place from the request of the SNB until its *)
(* data are in the VB, and an entry of the VB without data is named once.  *)
(***************************************************************************)
Waits(v) == vb[v].aw # NONE /\ vb[v].w = NONE
NamedSome == \A v \in VID : Waits(v) =>
  \E b \in BANK : \E i \in DOMAIN ebiu_sel_fifo[b] : ebiu_sel_fifo[b][i].vid = v
NamedRight == \A b \in BANK : \A i \in DOMAIN ebiu_sel_fifo[b] :
  /\ vb[ebiu_sel_fifo[b][i].vid].w = NONE
  /\ ebiu_sel_fifo[b][i].line = vb[ebiu_sel_fifo[b][i].vid].aw
NamedOnce == \A b, c \in BANK :
  \A i \in DOMAIN ebiu_sel_fifo[b] : \A j \in DOMAIN ebiu_sel_fifo[c] :
    ebiu_sel_fifo[b][i].vid = ebiu_sel_fifo[c][j].vid => b = c /\ i = j
Named == NamedSome /\ NamedRight /\ NamedOnce
LineWrites == \A b \in BANK :
  /\ Len(ebiu_sel_fifo[b]) <= 2
  /\ ebiu_aw_buf[b] # NONE => line[ebiu_aw_buf[b]] = "wr" /\ HOME[ebiu_aw_buf[b]] = b
  /\ \A i \in DOMAIN ebiu_sel_fifo[b] :
       LET l == ebiu_sel_fifo[b][i].line
       IN  /\ line[l] = "wr" /\ HOME[l] = b /\ ebiu_aw_buf[b] # l
           /\ \A j \in DOMAIN ebiu_sel_fifo[b] : ebiu_sel_fifo[b][j].line = l => i = j
LineReads ==
  /\ \A b \in BANK : ebiu_ar_buf[b] # NONE =>
       line[ebiu_ar_buf[b]] = "rd" /\ HOME[ebiu_ar_buf[b]] = b
  /\ \A r \in bus_rd : r.kind = "line" =>
       line[r.addr] = "rd" /\ ebiu_ar_buf[HOME[r.addr]] # r.addr

(***************************************************************************)
(* The order of the data.  woq merges the writes the EBIU took from the VB *)
(* and from the NCQ, and the addresses on the bus are those of its entries *)
(* that are issued, each in its order.                                     *)
(***************************************************************************)
GrantedNcq == Len(woq_ncq) - Len(waq)
AskedVb == IF Asked(vb_ptr.pop) THEN IF Asked(1 - vb_ptr.pop) THEN 2 ELSE 1 ELSE 0
AskedAt(n) == IF n = 1 THEN vb_ptr.pop ELSE 1 - vb_ptr.pop
NcqOrder ==
  /\ GrantedNcq \in Nat
  /\ \A i \in DOMAIN waq : woq_ncq[GrantedNcq + i] = waq[i]
FromVb == {i \in DOMAIN woq : woq[i].source = "vb"}
FromNcq == {i \in DOMAIN woq : woq[i].source = "ncq"}
Issued == {i \in DOMAIN woq : woq[i].issue}
Merge(pv, pn, pb) ==
  /\ Ranks(FromVb, AskedVb, pv) /\ Ranks(FromNcq, GrantedNcq, pn)
  /\ Ranks(Issued, Len(bus_aw), pb)
  /\ \A i \in FromVb : i \in Issued /\ bus_aw[pb[i]].addr = vb[AskedAt(pv[i])].aw
  /\ \A i \in FromNcq : /\ woq_ncq[pn[i]].kind = "fail" => i \notin Issued
                        /\ woq_ncq[pn[i]].kind # "fail" => i \in Issued
                        /\ i \in Issued => bus_aw[pb[i]].addr = woq_ncq[pn[i]].addr
Order == NcqOrder /\ \E pv \in [FromVb -> 1 .. AskedVb],
                         pn \in [FromNcq -> 1 .. GrantedNcq],
                         pb \in [Issued -> 1 .. Len(bus_aw)] : Merge(pv, pn, pb)

(***************************************************************************)
(* The ids under way, and the tables that say so.                          *)
(***************************************************************************)
InAw(id) == {i \in DOMAIN bus_aw : bus_aw[i].id = id}
InWr(id) == {i \in DOMAIN bus_wr : bus_wr[i].id = id}
InB(id) == {i \in DOMAIN bfifo : bfifo[i] = id}
Open(id) == Cardinality(InAw(id)) + Cardinality(InWr(id)) + Cardinality(InB(id))
Opened ==
  /\ \A k \in CawtIx : Open(<<"vb", k>>) = IF cawt[k] # NONE THEN 1 ELSE 0
  /\ \A k \in NcwtIx : Open(<<"wo", k>>) =
       IF ncwt[k].addr # NONE /\ ~ncwt[k].bus_done THEN 1 ELSE 0
  /\ \A c \in CORE : Open(<<"so", c>>) = so_bus_cnt[c]
Ids == {<<w.id, w.addr>> : w \in OnBus}
Names(id, a) == /\ id[1] = "vb" => cawt[id[2]] = a
                /\ id[1] = "wo" => ncwt[id[2]].addr = a
                /\ id[1] = "so" => id[2] = a
Owned == \A x \in Ids : Names(x[1], x[2])
OneEntry ==
  /\ \A j, k \in CawtIx : cawt[j] = cawt[k] /\ cawt[j] # NONE => j = k
  /\ \A j, k \in NcwtIx : ncwt[j].addr = ncwt[k].addr /\ ncwt[j].addr # NONE => j = k
IdInv == Opened /\ Owned /\ OneEntry
BfifoInv == BfifoRoom /\ Len(bfifo) <= 2

(***************************************************************************)
(* The accesses of the cores.                                              *)
(***************************************************************************)
Unanswered(a) == \E k \in NcwtIx : ncwt[k].addr = a /\ ~ncwt[k].resp_done
WoWrites ==
  /\ \A i \in DOMAIN waq : waq[i].kind = "wo" =>
       /\ wo[waq[i].addr] = "wr" /\ ~Unanswered(waq[i].addr)
       /\ \A j \in DOMAIN waq : waq[j].addr = waq[i].addr => i = j
  /\ \A a \in WO : Unanswered(a) => wo[a] = "wr"
WoReads ==
  /\ \A i \in DOMAIN raq : raq[i].kind = "wo" =>
       /\ wo[raq[i].addr] = "rd" /\ raq[i] \notin bus_rd
       /\ \A j \in DOMAIN raq : raq[j] = raq[i] => i = j
  /\ \A r \in bus_rd : r.kind = "wo" => wo[r.addr] = "rd"
WoOne == WoWrites /\ WoReads

WaitingSo(c) == {i \in DOMAIN waq : waq[i].addr = c}
Past(c) == IF so_ex_fail[c] # "IDLE" THEN 1 ELSE so_bus_cnt[c]
WaqKind(k) == IF k = "wr" THEN "so" ELSE k
SoWrites(c) ==
  /\ Past(c) <= Len(so[c])
  /\ so_ex_fail[c] # "IDLE" => so_bus_cnt[c] = 0 /\ so[c][1] = "fail"
  /\ \A i \in 1 .. so_bus_cnt[c] : so[c][i] = "wr"
  /\ \E p \in [WaitingSo(c) -> 1 .. Len(so[c]) - Past(c)] :
       /\ Ranks(WaitingSo(c), Len(so[c]) - Past(c), p)
       /\ \A i \in WaitingSo(c) : waq[i].kind = WaqKind(so[c][Past(c) + p[i]])
SoRd(c) == [addr |-> c, kind |-> "so"]
SoOrder(c) ==
  /\ so[c] # <<"rd">> => SoWrites(c)
  /\ so[c] = <<"rd">> => Past(c) = 0 /\ WaitingSo(c) = {}
SoReads(c) ==
  /\ SoRd(c) \in bus_rd => so[c] = <<"rd">>
  /\ \A i \in DOMAIN raq : raq[i] = SoRd(c) =>
       /\ so[c] = <<"rd">> /\ SoRd(c) \notin bus_rd
       /\ \A j \in DOMAIN raq : raq[j] = raq[i] => i = j
SoOne == \A c \in CORE : SoOrder(c) /\ SoReads(c)
FailedOne ==
  \A i \in 1 .. GrantedNcq : woq_ncq[i].kind = "fail" =>
    /\ so_ex_fail[woq_ncq[i].addr] = "WFD"
    /\ \A j \in 1 .. GrantedNcq : woq_ncq[j] = woq_ncq[i] => i = j
SoInv == SoOne /\ FailedOne

IInv == /\ Types /\ VbRing /\ Named /\ LineWrites /\ LineReads /\ Order
        /\ IdInv /\ BfifoInv /\ WoOne /\ SoInv
        /\ ReadsFollowWrites /\ DataMeetsAddress

-----------------------------------------------------------------------------
(***************************************************************************)
(* What the actions of the VB do, entry by entry.                          *)
(***************************************************************************)
LEMMA VidFacts ==
  /\ VID = {0, 1} /\ \A v \in VID : 1 - v \in VID /\ 1 - v # v /\ 1 - (1 - v) = v
  /\ \A u, v \in VID : u # v => u = 1 - v
BY DEF VID

\* The other entry keeps its contents, the other pointers their place.
LEMMA PtrUpdate ==
  ASSUME LineTypes
  PROVE  /\ [vb_ptr EXCEPT !.create = 1 - @] =
               [create |-> 1 - vb_ptr.create, req |-> vb_ptr.req, pop |-> vb_ptr.pop]
         /\ [vb_ptr EXCEPT !.req = 1 - @] =
               [create |-> vb_ptr.create, req |-> 1 - vb_ptr.req, pop |-> vb_ptr.pop]
         /\ [vb_ptr EXCEPT !.pop = 1 - @] =
               [create |-> vb_ptr.create, req |-> vb_ptr.req, pop |-> 1 - vb_ptr.pop]
         /\ vb_ptr.create \in VID /\ vb_ptr.req \in VID /\ vb_ptr.pop \in VID
BY DEF LineTypes

LEMMA VbUpdate ==
  ASSUME NEW r \in VbEntry, NEW l, NEW x \in BOOLEAN
  PROVE  /\ [r EXCEPT !.en = x] = [aw |-> r.aw, en |-> x, w |-> r.w]
         /\ [r EXCEPT !.aw = l, !.en = x] = [aw |-> l, en |-> x, w |-> r.w]
<1>1. [r EXCEPT !.en = x] = [aw |-> r.aw, en |-> x, w |-> r.w]
  BY DEF VbEntry
<1>2. [r EXCEPT !.aw = l] = [aw |-> l, en |-> r.en, w |-> r.w]
  BY DEF VbEntry
<1>3. [[r EXCEPT !.aw = l] EXCEPT !.en = x] = [r EXCEPT !.aw = l, !.en = x]
  OBVIOUS
<1>4. [[aw |-> l, en |-> r.en, w |-> r.w] EXCEPT !.en = x] = [aw |-> l, en |-> x, w |-> r.w]
  OBVIOUS
<1> QED
  BY <1>1, <1>2, <1>3, <1>4, Zenon

LEMMA VbCreate ==
  ASSUME LineTypes, NEW b \in BANK, VbAwGrant(b)
  PROVE  LET v == vb_ptr.create
             l == ebiu_aw_buf[b]
         IN  /\ l \in LINE /\ l # NONE /\ v \in VID /\ vb[v].aw = NONE
             /\ vb' = [vb EXCEPT ![v] = [aw |-> l, en |-> TRUE, w |-> vb[v].w]]
             /\ vb' \in [VID -> VbEntry]
             /\ vb_ptr' = [create |-> 1 - v, req |-> vb_ptr.req, pop |-> vb_ptr.pop]
<1> DEFINE v == vb_ptr.create
           l == ebiu_aw_buf[b]
<1>1. l \in LINE /\ l # NONE /\ v \in VID /\ vb[v].aw = NONE /\ vb[v] \in VbEntry
  BY PtrUpdate DEF LineTypes, VbAwGrant, vb_aw_full
<1>2. [vb[v] EXCEPT !.aw = l, !.en = TRUE] = [aw |-> l, en |-> TRUE, w |-> vb[v].w]
  BY <1>1, VbUpdate
<1>3. vb' = [vb EXCEPT ![v] = [vb[v] EXCEPT !.aw = l, !.en = TRUE]]
  BY DEF VbAwGrant
<1>4. vb' = [vb EXCEPT ![v] = [aw |-> l, en |-> TRUE, w |-> vb[v].w]]
  BY <1>2, <1>3
<1>5. [aw |-> l, en |-> TRUE, w |-> vb[v].w] \in VbEntry
  BY <1>1 DEF VbEntry
<1>6. vb' \in [VID -> VbEntry]
  BY <1>1, <1>4, <1>5 DEF LineTypes
<1>7. vb_ptr' = [create |-> 1 - v, req |-> vb_ptr.req, pop |-> vb_ptr.pop]
  BY PtrUpdate DEF VbAwGrant
<1> QED
  BY <1>1, <1>4, <1>6, <1>7

LEMMA VbVictim ==
  ASSUME LineTypes, NEW l \in LINE, L2Victim(l)
  PROVE  LET v == vb_ptr.create
         IN  /\ l # NONE /\ v \in VID /\ vb[v].aw = NONE
             /\ vb' = [vb EXCEPT ![v] = [aw |-> l, en |-> TRUE, w |-> l]]
             /\ vb' \in [VID -> VbEntry]
             /\ vb_ptr' = [create |-> 1 - v, req |-> vb_ptr.req, pop |-> vb_ptr.pop]
<1>1. [aw |-> l, en |-> TRUE, w |-> l] \in VbEntry /\ l # NONE
  BY SizeAssumption DEF VbEntry
<1>2. vb_ptr' = [create |-> 1 - vb_ptr.create, req |-> vb_ptr.req, pop |-> vb_ptr.pop]
  BY PtrUpdate DEF L2Victim
<1> QED
  BY <1>1, <1>2, PtrUpdate DEF LineTypes, L2Victim, vb_aw_full

LEMMA VbData ==
  ASSUME LineTypes, NEW b \in BANK, VbWGrant(b)
  PROVE  LET s == Head(ebiu_sel_fifo[b])
         IN  /\ s \in Select /\ s.vid \in VID /\ s.line \in LINE
             /\ ebiu_sel_fifo[b] # <<>> /\ s = ebiu_sel_fifo[b][1]
             /\ vb' = [vb EXCEPT ![s.vid] =
                        [aw |-> vb[s.vid].aw, en |-> vb[s.vid].en, w |-> s.line]]
             /\ vb' \in [VID -> VbEntry]
             /\ line' = [line EXCEPT ![s.line] = NONE]
             /\ UNCHANGED vb_ptr
<1> DEFINE s == Head(ebiu_sel_fifo[b])
           v == s.vid
<1>1. /\ ebiu_sel_fifo[b] # <<>> /\ ebiu_sel_fifo[b] \in Seq(Select)
      /\ s = ebiu_sel_fifo[b][1] /\ s \in Select
  BY DEF LineTypes, VbWGrant
<1>2. v \in VID /\ s.line \in LINE
  BY <1>1 DEF Select
<1>3. vb[v] \in VbEntry
  BY <1>2 DEF LineTypes
<1>4. [vb[v] EXCEPT !.w = s.line] = [aw |-> vb[v].aw, en |-> vb[v].en, w |-> s.line]
  BY <1>3 DEF VbEntry
<1>5. vb' = [vb EXCEPT ![v] = [vb[v] EXCEPT !.w = s.line]]
  BY DEF VbWGrant, put_entry
<1>6. [aw |-> vb[v].aw, en |-> vb[v].en, w |-> s.line] \in VbEntry
  BY <1>2, <1>3 DEF VbEntry
<1>7. vb' \in [VID -> VbEntry]
  BY <1>2, <1>4, <1>5, <1>6 DEF LineTypes
<1> QED
  BY <1>1, <1>2, <1>4, <1>5, <1>7 DEF VbWGrant

LEMMA VbAsk ==
  ASSUME LineTypes, EbiuVbAwGrant
  PROVE  LET v == vb_ptr.req
         IN  /\ v \in VID /\ vb[v].aw \in LINE /\ vb[v].aw # NONE /\ vb[v].en
             /\ vb' = [vb EXCEPT ![v] = [aw |-> vb[v].aw, en |-> FALSE, w |-> vb[v].w]]
             /\ vb' \in [VID -> VbEntry]
             /\ vb_ptr' = [create |-> vb_ptr.create, req |-> 1 - v, pop |-> vb_ptr.pop]
<1> DEFINE v == vb_ptr.req
<1>1. v \in VID /\ vb[v] \in VbEntry /\ vb[v].aw # NONE /\ vb[v].en
  BY PtrUpdate DEF LineTypes, EbiuVbAwGrant
<1>2. [vb[v] EXCEPT !.en = FALSE] = [aw |-> vb[v].aw, en |-> FALSE, w |-> vb[v].w]
  BY <1>1, VbUpdate
<1>3. vb' = [vb EXCEPT ![v] = [vb[v] EXCEPT !.en = FALSE]]
  BY DEF EbiuVbAwGrant
<1>4. [aw |-> vb[v].aw, en |-> FALSE, w |-> vb[v].w] \in VbEntry /\ vb[v].aw \in LINE
  BY <1>1 DEF VbEntry
<1>5. vb' \in [VID -> VbEntry]
  BY <1>1, <1>2, <1>3, <1>4 DEF LineTypes
<1>6. vb_ptr' = [create |-> vb_ptr.create, req |-> 1 - v, pop |-> vb_ptr.pop]
  BY PtrUpdate DEF EbiuVbAwGrant
<1> QED
  BY <1>1, <1>2, <1>3, <1>4, <1>5, <1>6

LEMMA VbPop ==
  ASSUME LineTypes, EbiuVbWGrant
  PROVE  LET v == vb_ptr.pop
         IN  /\ v \in VID /\ vb[v].w # NONE /\ vb[v].w \in LINE
             /\ vb' = [vb EXCEPT ![v] = EmptyVB] /\ vb' \in [VID -> VbEntry]
             /\ vb_ptr' = [create |-> vb_ptr.create, req |-> vb_ptr.req, pop |-> 1 - v]
<1> DEFINE v == vb_ptr.pop
<1>1. v \in VID /\ vb[v] \in VbEntry /\ vb[v].w # NONE
  BY PtrUpdate DEF LineTypes, EbiuVbWGrant
<1>2. vb[v].w \in LINE /\ EmptyVB \in VbEntry
  BY <1>1 DEF VbEntry, EmptyVB
<1>3. vb' = [vb EXCEPT ![v] = EmptyVB] /\ vb_ptr' = [vb_ptr EXCEPT !.pop = 1 - @]
  BY DEF EbiuVbWGrant
<1>4. vb' \in [VID -> VbEntry]
  BY <1>1, <1>2, <1>3 DEF LineTypes
<1> QED
  BY <1>1, <1>2, <1>3, <1>4, PtrUpdate

-----------------------------------------------------------------------------
(***************************************************************************)
(* Which steps touch which variables.                                      *)
(***************************************************************************)
LEMMA LineSteps ==
  ASSUME Next
  PROVE  \/ UNCHANGED <<line, ebiu_aw_buf, ebiu_sel_fifo, vb, vb_ptr>>
         \/ \E l \in LINE : SnbWrite(l) \/ SnbRead(l) \/ L2Victim(l)
         \/ \E b \in BANK : VbAwGrant(b) \/ VbWGrant(b)
         \/ EbiuVbAwGrant \/ EbiuVbWGrant
         \/ \E r \in bus_rd : r.kind = "line" /\ BusR(r)
<1> USE DEF snb, ncq, nct, sos, cat, wbus, rds, bch
<1>1. CASE Ask
  BY <1>1 DEF Ask, WoWrite, WoRead, SoWrite, SoRead, NcqWrite, NcqRead
<1>2. CASE Serve
  BY <1>2 DEF Serve, EbiuifArGrant, NcqWoAwGrant, NcqSoAwGrant, NcqWGrant,
              NcqBWo, NcqBExFail, NcqArGrant, BusR, BClock
<1> QED
  BY <1>1, <1>2 DEF Next

LEMMA WriteSteps ==
  ASSUME Next
  PROVE  \/ UNCHANGED <<waq, woq_ncq, woq, bus_aw, vb, vb_ptr>>
         \/ \E w \in NcqWr : NcqWrite(w)
         \/ \E l \in LINE : L2Victim(l)
         \/ \E b \in BANK : VbAwGrant(b) \/ VbWGrant(b)
         \/ EbiuVbAwGrant \/ NcqWoAwGrant \/ NcqSoAwGrant
         \/ EbiuVbWGrant \/ NcqWGrant
<1> USE DEF snb, ncq, nct, sos, cat, wbus, rds, bch
<1>1. ASSUME NEW a \in WO, WoWrite(a) PROVE \E w \in NcqWr : NcqWrite(w)
  BY <1>1 DEF WoWrite, NcqWr
<1>2. ASSUME NEW c \in CORE, NEW fail \in BOOLEAN, SoWrite(c, fail)
      PROVE  \E w \in NcqWr : NcqWrite(w)
  BY <1>2 DEF SoWrite, NcqWr
<1>3. CASE Ask
  BY <1>1, <1>2, <1>3 DEF Ask, SnbWrite, SnbRead, WoRead, SoRead, NcqRead
<1>4. CASE Serve
  BY <1>4 DEF Serve, EbiuifArGrant, NcqBWo, NcqBExFail, NcqArGrant, BusR, BClock
<1> QED
  BY <1>3, <1>4 DEF Next

LEMMA ReadSteps ==
  ASSUME Next
  PROVE  \/ UNCHANGED <<ebiu_ar_buf, raq, bus_rd>>
         \/ \E l \in LINE : SnbRead(l)
         \/ \E r \in NcqRd : NcqRead(r)
         \/ \E b \in BANK : EbiuifArGrant(b)
         \/ NcqArGrant \/ \E r \in bus_rd : BusR(r)
<1> USE DEF snb, ncq, nct, sos, cat, wbus, rds, bch
<1>1. ASSUME NEW a \in WO, WoRead(a) PROVE \E r \in NcqRd : NcqRead(r)
  BY <1>1 DEF WoRead, NcqRd
<1>2. ASSUME NEW c \in CORE, SoRead(c) PROVE \E r \in NcqRd : NcqRead(r)
  BY <1>2 DEF SoRead, NcqRd
<1>3. CASE Ask
  BY <1>1, <1>2, <1>3 DEF Ask, SnbWrite, L2Victim, WoWrite, SoWrite, NcqWrite
<1>4. CASE Serve
  BY <1>4 DEF Serve, VbAwGrant, VbWGrant, EbiuVbAwGrant, NcqWoAwGrant, NcqSoAwGrant,
              EbiuVbWGrant, NcqWGrant, NcqBWo, NcqBExFail, BClock
<1> QED
  BY <1>3, <1>4 DEF Next

-----------------------------------------------------------------------------
(***************************************************************************)
(* Lines and the VB: types.                                                *)
(***************************************************************************)
LEMMA SelTail ==
  ASSUME LineTypes, NEW b \in BANK, ebiu_sel_fifo[b] # <<>>
  PROVE  /\ [ebiu_sel_fifo EXCEPT ![b] = Tail(@)] \in [BANK -> Seq(Select)]
         /\ Len(Tail(ebiu_sel_fifo[b])) = Len(ebiu_sel_fifo[b]) - 1
         /\ \A i \in DOMAIN Tail(ebiu_sel_fifo[b]) :
              /\ i + 1 \in DOMAIN ebiu_sel_fifo[b] /\ i + 1 # 1
              /\ Tail(ebiu_sel_fifo[b])[i] = ebiu_sel_fifo[b][i + 1]
         /\ \A i \in DOMAIN ebiu_sel_fifo[b] :
              i # 1 => i - 1 \in DOMAIN Tail(ebiu_sel_fifo[b]) /\ (i - 1) + 1 = i
         /\ 1 \in DOMAIN ebiu_sel_fifo[b]
BY DEF LineTypes

LEMMA LineTypesStep ==
  ASSUME Types, Next
  PROVE  LineTypes'
<1> USE DEF Types
<1>1. ASSUME NEW l \in LINE, SnbWrite(l) PROVE LineTypes'
  BY <1>1 DEF SnbWrite, LineTypes, AddressAssumption
<1>2. ASSUME NEW l \in LINE, SnbRead(l) PROVE LineTypes'
  BY <1>2 DEF SnbRead, LineTypes, snb
<1>3. ASSUME NEW l \in LINE, L2Victim(l) PROVE LineTypes'
  <2>1. vb_ptr' \in [create : VID, req : VID, pop : VID]
    <3>1. 1 - vb_ptr.create \in VID
      BY PtrUpdate, VidFacts
    <3>2. vb_ptr' = [create |-> 1 - vb_ptr.create, req |-> vb_ptr.req, pop |-> vb_ptr.pop]
      BY <1>3, VbVictim
    <3> QED
      BY <3>1, <3>2, PtrUpdate
  <2> QED
    BY <1>3, <2>1, VbVictim DEF LineTypes, L2Victim, snb
<1>4. ASSUME NEW b \in BANK, VbAwGrant(b) PROVE LineTypes'
  <2> DEFINE x == [vid |-> vb_ptr.create, line |-> ebiu_aw_buf[b]]
  <2>1. vb_ptr' \in [create : VID, req : VID, pop : VID]
    <3>1. 1 - vb_ptr.create \in VID
      BY PtrUpdate, VidFacts
    <3>2. vb_ptr' = [create |-> 1 - vb_ptr.create, req |-> vb_ptr.req, pop |-> vb_ptr.pop]
      BY <1>4, VbCreate
    <3> QED
      BY <3>1, <3>2, PtrUpdate
  <2>2. x \in Select
    BY <1>4, VbCreate DEF Select
  <2>3. \/ UNCHANGED <<ebiu_aw_buf, ebiu_sel_fifo>>
        \/ /\ ebiu_aw_buf' = [ebiu_aw_buf EXCEPT ![b] = NONE]
           /\ ebiu_sel_fifo' = [ebiu_sel_fifo EXCEPT ![b] = Append(@, x)]
    BY <1>4 DEF VbAwGrant
  <2> HIDE DEF x
  <2>4. /\ ebiu_sel_fifo' \in [BANK -> Seq(Select)]
        /\ ebiu_aw_buf' \in [BANK -> LINE \cup {NONE}]
    <3>1. Append(ebiu_sel_fifo[b], x) \in Seq(Select)
      BY <2>2 DEF LineTypes
    <3> QED
      BY ZenonT(60), <2>3, <3>1 DEF LineTypes
  <2> QED
    BY <1>4, <2>1, <2>4, VbCreate DEF LineTypes, VbAwGrant
<1>5. ASSUME NEW b \in BANK, VbWGrant(b) PROVE LineTypes'
  <2>1. line' \in [LINE -> {NONE, "wr", "rd"}]
    BY <1>5, VbData DEF LineTypes
  <2>2. ebiu_sel_fifo' \in [BANK -> Seq(Select)]
    BY <1>5, SelTail DEF VbWGrant
  <2> QED
    BY <1>5, <2>1, <2>2, VbData DEF LineTypes, VbWGrant
<1>6. CASE EbiuVbAwGrant
  <2>1. vb_ptr' \in [create : VID, req : VID, pop : VID]
    BY <1>6, VbAsk, PtrUpdate, VidFacts
  <2> QED
    BY <1>6, <2>1, VbAsk DEF LineTypes, EbiuVbAwGrant, snb
<1>7. CASE EbiuVbWGrant
  <2>1. vb_ptr' \in [create : VID, req : VID, pop : VID]
    BY <1>7, VbPop, PtrUpdate, VidFacts
  <2> QED
    BY <1>7, <2>1, VbPop DEF LineTypes, EbiuVbWGrant, snb
<1>8. ASSUME NEW r \in bus_rd, r.kind = "line", BusR(r) PROVE LineTypes'
  <2>1. line' \in [LINE -> {NONE, "wr", "rd"}]
    BY <1>8 DEF BusR, LineTypes
  <2> QED
    BY <1>8, <2>1 DEF BusR, LineTypes, snb
<1>9. CASE UNCHANGED <<line, ebiu_aw_buf, ebiu_sel_fifo, vb, vb_ptr>>
  BY <1>9 DEF LineTypes
<1> QED
  BY <1>1, <1>2, <1>3, <1>4, <1>5, <1>6, <1>7, <1>8, <1>9, LineSteps

(***************************************************************************)
(* The ring of the VB.                                                     *)
(***************************************************************************)
\* A bank whose select FIFO is full has filled both entries of the VB.
LEMMA FullMeansTaken ==
  ASSUME LineTypes, Named, NEW b \in BANK, sel_fifo_full(b), NEW v \in VID
  PROVE  Occupied(v)
<1>1. /\ 1 \in DOMAIN ebiu_sel_fifo[b] /\ 2 \in DOMAIN ebiu_sel_fifo[b]
      /\ ebiu_sel_fifo[b][1] \in Select /\ ebiu_sel_fifo[b][2] \in Select
  <2>1. ebiu_sel_fifo[b] \in Seq(Select) /\ Len(ebiu_sel_fifo[b]) = 2
    BY DEF LineTypes, sel_fifo_full
  <2> QED
    BY <2>1
<1> DEFINE u == ebiu_sel_fifo[b][1].vid
           w == ebiu_sel_fifo[b][2].vid
<1>2. u \in VID /\ w \in VID
  BY <1>1 DEF Select
<1>3. u # w
  <2>1. u = w => b = b /\ 1 = 2
    BY <1>1 DEF Named, NamedOnce
  <2> QED
    BY <2>1
<1>4. Occupied(u) /\ Occupied(w)
  BY <1>1, <1>2, SizeAssumption DEF Named, NamedRight, Occupied, LineTypes, Select
<1>5. v = u \/ v = w
  BY <1>2, <1>3, VidFacts
<1> QED
  BY <1>4, <1>5

LEMMA RingStep ==
  ASSUME Types, VbRing, Named, Next,
         EbiuVbWGrant => Asked(vb_ptr.pop)
  PROVE  VbRing'
<1> USE DEF Types
<1> DEFINE c == vb_ptr.create
           p == vb_ptr.pop
           q == vb_ptr.req
<1>0. c \in {0, 1} /\ p \in {0, 1} /\ q \in {0, 1} /\ vb \in [{0, 1} -> VbEntry]
  BY PtrUpdate, VidFacts DEF LineTypes
<1>a. ASSUME NEW l \in LINE, l # NONE, NEW x \in {NONE, l}, vb[c].aw = NONE,
             vb' = [vb EXCEPT ![c] = [aw |-> l, en |-> TRUE, w |-> x]],
             vb_ptr' = [create |-> 1 - c, req |-> q, pop |-> p]
      PROVE  VbRing'
  <2>1. vb'[c] = [aw |-> l, en |-> TRUE, w |-> x] /\ vb'[1 - c] = vb[1 - c]
    BY <1>0, <1>a
  <2>2. vb_ptr'.create = 1 - c /\ vb_ptr'.pop = p /\ vb_ptr'.req = q
    BY <1>a
  <2>3. CASE c = 0
    BY <1>0, <1>a, <2>1, <2>2, <2>3 DEF VbRing, Occupied, Asked, VID
  <2>4. CASE c = 1
    BY <1>0, <1>a, <2>1, <2>2, <2>4 DEF VbRing, Occupied, Asked, VID
  <2> QED
    BY <1>0, <2>3, <2>4
<1>1. ASSUME NEW b \in BANK, VbAwGrant(b) PROVE VbRing'
  <2>1. vb[c].w = NONE
    BY <1>1, VbCreate DEF VbRing
  <2> QED
    BY <1>1, <1>a, <2>1, VbCreate
<1>2. ASSUME NEW l \in LINE, L2Victim(l) PROVE VbRing'
  BY <1>2, <1>a, VbVictim
<1>3. ASSUME NEW b \in BANK, VbWGrant(b) PROVE VbRing'
  <2> DEFINE s == Head(ebiu_sel_fifo[b])
  <2>1. s.vid \in VID /\ s.line = vb[s.vid].aw
    <3>1. 1 \in DOMAIN ebiu_sel_fifo[b] /\ s = ebiu_sel_fifo[b][1] /\ s.vid \in VID
      BY <1>3, VbData, SelTail
    <3> QED
      BY <3>1 DEF Named, NamedRight
  <2>2. /\ vb' = [vb EXCEPT ![s.vid] = [aw |-> vb[s.vid].aw, en |-> vb[s.vid].en, w |-> s.line]]
        /\ vb_ptr' = vb_ptr
    BY <1>3, VbData
  <2> HIDE DEF s
  <2>3. \A v \in VID : vb'[v].aw = vb[v].aw /\ vb'[v].en = vb[v].en
                        /\ vb'[v].w \in {vb[v].w, vb[v].aw}
    BY <1>0, <2>1, <2>2, VidFacts
  <2>4. \A v \in VID : (Occupied(v)' = Occupied(v)) /\ (Asked(v)' = Asked(v))
    BY <2>3 DEF Occupied, Asked
  <2> QED
    BY <2>2, <2>3, <2>4, <1>0, VidFacts DEF VbRing
<1>4. CASE EbiuVbAwGrant
  <2>1. /\ vb'[q] = [aw |-> vb[q].aw, en |-> FALSE, w |-> vb[q].w] /\ vb'[1 - q] = vb[1 - q]
        /\ vb[q].aw # NONE /\ vb[q].en
    BY <1>0, <1>4, VbAsk
  <2>2. vb_ptr'.create = c /\ vb_ptr'.pop = p /\ vb_ptr'.req = 1 - q
    BY <1>4, VbAsk
  <2>3. CASE q = 0
    BY <1>0, <2>1, <2>2, <2>3 DEF VbRing, Occupied, Asked, VID
  <2>4. CASE q = 1
    BY <1>0, <2>1, <2>2, <2>4 DEF VbRing, Occupied, Asked, VID
  <2> QED
    BY <1>0, <2>3, <2>4
<1>5. CASE EbiuVbWGrant
  <2>1. vb'[p] = EmptyVB /\ vb'[1 - p] = vb[1 - p] /\ Asked(p)
    BY <1>0, <1>5, VbPop
  <2>2. vb_ptr'.create = c /\ vb_ptr'.pop = 1 - p /\ vb_ptr'.req = q
    BY <1>5, VbPop
  <2>3. CASE p = 0
    BY <1>0, <2>1, <2>2, <2>3 DEF VbRing, Occupied, Asked, VID, EmptyVB
  <2>4. CASE p = 1
    BY <1>0, <2>1, <2>2, <2>4 DEF VbRing, Occupied, Asked, VID, EmptyVB
  <2> QED
    BY <1>0, <2>3, <2>4
<1>6. CASE UNCHANGED <<vb, vb_ptr>>
  BY <1>6 DEF VbRing, Occupied, Asked
<1>7. \/ UNCHANGED <<vb, vb_ptr>> \/ \E l \in LINE : L2Victim(l)
      \/ \E b \in BANK : VbAwGrant(b) \/ VbWGrant(b)
      \/ EbiuVbAwGrant \/ EbiuVbWGrant
  BY LineSteps DEF SnbWrite, SnbRead, BusR
<1> QED
  BY <1>1, <1>2, <1>3, <1>4, <1>5, <1>6, <1>7

(***************************************************************************)
(* Data are due once for each entry of the VB that has none.               *)
(***************************************************************************)
LEMMA NamedStep ==
  ASSUME Types, VbRing, Named, Next
  PROVE  Named'
<1> USE DEF Types
<1> DEFINE sel == ebiu_sel_fifo
           WaitsNow(v) == vb'[v].aw # NONE /\ vb'[v].w = NONE
<1>0. vb \in [VID -> VbEntry] /\ sel \in [BANK -> Seq(Select)]
  BY DEF LineTypes
<1>a. ASSUME NEW b \in BANK, NEW i \in DOMAIN sel[b]
      PROVE  /\ sel[b][i] \in Select /\ sel[b][i].vid \in VID
             /\ Waits(sel[b][i].vid) /\ sel[b][i].line = vb[sel[b][i].vid].aw
  <2>1. sel[b] \in Seq(Select) /\ sel[b][i] \in Select
    BY <1>0
  <2>2. sel[b][i].vid \in VID /\ sel[b][i].line \in LINE
    BY <2>1 DEF Select
  <2> QED
    BY <2>1, <2>2, SizeAssumption DEF Named, NamedRight, Waits
<1>1. ASSUME NEW b \in BANK, VbAwGrant(b) PROVE Named'
  <2> DEFINE c == vb_ptr.create
             l == ebiu_aw_buf[b]
             x == [vid |-> c, line |-> l]
             n == Len(sel[b])
  <2>1. /\ c \in VID /\ l \in LINE /\ l # NONE /\ vb[c].aw = NONE
        /\ vb' = [vb EXCEPT ![c] = [aw |-> l, en |-> TRUE, w |-> vb[c].w]]
    BY <1>1, VbCreate
  <2>2. ~sel_fifo_full(b)
    BY <2>1, FullMeansTaken DEF Occupied
  <2>3. sel' = [sel EXCEPT ![b] = Append(@, x)]
    BY <1>1, <2>2 DEF VbAwGrant
  <2>4. x.vid = c /\ x.line = l
    OBVIOUS
  <2>5. /\ \A v \in VID : v # c => vb'[v] = vb[v]
        /\ vb'[c].aw = l /\ vb'[c].w = NONE
    BY <1>0, <2>1 DEF VbRing
  <2> HIDE DEF x, c, l
  <2>6. /\ n \in Nat /\ n + 1 \in DOMAIN sel'[b] /\ sel'[b][n + 1] = x
        /\ \A i \in DOMAIN sel[b] : i \in DOMAIN sel'[b] /\ sel'[b][i] = sel[b][i]
        /\ \A i \in DOMAIN sel'[b] : i \in DOMAIN sel[b] \/ i = n + 1
        /\ \A d \in BANK : d # b => sel'[d] = sel[d]
    BY <1>0, <2>3
  <2>7. ASSUME NEW d \in BANK, NEW i \in DOMAIN sel'[d]
        PROVE  \/ i \in DOMAIN sel[d] /\ sel'[d][i] = sel[d][i] /\ sel[d][i].vid # c
               \/ d = b /\ i = n + 1 /\ sel'[d][i] = x
    BY <1>a, <2>1, <2>6 DEF Waits
  <2>8. ASSUME NEW v \in VID, WaitsNow(v)
        PROVE  \E d \in BANK : \E i \in DOMAIN sel'[d] : sel'[d][i].vid = v
    <3>1. CASE v = c
      BY <2>4, <2>6, <3>1
    <3>2. CASE v # c
      <4>1. Waits(v)
        BY <2>5, <2>8, <3>2 DEF Waits
      <4>2. PICK d \in BANK : \E i \in DOMAIN sel[d] : sel[d][i].vid = v
        BY <4>1 DEF Named, NamedSome, NamedRight, NamedOnce
      <4>3. \A i \in DOMAIN sel[d] : i \in DOMAIN sel'[d] /\ sel'[d][i] = sel[d][i]
        BY <2>6
      <4> QED
        BY <4>2, <4>3
    <3> QED
      BY <3>1, <3>2
  <2>9. ASSUME NEW d \in BANK, NEW i \in DOMAIN sel'[d]
        PROVE  vb'[sel'[d][i].vid].w = NONE /\ sel'[d][i].line = vb'[sel'[d][i].vid].aw
    <3>1. CASE i \in DOMAIN sel[d] /\ sel'[d][i] = sel[d][i] /\ sel[d][i].vid # c
      BY <1>a, <2>5, <3>1 DEF Waits
    <3>2. CASE sel'[d][i] = x
      BY <2>1, <2>4, <2>5, <3>2 DEF Waits
    <3> QED
      BY <2>7, <3>1, <3>2
  <2>10. ASSUME NEW d \in BANK, NEW e \in BANK, NEW i \in DOMAIN sel'[d],
                NEW j \in DOMAIN sel'[e], sel'[d][i].vid = sel'[e][j].vid
         PROVE  d = e /\ i = j
    <3>1. CASE /\ i \in DOMAIN sel[d] /\ sel'[d][i] = sel[d][i]
               /\ j \in DOMAIN sel[e] /\ sel'[e][j] = sel[e][j]
      BY <2>10, <3>1 DEF Named, NamedSome, NamedRight, NamedOnce
    <3> QED
      BY <2>4, <2>7, <2>10, <3>1
  <2>11. NamedSome'
    BY <2>8 DEF NamedSome, Waits
  <2>12. NamedRight'
    BY <2>9 DEF NamedRight
  <2>13. NamedOnce'
    BY <2>10 DEF NamedOnce
  <2> QED
    BY <2>11, <2>12, <2>13 DEF Named
<1>2. ASSUME NEW b \in BANK, VbWGrant(b) PROVE Named'
  <2> DEFINE s == Head(sel[b])
  <2>1. /\ s.vid \in VID /\ s.line \in LINE /\ sel[b] # <<>> /\ s = sel[b][1]
        /\ vb' = [vb EXCEPT ![s.vid] = [aw |-> vb[s.vid].aw, en |-> vb[s.vid].en, w |-> s.line]]
    BY <1>2, VbData
  <2>2. sel' = [sel EXCEPT ![b] = Tail(@)]
    BY <1>2 DEF VbWGrant
  <2>3. /\ sel'[b] = Tail(sel[b]) /\ \A d \in BANK : d # b => sel'[d] = sel[d]
    BY <1>0, <2>2
  <2> HIDE DEF s
  <2>4. /\ \A v \in VID : v # s.vid => vb'[v] = vb[v]
        /\ vb'[s.vid].w = s.line /\ s.line # NONE
    BY <1>0, <2>1, SizeAssumption
  <2>5. 1 \in DOMAIN sel[b]
    BY <2>1, SelTail
  <2>6. ASSUME NEW d \in BANK, NEW i \in DOMAIN sel'[d]
        PROVE  /\ d # b => i \in DOMAIN sel[d] /\ sel'[d][i] = sel[d][i]
               /\ d = b => i + 1 \in DOMAIN sel[d] /\ sel'[d][i] = sel[d][i + 1]
               /\ sel'[d][i].vid # s.vid
    <3>1. CASE d # b
      BY <2>1, <2>3, <2>5, <3>1 DEF Named, NamedSome, NamedRight, NamedOnce
    <3>2. CASE d = b
      <4>a. i \in DOMAIN Tail(sel[b])
        BY <2>3, <3>2
      <4>1. i + 1 \in DOMAIN sel[b] /\ i + 1 # 1 /\ sel'[b][i] = sel[b][i + 1]
        BY <2>1, <2>3, <4>a, SelTail
      <4>2. sel[b][i + 1].vid = sel[b][1].vid => i + 1 = 1
        BY <2>5, <4>1 DEF Named, NamedSome, NamedRight, NamedOnce
      <4> QED
        BY <2>1, <3>2, <4>1, <4>2
    <3> QED
      BY <3>1, <3>2
  <2>7. ASSUME NEW v \in VID, WaitsNow(v)
        PROVE  \E d \in BANK : \E i \in DOMAIN sel'[d] : sel'[d][i].vid = v
    <3>1. v # s.vid /\ Waits(v)
      BY <2>4, <2>7 DEF Waits
    <3>2. PICK d \in BANK : \E i \in DOMAIN sel[d] : sel[d][i].vid = v
      BY <3>1 DEF Named, NamedSome, NamedRight, NamedOnce
    <3>a. PICK i \in DOMAIN sel[d] : sel[d][i].vid = v
      BY <3>2
    <3>3. CASE d # b
      BY <2>3, <3>a, <3>3
    <3>4. CASE d = b
      <4>1. i # 1
        BY <2>1, <3>1, <3>a, <3>4
      <4>2. i - 1 \in DOMAIN Tail(sel[b]) /\ (i - 1) + 1 = i
        BY <2>1, <3>4, <4>1, SelTail
      <4>3. Tail(sel[b])[i - 1] = sel[b][i]
        BY <2>1, <4>2, SelTail
      <4> QED
        BY <2>3, <3>a, <3>4, <4>2, <4>3
    <3> QED
      BY <3>3, <3>4
  <2>8. ASSUME NEW d \in BANK, NEW i \in DOMAIN sel'[d]
        PROVE  vb'[sel'[d][i].vid].w = NONE /\ sel'[d][i].line = vb'[sel'[d][i].vid].aw
    <3>1. PICK j \in DOMAIN sel[d] : sel'[d][i] = sel[d][j]
      BY <2>6
    <3> QED
      BY <1>a, <2>4, <2>6, <3>1 DEF Waits
  <2>9. ASSUME NEW d \in BANK, NEW e \in BANK, NEW i \in DOMAIN sel'[d],
                NEW j \in DOMAIN sel'[e], sel'[d][i].vid = sel'[e][j].vid
         PROVE  d = e /\ i = j
    <3>1. i \in Int /\ j \in Int
      BY <1>0, <2>3, SelTail, <2>1
    <3>2. CASE d = b /\ e = b
      <4>1. i + 1 \in DOMAIN sel[d] /\ j + 1 \in DOMAIN sel[e]
            /\ sel[d][i + 1].vid = sel[e][j + 1].vid
        BY <2>6, <2>9, <3>2
      <4>2. i + 1 = j + 1
        BY <4>1 DEF Named, NamedSome, NamedRight, NamedOnce
      <4> QED
        BY <3>1, <3>2, <4>2
    <3>3. CASE d # b \/ e # b
      BY <2>6, <2>9, <3>3 DEF Named, NamedSome, NamedRight, NamedOnce
    <3> QED
      BY <3>2, <3>3
  <2>10. NamedSome'
    BY <2>7 DEF NamedSome, Waits
  <2>11. NamedRight'
    BY <2>8 DEF NamedRight
  <2>12. NamedOnce'
    BY <2>9 DEF NamedOnce
  <2> QED
    BY <2>10, <2>11, <2>12 DEF Named
<1>3. ASSUME NEW l \in LINE, L2Victim(l) PROVE Named'
  <2> DEFINE c == vb_ptr.create
  <2>1. /\ c \in VID /\ vb[c].aw = NONE /\ l # NONE
        /\ vb' = [vb EXCEPT ![c] = [aw |-> l, en |-> TRUE, w |-> l]]
    BY <1>3, VbVictim
  <2>2. /\ \A v \in VID : v # c => vb'[v] = vb[v]
        /\ ~WaitsNow(c) /\ ~Waits(c) /\ sel' = sel
    BY <1>0, <1>3, <2>1 DEF Waits, L2Victim, snb
  <2> QED
    BY <1>a, <2>2 DEF Named, NamedSome, NamedRight, NamedOnce, Waits
<1>4. CASE EbiuVbAwGrant
  <2>1. sel' = sel /\ \A v \in VID : vb'[v].aw = vb[v].aw /\ vb'[v].w = vb[v].w
    BY <1>0, <1>4, VbAsk DEF EbiuVbAwGrant, snb
  <2> QED
    BY <1>a, <2>1 DEF Named, NamedSome, NamedRight, NamedOnce, Waits
<1>5. CASE EbiuVbWGrant
  <2> DEFINE p == vb_ptr.pop
  <2>1. /\ p \in VID /\ vb[p].w # NONE /\ vb' = [vb EXCEPT ![p] = EmptyVB]
    BY <1>5, VbPop
  <2>2. /\ \A v \in VID : v # p => vb'[v] = vb[v]
        /\ ~WaitsNow(p) /\ ~Waits(p) /\ sel' = sel
    BY <1>0, <1>5, <2>1 DEF Waits, EbiuVbWGrant, EmptyVB, snb
  <2> QED
    BY <1>a, <2>2 DEF Named, NamedSome, NamedRight, NamedOnce, Waits
<1>6. CASE UNCHANGED <<vb, ebiu_sel_fifo>>
  BY <1>6 DEF Named, NamedSome, NamedRight, NamedOnce, Waits
<1>7. \/ UNCHANGED <<vb, ebiu_sel_fifo>> \/ \E l \in LINE : L2Victim(l)
      \/ \E b \in BANK : VbAwGrant(b) \/ VbWGrant(b)
      \/ EbiuVbAwGrant \/ EbiuVbWGrant
  BY LineSteps DEF SnbWrite, SnbRead, BusR, snb
<1> QED
  BY <1>1, <1>2, <1>3, <1>4, <1>5, <1>6, <1>7

(***************************************************************************)
(* A line that is written or read is in one place.                         *)
(***************************************************************************)
LEMMA LineWritesStep ==
  ASSUME Types, Named, LineWrites, LineReads, Next
  PROVE  LineWrites'
<1> USE DEF Types
<1> DEFINE sel == ebiu_sel_fifo
           aw == ebiu_aw_buf
<1>0. /\ sel \in [BANK -> Seq(Select)] /\ aw \in [BANK -> LINE \cup {NONE}]
      /\ line \in [LINE -> {NONE, "wr", "rd"}] /\ HOME \in [LINE -> BANK]
      /\ NONE \notin LINE /\ NONE # "wr" /\ NONE # "rd"
  BY AddressAssumption, SizeAssumption DEF LineTypes
<1>a. ASSUME NEW b \in BANK
      PROVE  /\ Len(sel[b]) <= 2
             /\ aw[b] # NONE => aw[b] \in LINE /\ line[aw[b]] = "wr" /\ HOME[aw[b]] = b
  BY <1>0 DEF LineWrites
<1>b. ASSUME NEW b \in BANK, NEW i \in DOMAIN sel[b]
      PROVE  /\ sel[b][i] \in Select /\ sel[b][i].line \in LINE
             /\ line[sel[b][i].line] = "wr" /\ HOME[sel[b][i].line] = b
             /\ aw[b] # sel[b][i].line
             /\ \A j \in DOMAIN sel[b] : sel[b][j].line = sel[b][i].line => i = j
  <2>1. sel[b] \in Seq(Select) /\ sel[b][i] \in Select
    BY <1>0
  <2> QED
    BY <2>1 DEF LineWrites, Select
<1>1. ASSUME NEW l \in LINE, SnbWrite(l) PROVE LineWrites'
  <2>1. /\ line[l] = NONE /\ line' = [line EXCEPT ![l] = "wr"] /\ sel' = sel
        /\ aw' = [aw EXCEPT ![HOME[l]] = l]
    BY <1>1 DEF SnbWrite
  <2>2. ASSUME NEW b \in BANK, NEW i \in DOMAIN sel[b]
        PROVE  line'[sel[b][i].line] = "wr" /\ aw'[b] # sel[b][i].line
    BY <1>0, <1>b, <2>1
  <2>3. ASSUME NEW b \in BANK, aw'[b] # NONE
        PROVE  line'[aw'[b]] = "wr" /\ HOME[aw'[b]] = b
    BY <1>0, <1>a, <2>1, <2>3
  <2> QED
    BY <1>a, <1>b, <2>1, <2>2, <2>3 DEF LineWrites
<1>2. ASSUME NEW l \in LINE, SnbRead(l) PROVE LineWrites'
  <2>1. line[l] = NONE /\ line' = [line EXCEPT ![l] = "rd"] /\ sel' = sel /\ aw' = aw
    BY <1>2 DEF SnbRead, snb
  <2> QED
    BY <1>0, <1>a, <1>b, <2>1 DEF LineWrites
<1>3. ASSUME NEW b \in BANK, VbAwGrant(b) PROVE LineWrites'
  <2> DEFINE l == aw[b]
             n == Len(sel[b])
             x == [vid |-> vb_ptr.create, line |-> l]
  <2>1. /\ l \in LINE /\ l # NONE /\ vb_ptr.create \in VID /\ vb[vb_ptr.create].aw = NONE
    BY <1>3, VbCreate
  <2>2. ~sel_fifo_full(b)
    BY <2>1, FullMeansTaken DEF Occupied
  <2>3. /\ sel' = [sel EXCEPT ![b] = Append(@, x)] /\ aw' = [aw EXCEPT ![b] = NONE]
        /\ line' = line
    BY <1>3, <2>2 DEF VbAwGrant
  <2>4. x.line = l
    OBVIOUS
  <2> HIDE DEF x
  <2>5. /\ n \in Nat /\ n < 2 /\ Len(sel'[b]) = n + 1 /\ sel'[b][n + 1] = x
        /\ \A i \in DOMAIN sel'[b] : i \in DOMAIN sel[b] \/ i = n + 1
        /\ \A i \in DOMAIN sel[b] : sel'[b][i] = sel[b][i]
        /\ \A d \in BANK : d # b => sel'[d] = sel[d] /\ aw'[d] = aw[d]
        /\ aw'[b] = NONE
    <3>1. sel'[b] = Append(sel[b], x) /\ sel[b] \in Seq(Select) /\ x \in Select
      BY <1>0, <2>1, <2>3 DEF Select, x
    <3>2. n < 2
      <4>1. Len(sel[b]) <= 2 /\ Len(sel[b]) # 2
        BY <1>a, <2>2, Zenon DEF sel_fifo_full
      <4>2. Len(sel[b]) \in Nat
        BY <3>1
      <4>3. \A k \in Nat : k <= 2 /\ k # 2 => k < 2
        OBVIOUS
      <4> QED
        BY <4>1, <4>2, <4>3, Zenon
    <3>3. /\ n \in Nat /\ Len(sel'[b]) = n + 1 /\ sel'[b][n + 1] = x
          /\ \A i \in DOMAIN sel'[b] : i \in DOMAIN sel[b] \/ i = n + 1
          /\ \A i \in DOMAIN sel[b] : sel'[b][i] = sel[b][i]
      BY <3>1
    <3> QED
      BY <1>0, <2>3, <3>2, <3>3
  <2>6. ASSUME NEW d \in BANK
        PROVE  Len(sel'[d]) <= 2 /\ (aw'[d] # NONE => line'[aw'[d]] = "wr" /\ HOME[aw'[d]] = d)
    BY <1>a, <2>3, <2>5
  <2>7. ASSUME NEW d \in BANK, NEW i \in DOMAIN sel'[d]
        PROVE  /\ line'[sel'[d][i].line] = "wr" /\ HOME[sel'[d][i].line] = d
               /\ aw'[d] # sel'[d][i].line
               /\ \A j \in DOMAIN sel'[d] : sel'[d][j].line = sel'[d][i].line => i = j
    <3>1. CASE d # b
      BY <1>b, <2>3, <2>5, <3>1
    <3>2. CASE d = b
      <4>1. ASSUME NEW k \in DOMAIN sel'[d]
            PROVE  \/ k \in DOMAIN sel[b] /\ sel'[b][k] = sel[b][k] /\ sel'[b][k].line # l
                   \/ k = n + 1 /\ sel'[b][k].line = l
        BY <1>b, <2>4, <2>5, <3>2
      <4>2. /\ line'[sel'[d][i].line] = "wr" /\ HOME[sel'[d][i].line] = d
            /\ aw'[d] # sel'[d][i].line
        BY <1>0, <1>a, <1>b, <2>1, <2>3, <2>5, <3>2, <4>1
      <4>3. ASSUME NEW j \in DOMAIN sel'[d], sel'[d][j].line = sel'[d][i].line
            PROVE  i = j
        BY <1>b, <3>2, <4>1, <4>3
      <4> QED
        BY <4>2, <4>3
    <3> QED
      BY <3>1, <3>2
  <2> QED
    BY <2>6, <2>7 DEF LineWrites
<1>4. ASSUME NEW b \in BANK, VbWGrant(b) PROVE LineWrites'
  <2> DEFINE s == Head(sel[b])
             l == s.line
  <2>1. /\ l \in LINE /\ sel[b] # <<>> /\ s = sel[b][1] /\ 1 \in DOMAIN sel[b]
        /\ line' = [line EXCEPT ![l] = NONE]
        /\ sel' = [sel EXCEPT ![b] = Tail(@)] /\ aw' = aw
    BY <1>4, VbData, SelTail DEF VbWGrant
  <2> HIDE DEF s
  <2>2. /\ sel'[b] = Tail(sel[b]) /\ \A d \in BANK : d # b => sel'[d] = sel[d]
    BY <1>0, <2>1
  <2>3. line[l] = "wr" /\ HOME[l] = b /\ aw[b] # l
    BY <1>b, <2>1
  <2>4. ASSUME NEW d \in BANK, NEW i \in DOMAIN sel'[d]
        PROVE  \E j \in DOMAIN sel[d] : /\ j = IF d = b THEN i + 1 ELSE i
                                        /\ sel'[d][i] = sel[d][j] /\ sel[d][j].line # l
    <3>1. CASE d # b
      BY <1>b, <2>2, <2>3, <3>1
    <3>2. CASE d = b
      <4>1. i \in DOMAIN Tail(sel[b])
        BY <2>2, <3>2
      <4>2. i + 1 \in DOMAIN sel[b] /\ i + 1 # 1 /\ sel'[b][i] = sel[b][i + 1]
        BY <2>1, <2>2, <4>1, SelTail
      <4>3. sel[b][i + 1].line # l
        BY <1>b, <2>1, <4>2
      <4> QED
        BY <3>2, <4>2, <4>3
    <3> QED
      BY <3>1, <3>2
  <2>5. ASSUME NEW d \in BANK
        PROVE  Len(sel'[d]) <= 2 /\ (aw'[d] # NONE => line'[aw'[d]] = "wr" /\ HOME[aw'[d]] = d)
    <3>1. Len(sel'[d]) <= 2
      <4>1. Len(Tail(sel[b])) = Len(sel[b]) - 1 /\ Len(sel[b]) <= 2 /\ Len(sel[b]) \in Nat
        BY <1>0, <1>a, <2>1, SelTail
      <4>2. CASE d = b
        <5>1. Len(sel'[d]) = Len(sel[b]) - 1
          BY <2>2, <4>1, <4>2, Zenon
        <5> QED
          BY <4>1, <5>1
      <4>3. CASE d # b
        BY <1>a, <2>2, <4>3
      <4> QED
        BY <4>2, <4>3
    <3>2. aw[d] # l
      <4>1. l # NONE
        BY <1>0, <2>1
      <4>2. aw[d] = l => HOME[l] = d
        BY <1>a, <4>1, Zenon
      <4> QED
        BY <2>3, <4>2
    <3> QED
      BY <1>0, <1>a, <2>1, <3>1, <3>2
  <2>6. ASSUME NEW d \in BANK, NEW i \in DOMAIN sel'[d]
        PROVE  /\ line'[sel'[d][i].line] = "wr" /\ HOME[sel'[d][i].line] = d
               /\ aw'[d] # sel'[d][i].line
               /\ \A j \in DOMAIN sel'[d] : sel'[d][j].line = sel'[d][i].line => i = j
    <3>1. PICK k \in DOMAIN sel[d] : /\ k = IF d = b THEN i + 1 ELSE i
                                     /\ sel'[d][i] = sel[d][k] /\ sel[d][k].line # l
      BY <2>4
    <3>2. /\ line'[sel'[d][i].line] = "wr" /\ HOME[sel'[d][i].line] = d
          /\ aw'[d] # sel'[d][i].line
      BY <1>0, <1>b, <2>1, <3>1
    <3>3. ASSUME NEW j \in DOMAIN sel'[d], sel'[d][j].line = sel'[d][i].line
          PROVE  i = j
      <4>1. PICK m \in DOMAIN sel[d] : /\ m = IF d = b THEN j + 1 ELSE j
                                       /\ sel'[d][j] = sel[d][m]
        BY <2>4
      <4>2. k = m
        BY <1>b, <3>1, <3>3, <4>1
      <4>3. i \in Int /\ j \in Int
        BY <1>0, <2>1, SelTail
      <4> QED
        BY <3>1, <4>1, <4>2, <4>3
    <3> QED
      BY <3>2, <3>3
  <2> QED
    BY <2>5, <2>6 DEF LineWrites
<1>5. ASSUME NEW r \in bus_rd, r.kind = "line", BusR(r) PROVE LineWrites'
  <2>1. /\ line[r.addr] = "rd" /\ line' = [line EXCEPT ![r.addr] = NONE]
        /\ sel' = sel /\ aw' = aw
    BY <1>5 DEF BusR, LineReads, snb
  <2> QED
    BY <1>0, <1>a, <1>b, <2>1 DEF LineWrites
<1>6. CASE UNCHANGED <<line, ebiu_aw_buf, ebiu_sel_fifo>>
  BY <1>6 DEF LineWrites
<1>7. \/ UNCHANGED <<line, ebiu_aw_buf, ebiu_sel_fifo>>
      \/ \E l \in LINE : SnbWrite(l) \/ SnbRead(l)
      \/ \E b \in BANK : VbAwGrant(b) \/ VbWGrant(b)
      \/ \E r \in bus_rd : r.kind = "line" /\ BusR(r)
  BY LineSteps DEF L2Victim, EbiuVbAwGrant, EbiuVbWGrant, snb
<1> QED
  BY <1>1, <1>2, <1>3, <1>4, <1>5, <1>6, <1>7

LEMMA ReadTypesStep ==
  ASSUME Types, Next
  PROVE  ReadTypes'
<1> USE DEF Types, snb, ncq, rds
<1>1. ASSUME NEW l \in LINE, SnbRead(l) PROVE ReadTypes'
  BY <1>1, AddressAssumption DEF SnbRead, ReadTypes
<1>2. ASSUME NEW r \in NcqRd, NcqRead(r) PROVE ReadTypes'
  BY <1>2 DEF NcqRead, ReadTypes
<1>3. ASSUME NEW b \in BANK, EbiuifArGrant(b) PROVE ReadTypes'
  <2>1. [kind |-> "line", addr |-> ebiu_ar_buf[b]] \in [kind : {"line"}, addr : LINE]
    BY <1>3 DEF EbiuifArGrant, ReadTypes
  <2> QED
    BY <1>3, <2>1 DEF EbiuifArGrant, ReadTypes
<1>4. CASE NcqArGrant
  <2>1. Head(raq) \in NcqRd /\ Tail(raq) \in Seq(NcqRd)
    BY <1>4 DEF NcqArGrant, ReadTypes
  <2> QED
    BY <1>4, <2>1 DEF NcqArGrant, ReadTypes
<1>5. ASSUME NEW r \in bus_rd, BusR(r) PROVE ReadTypes'
  BY <1>5 DEF BusR, ReadTypes
<1>6. CASE UNCHANGED <<ebiu_ar_buf, raq, bus_rd>>
  BY <1>6 DEF ReadTypes
<1> QED
  BY <1>1, <1>2, <1>3, <1>4, <1>5, <1>6, ReadSteps

LEMMA LineReadsStep ==
  ASSUME Types, Named, LineWrites, LineReads, Next
  PROVE  LineReads'
<1> USE DEF Types, snb, ncq, rds
<1>0. /\ line \in [LINE -> {NONE, "wr", "rd"}] /\ HOME \in [LINE -> BANK]
      /\ ebiu_ar_buf \in [BANK -> LINE \cup {NONE}]
      /\ NONE \notin LINE /\ NONE # "wr" /\ NONE # "rd"
  BY AddressAssumption, SizeAssumption DEF LineTypes, ReadTypes
<1>a. ASSUME NEW r \in bus_rd, r.kind = "line"
      PROVE  /\ r = [kind |-> "line", addr |-> r.addr] /\ r.addr \in LINE
             /\ line[r.addr] = "rd" /\ ebiu_ar_buf[HOME[r.addr]] # r.addr
  BY <1>a DEF ReadTypes, NcqRd, LineReads
<1>b. ASSUME NEW b \in BANK, ebiu_ar_buf[b] # NONE
      PROVE  /\ ebiu_ar_buf[b] \in LINE /\ line[ebiu_ar_buf[b]] = "rd"
             /\ HOME[ebiu_ar_buf[b]] = b
  BY <1>0, <1>b DEF LineReads
<1>1. ASSUME NEW l \in LINE, SnbWrite(l) PROVE LineReads'
  <2>1. /\ line[l] = NONE /\ line' = [line EXCEPT ![l] = "wr"]
        /\ ebiu_ar_buf' = ebiu_ar_buf /\ bus_rd' = bus_rd
    BY <1>1 DEF SnbWrite
  <2> QED
    BY <1>0, <1>a, <1>b, <2>1 DEF LineReads
<1>2. ASSUME NEW l \in LINE, SnbRead(l) PROVE LineReads'
  <2>1. /\ line[l] = NONE /\ line' = [line EXCEPT ![l] = "rd"]
        /\ ebiu_ar_buf' = [ebiu_ar_buf EXCEPT ![HOME[l]] = l] /\ bus_rd' = bus_rd
    BY <1>2 DEF SnbRead
  <2> QED
    BY <1>0, <1>a, <1>b, <2>1 DEF LineReads
<1>3. ASSUME NEW b \in BANK, VbWGrant(b) PROVE LineReads'
  <2> DEFINE l == Head(ebiu_sel_fifo[b]).line
  <2>1. l \in LINE /\ line[l] = "wr"
    <3>1. /\ 1 \in DOMAIN ebiu_sel_fifo[b] /\ Head(ebiu_sel_fifo[b]) = ebiu_sel_fifo[b][1]
          /\ l \in LINE
      BY <1>3, VbData, SelTail
    <3> QED
      BY <3>1 DEF LineWrites
  <2>2. /\ line' = [line EXCEPT ![l] = NONE]
        /\ ebiu_ar_buf' = ebiu_ar_buf /\ bus_rd' = bus_rd
    BY <1>3, VbData DEF VbWGrant
  <2> HIDE DEF l
  <2> QED
    BY <1>0, <1>a, <1>b, <2>1, <2>2 DEF LineReads
<1>4. ASSUME NEW b \in BANK, EbiuifArGrant(b) PROVE LineReads'
  <2> DEFINE l == ebiu_ar_buf[b]
             x == [kind |-> "line", addr |-> l]
  <2>1. /\ l # NONE /\ bus_rd' = bus_rd \cup {x} /\ x.addr = l
        /\ ebiu_ar_buf' = [ebiu_ar_buf EXCEPT ![b] = NONE] /\ line' = line
    BY <1>4 DEF EbiuifArGrant
  <2> HIDE DEF x
  <2> QED
    BY <1>0, <1>a, <1>b, <2>1 DEF LineReads
<1>5. CASE NcqArGrant
  <2>1. /\ bus_rd' = bus_rd \cup {Head(raq)} /\ Head(raq) \in NcqRd
        /\ ebiu_ar_buf' = ebiu_ar_buf /\ line' = line
    BY <1>5 DEF NcqArGrant, ReadTypes
  <2>2. Head(raq).kind # "line"
    BY <2>1 DEF NcqRd
  <2> QED
    BY <2>1, <2>2 DEF LineReads
<1>6. ASSUME NEW r \in bus_rd, BusR(r) PROVE LineReads'
  <2>1. /\ line' = (IF r.kind = "line" THEN [line EXCEPT ![r.addr] = NONE] ELSE line)
        /\ bus_rd' = bus_rd \ {r} /\ ebiu_ar_buf' = ebiu_ar_buf
    BY <1>6 DEF BusR
  <2> QED
    BY <1>0, <1>a, <1>b, <2>1 DEF LineReads
<1>7. ASSUME NEW r \in NcqRd, NcqRead(r) PROVE UNCHANGED <<ebiu_ar_buf, bus_rd>>
  BY <1>7 DEF NcqRead
<1>8. CASE UNCHANGED <<line, ebiu_ar_buf, bus_rd>>
  BY <1>8 DEF LineReads
<1>9. UNCHANGED line \/ (\E l \in LINE : SnbWrite(l) \/ SnbRead(l))
      \/ (\E b \in BANK : VbWGrant(b)) \/ \E r \in bus_rd : BusR(r)
  BY LineSteps DEF L2Victim, EbiuVbAwGrant, EbiuVbWGrant, VbAwGrant
<1> QED
  BY <1>1, <1>2, <1>3, <1>4, <1>5, <1>6, <1>7, <1>8, <1>9, ReadSteps

-----------------------------------------------------------------------------
(***************************************************************************)
(* The order of the data.                                                  *)
(***************************************************************************)
LEMMA WoqIndices ==
  ASSUME BusTypes
  PROVE  /\ Len(woq) \in Nat /\ DOMAIN woq = 1 .. Len(woq)
         /\ FromVb \subseteq 1 .. Len(woq) /\ FromNcq \subseteq 1 .. Len(woq)
         /\ Issued \subseteq 1 .. Len(woq)
         /\ FromVb \subseteq Nat \ {0} /\ FromNcq \subseteq Nat \ {0}
         /\ Issued \subseteq Nat \ {0}
         /\ \A i \in DOMAIN woq : i \in FromVb \/ i \in FromNcq
         /\ FromVb \cap FromNcq = {}
<1>1. woq \in Seq([source : {"vb", "ncq"}, issue : BOOLEAN])
  BY DEF BusTypes
<1>2. Len(woq) \in Nat /\ DOMAIN woq = 1 .. Len(woq)
  BY <1>1
<1>3. ASSUME NEW i \in DOMAIN woq PROVE woq[i].source \in {"vb", "ncq"}
  <2>1. woq[i] \in [source : {"vb", "ncq"}, issue : BOOLEAN]
    BY <1>1, <1>2, ElementOfSeq, Zenon
  <2> QED
    BY <2>1
<1> QED
  BY <1>2, <1>3 DEF FromVb, FromNcq, Issued

\* A write that is taken comes last in woq.
LEMMA WoqAppend ==
  ASSUME BusTypes, NEW s \in {"vb", "ncq"}, NEW iss \in BOOLEAN,
         woq' = Append(woq, [source |-> s, issue |-> iss])
  PROVE  LET n == Len(woq) + 1
         IN  /\ n \in Nat
             /\ \A i \in FromVb \cup FromNcq \cup Issued : i < n
             /\ FromVb' = IF s = "vb" THEN FromVb \cup {n} ELSE FromVb
             /\ FromNcq' = IF s = "ncq" THEN FromNcq \cup {n} ELSE FromNcq
             /\ Issued' = IF iss THEN Issued \cup {n} ELSE Issued
<1> DEFINE n == Len(woq) + 1
           x == [source |-> s, issue |-> iss]
<1>1. woq \in Seq([source : {"vb", "ncq"}, issue : BOOLEAN]) /\ x.source = s /\ x.issue = iss
  BY DEF BusTypes
<1> HIDE DEF x
<1>2. /\ n \in Nat /\ Len(woq) \in Nat /\ DOMAIN woq' = 1 .. n /\ woq'[n] = x
      /\ DOMAIN woq = 1 .. Len(woq)
      /\ \A i \in 1 .. Len(woq) : woq'[i] = woq[i]
  BY <1>1 DEF x
<1>3. \A i \in FromVb \cup FromNcq \cup Issued : i < n
  BY <1>2 DEF FromVb, FromNcq, Issued
<1>4. \A i : i \in 1 .. n <=> i = n \/ i \in 1 .. Len(woq)
  BY <1>2
<1>5. FromVb' = IF s = "vb" THEN FromVb \cup {n} ELSE FromVb
  BY <1>1, <1>2, <1>4 DEF FromVb
<1>6. FromNcq' = IF s = "ncq" THEN FromNcq \cup {n} ELSE FromNcq
  BY <1>1, <1>2, <1>4 DEF FromNcq
<1>7. Issued' = IF iss THEN Issued \cup {n} ELSE Issued
  BY <1>1, <1>2, <1>4 DEF Issued
<1> QED
  BY <1>2, <1>3, <1>5, <1>6, <1>7

\* When the oldest write of woq has its data the others move up.
LEMMA WoqTail ==
  ASSUME BusTypes, woq # <<>>, woq' = Tail(woq)
  PROVE  /\ FromVb' = Cut(FromVb, 1) /\ FromNcq' = Cut(FromNcq, 1)
         /\ Issued' = Cut(Issued, 1)
         /\ 1 \in DOMAIN woq /\ Head(woq) = woq[1]
<1>1. woq \in Seq([source : {"vb", "ncq"}, issue : BOOLEAN])
  BY DEF BusTypes
<1>2. /\ Len(woq) \in Nat /\ Len(woq) > 0 /\ DOMAIN woq = 1 .. Len(woq)
      /\ DOMAIN woq' = 1 .. Len(woq) - 1
      /\ \A i \in 1 .. Len(woq) - 1 : woq'[i] = woq[i + 1]
      /\ Head(woq) = woq[1]
  BY <1>1
<1>3. \A i : i \in 1 .. Len(woq) - 1 <=> i \in Nat \ {0} /\ i + 1 \in 1 .. Len(woq)
  BY <1>2
<1>4. FromVb' = Cut(FromVb, 1)
  BY <1>2, <1>3 DEF FromVb, Cut
<1>5. FromNcq' = Cut(FromNcq, 1)
  BY <1>2, <1>3 DEF FromNcq, Cut
<1>6. Issued' = Cut(Issued, 1)
  BY <1>2, <1>3 DEF Issued, Cut
<1> QED
  BY <1>2, <1>4, <1>5, <1>6

\* The entries the EBIU has asked for, and where they are.
LEMMA AskedFacts ==
  ASSUME LineTypes
  PROVE  /\ AskedVb \in 0 .. 2 /\ AskedVb \in Nat
         /\ \A k \in 1 .. AskedVb : AskedAt(k) \in VID /\ Asked(AskedAt(k))
<1>1. vb_ptr.pop \in VID /\ 1 - vb_ptr.pop \in VID
  BY PtrUpdate, VidFacts
<1> QED
  BY <1>1 DEF AskedVb, AskedAt

\* The oldest write of woq, its address on the bus and its data meet.
LEMMA HeadFromVb ==
  ASSUME LineTypes, BusTypes, Order, w_source("vb")
  PROVE  /\ Head(woq).issue /\ Asked(vb_ptr.pop)
         /\ bus_aw # <<>> /\ bus_aw[1].addr = vb[vb_ptr.pop].aw
<1>1. PICK pv \in [FromVb -> 1 .. AskedVb], pn \in [FromNcq -> 1 .. GrantedNcq],
           pb \in [Issued -> 1 .. Len(bus_aw)] : Merge(pv, pn, pb)
  BY DEF Order
<1>2. woq # <<>> /\ 1 \in DOMAIN woq /\ woq[1] = Head(woq) /\ woq[1].source = "vb"
  BY DEF w_source, BusTypes
<1>3. 1 \in FromVb
  BY <1>2 DEF FromVb
<1>4. 1 \in Issued /\ bus_aw[pb[1]].addr = vb[AskedAt(pv[1])].aw
  BY <1>1, <1>3 DEF Merge
<1>5. Len(bus_aw) \in Nat
  BY DEF BusTypes
<1>6. pv[1] = 1 /\ AskedVb > 0
  BY <1>1, <1>3, WoqIndices, AskedFacts, RanksFirst DEF Merge
<1>7. pb[1] = 1 /\ Len(bus_aw) > 0
  BY <1>1, <1>4, <1>5, WoqIndices, RanksFirst DEF Merge
<1>8. Asked(vb_ptr.pop) /\ AskedAt(1) = vb_ptr.pop
  BY <1>6 DEF AskedVb, AskedAt
<1> QED
  BY <1>2, <1>4, <1>6, <1>7, <1>8 DEF Issued, BusTypes

LEMMA HeadFromNcq ==
  ASSUME CoreTypes, BusTypes, Order, w_source("ncq")
  PROVE  /\ GrantedNcq > 0 /\ woq_ncq # <<>> /\ woq_ncq[1] = Head(woq_ncq)
         /\ Head(woq_ncq).kind = "fail" => ~Head(woq).issue
         /\ Head(woq_ncq).kind # "fail" => Head(woq).issue
         /\ Head(woq).issue => bus_aw # <<>> /\ bus_aw[1].addr = Head(woq_ncq).addr
<1>1. PICK pv \in [FromVb -> 1 .. AskedVb], pn \in [FromNcq -> 1 .. GrantedNcq],
           pb \in [Issued -> 1 .. Len(bus_aw)] : Merge(pv, pn, pb)
  BY DEF Order
<1>2. woq # <<>> /\ 1 \in DOMAIN woq /\ woq[1] = Head(woq) /\ woq[1].source = "ncq"
  BY DEF w_source, BusTypes
<1>3. 1 \in FromNcq /\ (1 \in Issued <=> Head(woq).issue)
  BY <1>2 DEF FromNcq, Issued
<1>4. Len(bus_aw) \in Nat /\ GrantedNcq \in Nat
  BY DEF BusTypes, Order, NcqOrder
<1>5. pn[1] = 1 /\ GrantedNcq > 0
  BY <1>1, <1>3, <1>4, WoqIndices, RanksFirst DEF Merge
<1>6. 1 \in Issued => pb[1] = 1 /\ Len(bus_aw) > 0
  BY <1>1, <1>4, WoqIndices, RanksFirst DEF Merge
<1>7. woq_ncq # <<>> /\ woq_ncq[1] = Head(woq_ncq)
  BY <1>5 DEF GrantedNcq, CoreTypes
<1>8. /\ woq_ncq[1].kind = "fail" => 1 \notin Issued
      /\ woq_ncq[1].kind # "fail" => 1 \in Issued
      /\ 1 \in Issued => bus_aw[pb[1]].addr = woq_ncq[1].addr
  BY <1>1, <1>3, <1>5 DEF Merge
<1> QED
  BY <1>3, <1>5, <1>6, <1>7, <1>8 DEF BusTypes

\* A step that leaves what was asked for in its place leaves the order.
LEMMA OrderSame ==
  ASSUME LineTypes, Order, UNCHANGED <<waq, woq_ncq, woq, bus_aw>>, vb_ptr'.pop = vb_ptr.pop,
         \A v \in VID : /\ Asked(v)' => Asked(v)
                        /\ Asked(v) => Asked(v)' /\ vb'[v].aw = vb[v].aw
  PROVE  Order'
<1>1. PICK pv \in [FromVb -> 1 .. AskedVb], pn \in [FromNcq -> 1 .. GrantedNcq],
           pb \in [Issued -> 1 .. Len(bus_aw)] : Merge(pv, pn, pb)
  BY DEF Order
<1>2. NcqOrder'
  BY DEF Order, NcqOrder, GrantedNcq
<1>3. /\ FromVb' = FromVb /\ FromNcq' = FromNcq /\ Issued' = Issued
      /\ GrantedNcq' = GrantedNcq
  BY DEF FromVb, FromNcq, Issued, GrantedNcq
<1>4. vb_ptr.pop \in VID /\ 1 - vb_ptr.pop \in VID
  BY PtrUpdate, VidFacts
<1>5. AskedVb' = AskedVb
  <2>1. /\ Asked(vb_ptr.pop)' => Asked(vb_ptr.pop)
        /\ Asked(vb_ptr.pop) => Asked(vb_ptr.pop)'
        /\ Asked(1 - vb_ptr.pop)' => Asked(1 - vb_ptr.pop)
        /\ Asked(1 - vb_ptr.pop) => Asked(1 - vb_ptr.pop)'
    BY <1>4 DEF Asked
  <2> QED
    BY <2>1 DEF AskedVb, Asked
<1>6. \A i \in FromVb : vb'[AskedAt(pv[i])].aw = vb[AskedAt(pv[i])].aw
  BY AskedFacts
<1>7. \A k : AskedAt(k)' = AskedAt(k)
  BY DEF AskedAt
<1>8. Merge(pv, pn, pb)'
  BY <1>1, <1>3, <1>5, <1>6, <1>7 DEF Merge
<1> QED
  BY <1>2, <1>3, <1>5, <1>8 DEF Order

\* The NCQ's next write is taken: its data come after those of its earlier ones.
LEMMA OrderNcqPush ==
  ASSUME Types, Order, waq # <<>>, NEW iss \in BOOLEAN, NEW id \in Id,
         CreateWr("ncq", iss, id, Head(waq).addr),
         Head(waq).kind = "fail" => ~iss, Head(waq).kind # "fail" => iss,
         waq' = Tail(waq), UNCHANGED <<woq_ncq, vb, vb_ptr>>
  PROVE  Order'
<1> USE DEF Types
<1>1. PICK pv \in [FromVb -> 1 .. AskedVb], pn \in [FromNcq -> 1 .. GrantedNcq],
           pb \in [Issued -> 1 .. Len(bus_aw)] : Merge(pv, pn, pb)
  BY DEF Order
<1> DEFINE n == Len(woq) + 1
           g == GrantedNcq + 1
           m == Len(bus_aw) + 1
           x == [id |-> id, addr |-> Head(waq).addr]
<1>2. /\ woq' = Append(woq, [source |-> "ncq", issue |-> iss])
      /\ bus_aw' = IF iss THEN Append(bus_aw, x) ELSE bus_aw
  BY DEF CreateWr
<1>3. /\ n \in Nat /\ \A i \in FromVb \cup FromNcq \cup Issued : i < n
      /\ FromVb' = FromVb /\ FromNcq' = FromNcq \cup {n}
      /\ Issued' = IF iss THEN Issued \cup {n} ELSE Issued
  BY <1>2, WoqAppend
<1>4. /\ GrantedNcq \in Nat /\ GrantedNcq' = g /\ woq_ncq[g] = Head(waq)
      /\ Len(waq') = Len(waq) - 1 /\ Len(waq) > 0
  <2>1. 1 \in DOMAIN waq /\ waq[1] = Head(waq) /\ Len(waq') = Len(waq) - 1
        /\ Len(waq) \in Nat /\ Len(waq) > 0 /\ Len(woq_ncq) \in Nat
    BY DEF CoreTypes
  <2>2. GrantedNcq = Len(woq_ncq) - Len(waq) /\ GrantedNcq' = Len(woq_ncq) - Len(waq')
    BY DEF GrantedNcq
  <2>3. GrantedNcq \in Nat /\ woq_ncq[GrantedNcq + 1] = waq[1]
    BY <2>1 DEF Order, NcqOrder
  <2>4. GrantedNcq' = GrantedNcq + 1
    BY <2>1, <2>2
  <2> QED
    BY <2>1, <2>3, <2>4
<1>5. NcqOrder'
  <2>1. ASSUME NEW i \in DOMAIN waq'
        PROVE  woq_ncq[g + i] = waq'[i]
    <3>1. i \in Nat /\ i + 1 \in DOMAIN waq /\ waq'[i] = waq[i + 1]
      BY DEF CoreTypes
    <3>2. woq_ncq[GrantedNcq + (i + 1)] = waq[i + 1]
      BY <3>1 DEF Order, NcqOrder
    <3>3. GrantedNcq + (i + 1) = g + i
      BY <1>4, <3>1
    <3> QED
      BY <3>1, <3>2, <3>3
  <2> QED
    BY <1>4, <2>1 DEF NcqOrder
<1>6. AskedVb' = AskedVb /\ \A k : AskedAt(k)' = AskedAt(k)
  BY DEF AskedVb, AskedAt, Asked
<1>7. PICK pn2 : pn2 = [i \in FromNcq \cup {n} |-> IF i = n THEN g ELSE pn[i]]
  OBVIOUS
<1>8. PICK pb2 : pb2 = IF iss THEN [i \in Issued \cup {n} |-> IF i = n THEN m ELSE pb[i]]
                       ELSE pb
  OBVIOUS
<1>9. Ranks(FromNcq \cup {n}, g, pn2)
  <2>1. Ranks(FromNcq, GrantedNcq, pn) /\ FromNcq \subseteq Nat
    BY <1>1, WoqIndices DEF Merge
  <2>2. \A i \in FromNcq : i < n
    BY <1>3
  <2> HIDE DEF n
  <2> QED
    BY <1>3, <1>4, <1>7, <2>1, <2>2, RanksAppend
<1>10. Len(bus_aw) \in Nat
  BY DEF BusTypes
<1>11. Ranks(Issued', Len(bus_aw'), pb2)
  <2>1. CASE iss
    <3>1. Len(bus_aw') = m
      BY <1>2, <2>1 DEF BusTypes
    <3>2. pb2 = [i \in Issued \cup {n} |-> IF i = n THEN m ELSE pb[i]]
      BY <1>8, <2>1
    <3>3. Ranks(Issued \cup {n}, m, pb2)
      <4>1. Ranks(Issued, Len(bus_aw), pb) /\ Issued \subseteq Nat
        BY <1>1, WoqIndices DEF Merge
      <4>2. \A i \in Issued : i < n
        BY <1>3
      <4> HIDE DEF n
      <4> QED
        BY <1>3, <1>10, <3>2, <4>1, <4>2, RanksAppend
    <3> QED
      BY <1>3, <2>1, <3>1, <3>3
  <2>2. CASE ~iss
    BY <1>1, <1>2, <1>3, <1>8, <2>2 DEF Merge
  <2> QED
    BY <2>1, <2>2
<1>12. \A i \in Issued : /\ pb2[i] = pb[i] /\ pb[i] \in 1 .. Len(bus_aw)
                         /\ bus_aw'[pb2[i]] = bus_aw[pb[i]]
  <2> TAKE i \in Issued
  <2>1. i # n /\ pb[i] \in 1 .. Len(bus_aw)
    BY <1>3
  <2>2. pb2[i] = pb[i]
    BY <1>8, <2>1
  <2>3. bus_aw'[pb[i]] = bus_aw[pb[i]]
    BY <1>2, <2>1 DEF BusTypes
  <2> QED
    BY <2>1, <2>2, <2>3
<1>13. \A i \in FromNcq : i # n /\ pn2[i] = pn[i]
  BY <1>3, <1>7
<1>14. ASSUME NEW i \in FromVb'
       PROVE  i \in Issued' /\ bus_aw'[pb2[i]].addr = vb[AskedAt(pv[i])].aw
  BY <1>1, <1>3, <1>12 DEF Merge
<1>15. ASSUME NEW i \in FromNcq'
       PROVE  /\ woq_ncq[pn2[i]].kind = "fail" => i \notin Issued'
              /\ woq_ncq[pn2[i]].kind # "fail" => i \in Issued'
              /\ i \in Issued' => bus_aw'[pb2[i]].addr = woq_ncq[pn2[i]].addr
  <2>1. CASE i \in FromNcq
    <3>1. i # n /\ pn2[i] = pn[i] /\ (i \in Issued' => i \in Issued)
      BY <1>3, <1>13, <2>1
    <3> QED
      BY <1>1, <1>3, <1>12, <2>1, <3>1 DEF Merge
  <2>2. CASE i = n
    <3>1. pn2[n] = g /\ woq_ncq[pn2[n]] = Head(waq)
      BY <1>4, <1>7
    <3>2. CASE iss
      <4>1. pb2[n] = m /\ n \in Issued'
        BY <1>3, <1>8, <3>2
      <4>2. bus_aw'[m] = x
        BY <1>2, <3>2 DEF BusTypes
      <4> QED
        BY <2>2, <3>1, <3>2, <4>1, <4>2
    <3>3. CASE ~iss
      <4>1. n \notin Issued'
        BY <1>3, <3>3
      <4> QED
        BY <2>2, <3>1, <3>3, <4>1
    <3> QED
      BY <3>2, <3>3
  <2> QED
    BY <1>3, <2>1, <2>2
<1>16. Merge(pv, pn2, pb2)'
  BY <1>1, <1>3, <1>4, <1>6, <1>9, <1>11, <1>14, <1>15 DEF Merge
<1>17. /\ pv \in [FromVb' -> 1 .. AskedVb'] /\ pn2 \in [FromNcq' -> 1 .. GrantedNcq']
       /\ pb2 \in [Issued' -> 1 .. Len(bus_aw')]
  BY <1>16 DEF Merge, Ranks
<1> QED
  BY <1>5, <1>16, <1>17 DEF Order

\* The next entry of the VB is taken.
LEMMA OrderVbPush ==
  ASSUME Types, VbRing, Order, EbiuVbAwGrant
  PROVE  Order'
<1> USE DEF Types
<1>1. PICK pv \in [FromVb -> 1 .. AskedVb], pn \in [FromNcq -> 1 .. GrantedNcq],
           pb \in [Issued -> 1 .. Len(bus_aw)] : Merge(pv, pn, pb)
  BY DEF Order
<1> DEFINE n == Len(woq) + 1
           g == AskedVb + 1
           m == Len(bus_aw) + 1
           v == vb_ptr.req
           p == vb_ptr.pop
           x == [id |-> <<"vb", cawt_create_ptr>>, addr |-> vb[v].aw]
<1>2. /\ woq' = Append(woq, [source |-> "vb", issue |-> TRUE])
      /\ bus_aw' = Append(bus_aw, x) /\ UNCHANGED <<waq, woq_ncq>>
  BY DEF EbiuVbAwGrant, CreateWr, ncq
<1>3. /\ n \in Nat /\ \A i \in FromVb \cup FromNcq \cup Issued : i < n
      /\ FromVb' = FromVb \cup {n} /\ FromNcq' = FromNcq /\ Issued' = Issued \cup {n}
  BY <1>2, WoqAppend
<1>4. NcqOrder' /\ GrantedNcq' = GrantedNcq
  BY <1>2 DEF Order, NcqOrder, GrantedNcq
<1>5. /\ v \in {0, 1} /\ p \in {0, 1} /\ vb[v].aw # NONE /\ vb[v].en
      /\ vb'[v] = [aw |-> vb[v].aw, en |-> FALSE, w |-> vb[v].w] /\ vb'[1 - v] = vb[1 - v]
      /\ vb_ptr'.pop = p
  <2>1. v \in VID /\ p \in VID /\ 1 - v \in VID /\ 1 - v # v
    BY PtrUpdate, VidFacts
  <2>2. /\ vb' = [vb EXCEPT ![v] = [aw |-> vb[v].aw, en |-> FALSE, w |-> vb[v].w]]
        /\ vb_ptr' = [create |-> vb_ptr.create, req |-> 1 - v, pop |-> p]
        /\ vb[v].aw # NONE /\ vb[v].en
    BY VbAsk
  <2>3. vb \in [VID -> VbEntry]
    BY DEF LineTypes
  <2> QED
    BY <2>1, <2>2, <2>3, VidFacts
<1>6. /\ vb'[v].aw # NONE /\ ~vb'[v].en /\ ~Asked(v) /\ vb'[v].aw = vb[v].aw
      /\ vb'[1 - v] = vb[1 - v]
  BY <1>5 DEF Asked
<1>7. v = p \/ v = 1 - p
  BY <1>5
<1>8. /\ v = p => AskedVb = 0 /\ AskedVb' = 1
      /\ v = 1 - p => AskedVb = 1 /\ AskedVb' = 2
  <2>1. CASE v = p
    <3>1. ~Asked(0) /\ ~Asked(1)
      BY <1>5, <1>6, <2>1 DEF VbRing
    <3>2. ~Asked(1 - p) /\ ~Asked(p)
      BY <1>5, <3>1
    <3> QED
      BY <1>5, <1>6, <2>1, <3>2 DEF AskedVb, Asked
  <2>2. CASE v = 1 - p
    <3>1. Asked(p) /\ ~Asked(1 - p) /\ 1 - v = p /\ v # p
      BY <1>5, <1>6, <2>2 DEF VbRing
    <3> QED
      BY <1>5, <1>6, <2>2, <3>1 DEF AskedVb, Asked
  <2> QED
    BY <1>5, <1>7, <2>1, <2>2
<1>9. AskedVb \in Nat /\ AskedVb' = g /\ AskedAt(g) = v
  BY <1>5, <1>7, <1>8 DEF AskedAt
<1>10. \A k : AskedAt(k)' = AskedAt(k) /\ AskedAt(k) \in VID
               /\ vb'[AskedAt(k)].aw = vb[AskedAt(k)].aw
  BY <1>5, <1>6, VidFacts DEF AskedAt
<1>11. PICK pv2 : pv2 = [i \in FromVb \cup {n} |-> IF i = n THEN g ELSE pv[i]]
  OBVIOUS
<1>12. PICK pb2 : pb2 = [i \in Issued \cup {n} |-> IF i = n THEN m ELSE pb[i]]
  OBVIOUS
<1>13. Len(bus_aw) \in Nat /\ Len(bus_aw') = m
  BY <1>2 DEF BusTypes
<1>14. /\ Ranks(FromVb, AskedVb, pv) /\ Ranks(Issued, Len(bus_aw), pb)
       /\ FromVb \subseteq Nat /\ Issued \subseteq Nat
  BY <1>1, WoqIndices DEF Merge
<1>15. Ranks(FromVb \cup {n}, g, pv2)
  <2> HIDE DEF n
  <2> QED
    BY <1>3, <1>9, <1>11, <1>14, RanksAppend
<1>16. Ranks(Issued \cup {n}, m, pb2)
  <2> HIDE DEF n
  <2> QED
    BY <1>3, <1>12, <1>13, <1>14, RanksAppend
<1>17. \A i \in Issued : bus_aw'[pb2[i]] = bus_aw[pb[i]]
  <2> TAKE i \in Issued
  <2>1. i # n /\ pb[i] \in 1 .. Len(bus_aw)
    BY <1>3
  <2>2. pb2[i] = pb[i]
    BY <1>12, <2>1
  <2>3. bus_aw'[pb[i]] = bus_aw[pb[i]]
    BY <1>2, <2>1 DEF BusTypes
  <2> QED
    BY <2>2, <2>3
<1>18. ASSUME NEW i \in FromVb'
       PROVE  i \in Issued' /\ bus_aw'[pb2[i]].addr = vb'[AskedAt(pv2[i])].aw
  <2>1. CASE i \in FromVb
    <3>1. pv2[i] = pv[i] /\ i \in Issued /\ bus_aw[pb[i]].addr = vb[AskedAt(pv[i])].aw
      BY <1>1, <1>3, <1>11, <2>1 DEF Merge
    <3> QED
      BY <1>3, <1>10, <1>17, <3>1
  <2>2. CASE i = n
    <3>1. bus_aw'[m] = x /\ x.addr = vb[v].aw
      BY <1>2 DEF BusTypes
    <3>2. pb2[n] = m /\ pv2[n] = g
      BY <1>11, <1>12
    <3> QED
      BY <1>3, <1>6, <1>9, <2>2, <3>1, <3>2
  <2> QED
    BY <1>3, <2>1, <2>2
<1>19. ASSUME NEW i \in FromNcq'
       PROVE  /\ woq_ncq[pn[i]].kind = "fail" => i \notin Issued'
              /\ woq_ncq[pn[i]].kind # "fail" => i \in Issued'
              /\ i \in Issued' => bus_aw'[pb2[i]].addr = woq_ncq[pn[i]].addr
  <2>1. i # n /\ i \in FromNcq
    BY <1>3
  <2> QED
    BY <1>1, <1>3, <1>17, <2>1 DEF Merge
<1>20. Merge(pv2, pn, pb2)'
  BY <1>1, <1>2, <1>3, <1>4, <1>9, <1>10, <1>13, <1>15, <1>16, <1>18, <1>19 DEF Merge
<1>21. /\ pv2 \in [FromVb' -> 1 .. AskedVb'] /\ pn \in [FromNcq' -> 1 .. GrantedNcq']
       /\ pb2 \in [Issued' -> 1 .. Len(bus_aw')]
  BY <1>20 DEF Merge, Ranks
<1> QED
  BY <1>4, <1>20, <1>21 DEF Order

\* A new write of the NCQ waits behind the others.
LEMMA OrderNcqWrite ==
  ASSUME Types, Order, NEW w \in NcqWr, NcqWrite(w)
  PROVE  Order'
<1> USE DEF Types
<1>1. PICK pv \in [FromVb -> 1 .. AskedVb], pn \in [FromNcq -> 1 .. GrantedNcq],
           pb \in [Issued -> 1 .. Len(bus_aw)] : Merge(pv, pn, pb)
  BY DEF Order
<1>2. /\ waq' = Append(waq, w) /\ woq_ncq' = Append(woq_ncq, w)
      /\ UNCHANGED <<vb, vb_ptr, woq, bus_aw>>
  BY DEF NcqWrite, wbus
<1>3. /\ Len(waq) \in Nat /\ Len(woq_ncq) \in Nat /\ Len(waq') = Len(waq) + 1
      /\ Len(woq_ncq') = Len(woq_ncq) + 1
      /\ DOMAIN waq' = 1 .. Len(waq) + 1 /\ DOMAIN waq = 1 .. Len(waq)
      /\ waq'[Len(waq) + 1] = w /\ woq_ncq'[Len(woq_ncq) + 1] = w
      /\ \A i \in 1 .. Len(waq) : waq'[i] = waq[i]
      /\ \A i \in 1 .. Len(woq_ncq) : woq_ncq'[i] = woq_ncq[i]
  BY <1>2 DEF CoreTypes
<1>4. /\ GrantedNcq' = GrantedNcq /\ GrantedNcq \in Nat /\ GrantedNcq <= Len(woq_ncq)
      /\ GrantedNcq + Len(waq) = Len(woq_ncq)
  <2>1. GrantedNcq \in Nat
    BY DEF Order, NcqOrder
  <2> QED
    BY <1>3, <2>1 DEF GrantedNcq
<1>5. NcqOrder'
  <2>1. ASSUME NEW i \in DOMAIN waq' PROVE woq_ncq'[GrantedNcq + i] = waq'[i]
    <3>1. CASE i = Len(waq) + 1
      <4>1. GrantedNcq + i = Len(woq_ncq) + 1
        BY <1>3, <1>4, <3>1
      <4> QED
        BY <1>3, <3>1, <4>1
    <3>2. CASE i \in DOMAIN waq
      <4>1. woq_ncq[GrantedNcq + i] = waq[i]
        BY <3>2 DEF Order, NcqOrder
      <4>2. GrantedNcq + i \in 1 .. Len(woq_ncq)
        BY <1>3, <1>4, <3>2
      <4> QED
        BY <1>3, <3>2, <4>1, <4>2
    <3> QED
      BY <1>3, <3>1, <3>2
  <2> QED
    BY <1>4, <2>1 DEF NcqOrder
<1>6. /\ FromVb' = FromVb /\ FromNcq' = FromNcq /\ Issued' = Issued
      /\ AskedVb' = AskedVb /\ \A k : AskedAt(k)' = AskedAt(k)
  BY <1>2 DEF FromVb, FromNcq, Issued, AskedVb, AskedAt, Asked
<1>7. \A i \in FromNcq : woq_ncq'[pn[i]] = woq_ncq[pn[i]]
  <2> TAKE i \in FromNcq
  <2>1. pn[i] \in 1 .. GrantedNcq
    OBVIOUS
  <2>2. pn[i] \in 1 .. Len(woq_ncq)
    BY <1>3, <1>4, <2>1
  <2> QED
    BY <1>3, <2>2
<1>8. Merge(pv, pn, pb)'
  BY <1>1, <1>2, <1>4, <1>6, <1>7 DEF Merge
<1> QED
  BY <1>2, <1>4, <1>5, <1>6, <1>8 DEF Order

\* The oldest write has its data: on the bus the others move up.
LEMMA IssuedPop ==
  ASSUME BusTypes, NEW pb \in [Issued -> 1 .. Len(bus_aw)], Ranks(Issued, Len(bus_aw), pb),
         woq # <<>>, NEW d, TakeData(d)
  PROVE  \E pb2 : /\ Ranks(Issued', Len(bus_aw'), pb2)
                  /\ \A i \in Issued' : i + 1 \in Issued /\ bus_aw'[pb2[i]] = bus_aw[pb[i + 1]]
<1>1. /\ Issued' = Cut(Issued, 1) /\ Issued \subseteq Nat \ {0}
      /\ 1 \in DOMAIN woq /\ Head(woq) = woq[1] /\ Len(bus_aw) \in Nat
  BY WoqIndices, WoqTail DEF TakeData, BusTypes
<1>2. \A i \in Cut(Issued, 1) : i \in Nat \ {0} /\ i + 1 \in Issued
  BY DEF Cut
<1>3. CASE 1 \in Issued
  <2>1. Len(bus_aw) > 0 /\ pb[1] = 1
    BY <1>1, <1>3, RanksFirst
  <2>2. bus_aw' = Tail(bus_aw)
    BY <1>1, <1>3 DEF TakeData, Issued
  <2>3. /\ Len(bus_aw') = Len(bus_aw) - 1
        /\ \A k \in 1 .. Len(bus_aw) - 1 : bus_aw'[k] = bus_aw[k + 1]
    BY <2>1, <2>2 DEF BusTypes
  <2>4. PICK q : q = [i \in Cut(Issued, 1) |-> pb[i + 1] - 1]
    OBVIOUS
  <2>5. Ranks(Cut(Issued, 1), Len(bus_aw) - 1, q)
    BY <1>1, <1>3, <2>4, RanksTail
  <2>6. ASSUME NEW i \in Cut(Issued, 1) PROVE bus_aw'[q[i]] = bus_aw[pb[i + 1]]
    <3>1. q[i] \in 1 .. Len(bus_aw) - 1 /\ q[i] = pb[i + 1] - 1 /\ pb[i + 1] \in 1 .. Len(bus_aw)
      BY <1>2, <2>4, <2>5 DEF Ranks
    <3>2. q[i] + 1 = pb[i + 1]
      BY <3>1
    <3> QED
      BY <2>3, <3>1, <3>2
  <2> QED
    BY <1>1, <1>2, <2>3, <2>5, <2>6
<1>4. CASE 1 \notin Issued
  <2>1. bus_aw' = bus_aw
    BY <1>1, <1>4 DEF TakeData, Issued, wbus
  <2>2. PICK q : q = [i \in Cut(Issued, 1) |-> pb[i + 1]]
    OBVIOUS
  <2>3. Ranks(Cut(Issued, 1), Len(bus_aw), q)
    BY <1>1, <1>4, <2>2, RanksSkip
  <2> QED
    BY <1>1, <1>2, <2>1, <2>2, <2>3
<1> QED
  BY <1>3, <1>4

\* The oldest data of the VB go onto the bus.
LEMMA OrderVbPop ==
  ASSUME Types, Order, EbiuVbWGrant
  PROVE  Order'
<1> USE DEF Types
<1>1. PICK pv \in [FromVb -> 1 .. AskedVb], pn \in [FromNcq -> 1 .. GrantedNcq],
           pb \in [Issued -> 1 .. Len(bus_aw)] : Merge(pv, pn, pb)
  BY DEF Order
<1> DEFINE p == vb_ptr.pop
<1>2. /\ w_source("vb") /\ woq # <<>> /\ TakeData(vb[p].w) /\ woq' = Tail(woq)
      /\ UNCHANGED <<waq, woq_ncq>>
  BY DEF EbiuVbWGrant, w_source, TakeData, ncq
<1>3. PICK pb2 : /\ Ranks(Issued', Len(bus_aw'), pb2)
                 /\ \A i \in Issued' : i + 1 \in Issued /\ bus_aw'[pb2[i]] = bus_aw[pb[i + 1]]
  BY <1>1, <1>2, IssuedPop DEF Merge
<1>4. /\ FromVb' = Cut(FromVb, 1) /\ FromNcq' = Cut(FromNcq, 1) /\ Issued' = Cut(Issued, 1)
      /\ 1 \in FromVb /\ 1 \notin FromNcq
  <2>1. 1 \in DOMAIN woq /\ woq[1].source = "vb"
    BY <1>2, WoqTail DEF w_source
  <2> QED
    BY <1>2, <2>1, WoqTail DEF FromVb, FromNcq
<1>5. \A i \in Cut(FromVb, 1) : i \in Nat \ {0} /\ i + 1 \in FromVb
  BY DEF Cut
<1>6. \A i \in Cut(FromNcq, 1) : i \in Nat \ {0} /\ i + 1 \in FromNcq
  BY DEF Cut
<1>7. NcqOrder' /\ GrantedNcq' = GrantedNcq /\ GrantedNcq \in Nat
  BY <1>2 DEF Order, NcqOrder, GrantedNcq
<1>8. /\ p \in {0, 1} /\ vb'[p] = EmptyVB /\ vb'[1 - p] = vb[1 - p] /\ vb_ptr'.pop = 1 - p
      /\ Asked(p)
  <2>1. p \in VID /\ 1 - p \in VID /\ 1 - p # p
    BY PtrUpdate, VidFacts
  <2>2. /\ vb' = [vb EXCEPT ![p] = EmptyVB]
        /\ vb_ptr' = [create |-> vb_ptr.create, req |-> vb_ptr.req, pop |-> 1 - p]
    BY VbPop
  <2>3. vb \in [VID -> VbEntry]
    BY DEF LineTypes
  <2> QED
    BY <1>2, <2>1, <2>2, <2>3, VidFacts, HeadFromVb
<1>9. 1 - (1 - p) = p /\ AskedVb \in {1, 2} /\ AskedVb' = AskedVb - 1
  <2>1. 1 - (1 - p) = p
    BY <1>8
  <2>2. vb'[p].aw = NONE
    BY <1>8 DEF EmptyVB
  <2> QED
    BY <1>8, <2>1, <2>2 DEF AskedVb, Asked
<1>10. PICK pv2 : pv2 = [i \in Cut(FromVb, 1) |-> pv[i + 1] - 1]
  OBVIOUS
<1>11. PICK pn2 : pn2 = [i \in Cut(FromNcq, 1) |-> pn[i + 1]]
  OBVIOUS
<1>12. Ranks(FromVb', AskedVb', pv2)
  <2>1. Ranks(FromVb, AskedVb, pv) /\ AskedVb \in Nat /\ FromVb \subseteq Nat \ {0}
    BY <1>1, <1>9, WoqIndices DEF Merge
  <2>2. Ranks(Cut(FromVb, 1), AskedVb - 1, pv2)
    BY <1>4, <1>10, <2>1, RanksTail
  <2> QED
    BY <1>4, <1>9, <2>2
<1>13. Ranks(FromNcq', GrantedNcq', pn2)
  <2>1. Ranks(FromNcq, GrantedNcq, pn) /\ FromNcq \subseteq Nat \ {0}
    BY <1>1, WoqIndices DEF Merge
  <2>2. Ranks(Cut(FromNcq, 1), GrantedNcq, pn2)
    BY <1>4, <1>7, <1>11, <2>1, RanksSkip
  <2> QED
    BY <1>4, <1>7, <2>2
<1>14. ASSUME NEW i \in FromVb'
       PROVE  i \in Issued' /\ bus_aw'[pb2[i]].addr = vb'[AskedAt(pv2[i])'].aw
  <2>1. /\ i \in Nat \ {0} /\ i + 1 \in FromVb /\ pv2[i] = pv[i + 1] - 1
        /\ pv[i + 1] \in 1 .. AskedVb /\ pv2[i] \in 1 .. AskedVb'
    BY <1>4, <1>5, <1>10, <1>12 DEF Ranks
  <2>2. i + 1 \in Issued /\ bus_aw[pb[i + 1]].addr = vb[AskedAt(pv[i + 1])].aw
    BY <1>1, <2>1 DEF Merge
  <2>3. i \in Issued'
    BY <1>4, <2>1, <2>2 DEF Cut
  <2>4. AskedVb = 2 /\ pv2[i] = 1 /\ pv[i + 1] = 2
    BY <1>9, <2>1
  <2>5. AskedAt(pv2[i])' = 1 - p /\ AskedAt(pv[i + 1]) = 1 - p
    BY <1>8, <2>4 DEF AskedAt
  <2> QED
    BY <1>3, <1>8, <2>2, <2>3, <2>5
<1>15. ASSUME NEW i \in FromNcq'
       PROVE  /\ woq_ncq[pn2[i]].kind = "fail" => i \notin Issued'
              /\ woq_ncq[pn2[i]].kind # "fail" => i \in Issued'
              /\ i \in Issued' => bus_aw'[pb2[i]].addr = woq_ncq[pn2[i]].addr
  <2>1. i \in Nat \ {0} /\ i + 1 \in FromNcq /\ pn2[i] = pn[i + 1]
    BY <1>4, <1>6, <1>11
  <2>2. i \in Issued' <=> i + 1 \in Issued
    BY <1>4, <2>1 DEF Cut
  <2> QED
    BY <1>1, <1>3, <2>1, <2>2 DEF Merge
<1>16. Merge(pv2, pn2, pb2)'
  BY <1>2, <1>3, <1>12, <1>13, <1>14, <1>15 DEF Merge
<1>17. /\ pv2 \in [FromVb' -> 1 .. AskedVb'] /\ pn2 \in [FromNcq' -> 1 .. GrantedNcq']
       /\ pb2 \in [Issued' -> 1 .. Len(bus_aw')]
  BY <1>16 DEF Merge, Ranks
<1> QED
  BY <1>7, <1>16, <1>17 DEF Order

\* The oldest data of the NCQ go onto the bus, or nowhere.
LEMMA OrderNcqPop ==
  ASSUME Types, Order, NcqWGrant
  PROVE  Order'
<1> USE DEF Types
<1>1. PICK pv \in [FromVb -> 1 .. AskedVb], pn \in [FromNcq -> 1 .. GrantedNcq],
           pb \in [Issued -> 1 .. Len(bus_aw)] : Merge(pv, pn, pb)
  BY DEF Order
<1>2. /\ w_source("ncq") /\ woq # <<>> /\ TakeData(Head(woq_ncq).addr) /\ woq' = Tail(woq)
      /\ woq_ncq' = Tail(woq_ncq) /\ UNCHANGED <<waq, vb, vb_ptr>>
  BY DEF NcqWGrant, w_source, TakeData
<1>3. PICK pb2 : /\ Ranks(Issued', Len(bus_aw'), pb2)
                 /\ \A i \in Issued' : i + 1 \in Issued /\ bus_aw'[pb2[i]] = bus_aw[pb[i + 1]]
  BY <1>1, <1>2, IssuedPop DEF Merge
<1>4. /\ FromVb' = Cut(FromVb, 1) /\ FromNcq' = Cut(FromNcq, 1) /\ Issued' = Cut(Issued, 1)
      /\ 1 \in FromNcq /\ 1 \notin FromVb
  <2>1. 1 \in DOMAIN woq /\ woq[1].source = "ncq"
    BY <1>2, WoqTail DEF w_source
  <2> QED
    BY <1>2, <2>1, WoqTail DEF FromVb, FromNcq
<1>5. \A i \in Cut(FromVb, 1) : i \in Nat \ {0} /\ i + 1 \in FromVb
  BY DEF Cut
<1>6. \A i \in Cut(FromNcq, 1) : i \in Nat \ {0} /\ i + 1 \in FromNcq
  BY DEF Cut
<1>7. /\ GrantedNcq \in Nat /\ GrantedNcq > 0 /\ GrantedNcq' = GrantedNcq - 1
      /\ GrantedNcq + Len(waq) = Len(woq_ncq)
      /\ Len(woq_ncq) \in Nat /\ Len(waq) \in Nat
      /\ \A k \in 1 .. Len(woq_ncq) - 1 : woq_ncq'[k] = woq_ncq[k + 1]
  <2>1. GrantedNcq \in Nat /\ GrantedNcq > 0 /\ woq_ncq # <<>>
    BY <1>2, HeadFromNcq DEF Order, NcqOrder
  <2>2. /\ Len(woq_ncq) \in Nat /\ Len(waq) \in Nat /\ Len(woq_ncq') = Len(woq_ncq) - 1
        /\ \A k \in 1 .. Len(woq_ncq) - 1 : woq_ncq'[k] = woq_ncq[k + 1]
    BY <1>2, <2>1 DEF CoreTypes
  <2>3. GrantedNcq = Len(woq_ncq) - Len(waq) /\ GrantedNcq' = Len(woq_ncq') - Len(waq)
    BY <1>2 DEF GrantedNcq
  <2> QED
    BY <2>1, <2>2, <2>3
<1>8. NcqOrder'
  <2>1. ASSUME NEW i \in DOMAIN waq PROVE woq_ncq'[GrantedNcq' + i] = waq[i]
    <3>1. i \in 1 .. Len(waq) /\ woq_ncq[GrantedNcq + i] = waq[i]
      BY DEF Order, NcqOrder, CoreTypes
    <3>2. /\ GrantedNcq' + i \in 1 .. Len(woq_ncq) - 1
          /\ (GrantedNcq' + i) + 1 = GrantedNcq + i
      BY <1>7, <3>1
    <3> QED
      BY <1>7, <3>1, <3>2
  <2>2. GrantedNcq' \in Nat
    BY <1>7
  <2> QED
    BY <1>2, <2>1, <2>2 DEF NcqOrder
<1>9. AskedVb' = AskedVb /\ AskedVb \in Nat /\ \A k : AskedAt(k)' = AskedAt(k)
  BY <1>2, AskedFacts DEF AskedVb, AskedAt, Asked
<1>10. PICK pv2 : pv2 = [i \in Cut(FromVb, 1) |-> pv[i + 1]]
  OBVIOUS
<1>11. PICK pn2 : pn2 = [i \in Cut(FromNcq, 1) |-> pn[i + 1] - 1]
  OBVIOUS
<1>12. Ranks(FromVb', AskedVb', pv2)
  <2>1. Ranks(FromVb, AskedVb, pv) /\ FromVb \subseteq Nat \ {0}
    BY <1>1, WoqIndices DEF Merge
  <2>2. Ranks(Cut(FromVb, 1), AskedVb, pv2)
    BY <1>4, <1>9, <1>10, <2>1, RanksSkip
  <2> QED
    BY <1>4, <1>9, <2>2
<1>13. Ranks(FromNcq', GrantedNcq', pn2)
  <2>1. Ranks(FromNcq, GrantedNcq, pn) /\ FromNcq \subseteq Nat \ {0}
    BY <1>1, WoqIndices DEF Merge
  <2>2. Ranks(Cut(FromNcq, 1), GrantedNcq - 1, pn2)
    BY <1>4, <1>7, <1>11, <2>1, RanksTail
  <2> QED
    BY <1>4, <1>7, <2>2
<1>14. ASSUME NEW i \in FromVb'
       PROVE  i \in Issued' /\ bus_aw'[pb2[i]].addr = vb[AskedAt(pv2[i])].aw
  <2>1. i \in Nat \ {0} /\ i + 1 \in FromVb /\ pv2[i] = pv[i + 1]
    BY <1>4, <1>5, <1>10
  <2>2. i + 1 \in Issued /\ bus_aw[pb[i + 1]].addr = vb[AskedAt(pv[i + 1])].aw
    BY <1>1, <2>1 DEF Merge
  <2>3. i \in Issued'
    BY <1>4, <2>1, <2>2 DEF Cut
  <2> QED
    BY <1>3, <2>1, <2>2, <2>3
<1>15. ASSUME NEW i \in FromNcq'
       PROVE  /\ woq_ncq'[pn2[i]].kind = "fail" => i \notin Issued'
              /\ woq_ncq'[pn2[i]].kind # "fail" => i \in Issued'
              /\ i \in Issued' => bus_aw'[pb2[i]].addr = woq_ncq'[pn2[i]].addr
  <2>1. /\ i \in Nat \ {0} /\ i + 1 \in FromNcq /\ pn2[i] = pn[i + 1] - 1
        /\ pn[i + 1] \in 1 .. GrantedNcq /\ pn2[i] \in 1 .. GrantedNcq'
    BY <1>4, <1>6, <1>11, <1>13 DEF Ranks
  <2>2. pn2[i] \in 1 .. Len(woq_ncq) - 1 /\ pn2[i] + 1 = pn[i + 1]
    BY <1>7, <2>1
  <2>3. woq_ncq'[pn2[i]] = woq_ncq[pn[i + 1]]
    BY <1>7, <2>2
  <2>4. i \in Issued' <=> i + 1 \in Issued
    BY <1>4, <2>1 DEF Cut
  <2> QED
    BY <1>1, <1>3, <2>1, <2>3, <2>4 DEF Merge
<1>16. Merge(pv2, pn2, pb2)'
  BY <1>2, <1>3, <1>9, <1>12, <1>13, <1>14, <1>15 DEF Merge
<1>17. /\ pv2 \in [FromVb' -> 1 .. AskedVb'] /\ pn2 \in [FromNcq' -> 1 .. GrantedNcq']
       /\ pb2 \in [Issued' -> 1 .. Len(bus_aw')]
  BY <1>16 DEF Merge, Ranks
<1> QED
  BY <1>8, <1>16, <1>17 DEF Order

LEMMA OrderStep ==
  ASSUME Types, VbRing, Order, Next
  PROVE  Order'
<1> USE DEF Types
<1>0. vb \in [VID -> VbEntry]
  BY DEF LineTypes
<1>1. ASSUME NEW b \in BANK, VbAwGrant(b) PROVE Order'
  <2> DEFINE c == vb_ptr.create
             l == ebiu_aw_buf[b]
  <2>1. /\ c \in VID /\ vb[c].aw = NONE /\ vb_ptr'.pop = vb_ptr.pop
        /\ vb' = [vb EXCEPT ![c] = [aw |-> l, en |-> TRUE, w |-> vb[c].w]]
    BY <1>1, VbCreate
  <2> HIDE DEF c, l
  <2>2. \A v \in VID : /\ Asked(v)' => Asked(v)
                       /\ Asked(v) => Asked(v)' /\ vb'[v].aw = vb[v].aw
    BY <1>0, <2>1 DEF Asked
  <2>3. UNCHANGED <<waq, woq_ncq, woq, bus_aw>>
    BY <1>1 DEF VbAwGrant, ncq, wbus
  <2> QED
    BY <2>1, <2>2, <2>3, OrderSame
<1>2. ASSUME NEW l \in LINE, L2Victim(l) PROVE Order'
  <2> DEFINE c == vb_ptr.create
  <2>1. /\ c \in VID /\ vb[c].aw = NONE /\ vb_ptr'.pop = vb_ptr.pop
        /\ vb' = [vb EXCEPT ![c] = [aw |-> l, en |-> TRUE, w |-> l]]
    BY <1>2, VbVictim
  <2> HIDE DEF c
  <2>2. \A v \in VID : /\ Asked(v)' => Asked(v)
                       /\ Asked(v) => Asked(v)' /\ vb'[v].aw = vb[v].aw
    BY <1>0, <2>1 DEF Asked
  <2>3. UNCHANGED <<waq, woq_ncq, woq, bus_aw>>
    BY <1>2 DEF L2Victim, ncq, wbus
  <2> QED
    BY <2>1, <2>2, <2>3, OrderSame
<1>3. ASSUME NEW b \in BANK, VbWGrant(b) PROVE Order'
  <2> DEFINE s == Head(ebiu_sel_fifo[b])
  <2>1. /\ s.vid \in VID /\ vb_ptr' = vb_ptr
        /\ vb' = [vb EXCEPT ![s.vid] = [aw |-> vb[s.vid].aw, en |-> vb[s.vid].en, w |-> s.line]]
    BY <1>3, VbData
  <2> HIDE DEF s
  <2>2. \A v \in VID : vb'[v].aw = vb[v].aw /\ vb'[v].en = vb[v].en
    BY <1>0, <2>1
  <2>3. UNCHANGED <<waq, woq_ncq, woq, bus_aw>>
    BY <1>3 DEF VbWGrant, ncq, wbus
  <2> QED
    BY <2>1, <2>2, <2>3, OrderSame DEF Asked
<1>4. CASE NcqWoAwGrant
  <2> DEFINE id == <<"wo", ncwt_ptr.create>>
  <2>1. id \in Id
    BY DEF Id, TableTypes
  <2>2. /\ waq # <<>> /\ CreateWr("ncq", TRUE, id, Head(waq).addr) /\ Head(waq).kind = "wo"
        /\ waq' = Tail(waq) /\ UNCHANGED <<woq_ncq, vb, vb_ptr>>
    BY <1>4 DEF NcqWoAwGrant
  <2> HIDE DEF id
  <2> QED
    BY <2>1, <2>2, OrderNcqPush
<1>5. CASE NcqSoAwGrant
  <2> DEFINE id == <<"so", Head(waq).addr>>
  <2>1. \E iss \in BOOLEAN :
          /\ waq # <<>> /\ CreateWr("ncq", iss, id, Head(waq).addr)
          /\ Head(waq).kind \in {"so", "fail"}
          /\ Head(waq).kind = "fail" => ~iss
          /\ Head(waq).kind # "fail" => iss
          /\ waq' = Tail(waq) /\ UNCHANGED <<woq_ncq, vb, vb_ptr>>
    BY <1>5 DEF NcqSoAwGrant
  <2>2. id \in Id
    <3>1. Head(waq) \in NcqWr /\ Head(waq).kind # "wo"
      BY <2>1 DEF CoreTypes
    <3> QED
      BY <3>1 DEF Id, NcqWr
  <2> HIDE DEF id
  <2> QED
    BY <2>1, <2>2, OrderNcqPush
<1>6. CASE UNCHANGED <<waq, woq_ncq, woq, bus_aw, vb, vb_ptr>>
  BY <1>6, OrderSame DEF Asked
<1> QED
  BY <1>1, <1>2, <1>3, <1>4, <1>5, <1>6, WriteSteps, OrderNcqWrite, OrderVbPush,
     OrderVbPop, OrderNcqPop

-----------------------------------------------------------------------------
(***************************************************************************)
(* The tables and the bus: types, and what the steps do to them.           *)
(***************************************************************************)
LEMMA NcwtUpdate ==
  ASSUME NEW e \in NcwtEntry, NEW x \in BOOLEAN, NEW a
  PROVE  /\ [e EXCEPT !.bus_done = x] =
              [addr |-> e.addr, resp_ready |-> e.resp_ready, resp_done |-> e.resp_done,
               bus_done |-> x]
         /\ [e EXCEPT !.resp_done = x] =
              [addr |-> e.addr, resp_ready |-> e.resp_ready, resp_done |-> x,
               bus_done |-> e.bus_done]
         /\ [e EXCEPT !.resp_ready = x] =
              [addr |-> e.addr, resp_ready |-> x, resp_done |-> e.resp_done,
               bus_done |-> e.bus_done]
<1>1. [e EXCEPT !.bus_done = x] =
        [addr |-> e.addr, resp_ready |-> e.resp_ready, resp_done |-> e.resp_done,
         bus_done |-> x]
  BY DEF NcwtEntry
<1>2. [e EXCEPT !.resp_done = x] =
        [addr |-> e.addr, resp_ready |-> e.resp_ready, resp_done |-> x,
         bus_done |-> e.bus_done]
  BY DEF NcwtEntry
<1>3. [e EXCEPT !.resp_ready = x] =
        [addr |-> e.addr, resp_ready |-> x, resp_done |-> e.resp_done,
         bus_done |-> e.bus_done]
  BY DEF NcwtEntry
<1> QED
  BY <1>1, <1>2, <1>3, Zenon

LEMMA NewNcwt ==
  ASSUME NEW a \in WO
  PROVE  /\ [EmptyNCWT EXCEPT !.addr = a] \in NcwtEntry
         /\ [EmptyNCWT EXCEPT !.addr = a].addr = a
         /\ [EmptyNCWT EXCEPT !.addr = a].bus_done = FALSE
         /\ [EmptyNCWT EXCEPT !.addr = a].resp_done = FALSE
         /\ EmptyNCWT \in NcwtEntry /\ EmptyNCWT.addr = NONE
BY DEF EmptyNCWT, NcwtEntry

\* What a response does to the entry of its write.
LEMMA BusDone ==
  ASSUME NEW e \in NcwtEntry, NEW f, f = Done([e EXCEPT !.bus_done = TRUE])
  PROVE  /\ f \in NcwtEntry
         /\ f = EmptyNCWT \/ (f.addr = e.addr /\ f.bus_done = TRUE /\ f.resp_done = e.resp_done)
         /\ f.addr # NONE => f.addr = e.addr /\ f.resp_done = e.resp_done
         /\ e.addr # NONE /\ ~e.resp_done => f.addr = e.addr /\ ~f.resp_done
<1>1. PICK g : g = [addr |-> e.addr, resp_ready |-> e.resp_ready,
                    resp_done |-> e.resp_done, bus_done |-> TRUE]
  OBVIOUS
<1>2. [e EXCEPT !.bus_done = TRUE] = g
  BY <1>1, NcwtUpdate
<1>3. /\ g \in NcwtEntry /\ g.addr = e.addr /\ g.bus_done = TRUE
      /\ g.resp_done = e.resp_done
  BY <1>1 DEF NcwtEntry
<1>4. f = IF g.resp_done /\ g.bus_done THEN EmptyNCWT ELSE g
  BY <1>2 DEF Done
<1>5. EmptyNCWT \in NcwtEntry /\ EmptyNCWT.addr = NONE
  BY DEF EmptyNCWT, NcwtEntry
<1>6. CASE g.resp_done
  BY <1>3, <1>4, <1>5, <1>6
<1>7. CASE ~g.resp_done
  BY <1>3, <1>4, <1>7
<1> QED
  BY <1>6, <1>7

\* What the answer to the core does to the entry of its write.
LEMMA RespDone ==
  ASSUME NEW e \in NcwtEntry, NEW f, f = Done([e EXCEPT !.resp_done = TRUE])
  PROVE  /\ f \in NcwtEntry
         /\ f = EmptyNCWT \/ (f.addr = e.addr /\ f.bus_done = e.bus_done)
         /\ f.addr # NONE => f.addr = e.addr /\ f.resp_done
         /\ e.addr # NONE /\ ~e.bus_done => f.addr = e.addr /\ ~f.bus_done
         /\ f.addr # NONE /\ ~f.bus_done => e.addr # NONE /\ ~e.bus_done
<1>1. PICK g : g = [addr |-> e.addr, resp_ready |-> e.resp_ready,
                    resp_done |-> TRUE, bus_done |-> e.bus_done]
  OBVIOUS
<1>2. [e EXCEPT !.resp_done = TRUE] = g
  BY <1>1, NcwtUpdate
<1>3. /\ g \in NcwtEntry /\ g.addr = e.addr /\ g.resp_done = TRUE
      /\ g.bus_done = e.bus_done
  BY <1>1 DEF NcwtEntry
<1>4. f = IF g.resp_done /\ g.bus_done THEN EmptyNCWT ELSE g
  BY <1>2 DEF Done
<1>5. EmptyNCWT \in NcwtEntry /\ EmptyNCWT.addr = NONE
  BY DEF EmptyNCWT, NcwtEntry
<1>6. CASE g.bus_done
  BY <1>3, <1>4, <1>5, <1>6
<1>7. CASE ~g.bus_done
  BY <1>3, <1>4, <1>7
<1> QED
  BY <1>6, <1>7

\* A sequence without its g-th element.
LEMMA WithoutFacts ==
  ASSUME NEW S, NEW s \in Seq(S), NEW g \in 1 .. Len(s)
  PROVE  /\ Without(s, g) \in Seq(S) /\ Len(Without(s, g)) = Len(s) - 1
         /\ \A i \in 1 .. Len(s) - 1 : Without(s, g)[i] = IF i < g THEN s[i] ELSE s[i + 1]
<1> DEFINE a == SubSeq(s, 1, g - 1)
           b == SubSeq(s, g + 1, Len(s))
<1>1. Len(s) \in Nat /\ g \in Nat \ {0} /\ g <= Len(s)
  OBVIOUS
<1>2. /\ a \in Seq(S) /\ Len(a) = g - 1 /\ \A i \in 1 .. g - 1 : a[i] = s[i]
  BY <1>1
<1>3. /\ b \in Seq(S) /\ Len(b) = Len(s) - g /\ \A i \in 1 .. Len(s) - g : b[i] = s[g + i]
  BY <1>1
<1>4. Without(s, g) = a \o b
  BY DEF Without
<1> HIDE DEF a, b
<1>5. /\ a \o b \in Seq(S) /\ Len(a \o b) = Len(a) + Len(b)
      /\ \A i \in 1 .. Len(a) + Len(b) : (a \o b)[i] = IF i <= Len(a) THEN a[i] ELSE b[i - Len(a)]
  BY <1>2, <1>3, ConcatProperties
<1>6. ASSUME NEW i \in 1 .. Len(s) - 1
      PROVE  (a \o b)[i] = IF i < g THEN s[i] ELSE s[i + 1]
  <2>1. CASE i < g
    BY <1>1, <1>2, <1>3, <1>5, <2>1
  <2>2. CASE ~(i < g)
    <3>1. i - (g - 1) \in 1 .. Len(s) - g /\ g + (i - (g - 1)) = i + 1
      BY <1>1, <2>2
    <3>2. (a \o b)[i] = b[i - (g - 1)]
      BY <1>1, <1>2, <1>3, <1>5, <2>2
    <3> QED
      BY <1>3, <2>2, <3>1, <3>2
  <2> QED
    BY <2>1, <2>2
<1> QED
  BY <1>1, <1>2, <1>3, <1>4, <1>5, <1>6

-----------------------------------------------------------------------------
(***************************************************************************)
(* The ids under way.                                                      *)
(***************************************************************************)
LEMMA BusIndices ==
  ASSUME BusTypes
  PROVE  /\ Len(bus_aw) \in Nat /\ DOMAIN bus_aw = 1 .. Len(bus_aw)
         /\ Len(bus_wr) \in Nat /\ DOMAIN bus_wr = 1 .. Len(bus_wr)
         /\ Len(bfifo) \in Nat /\ DOMAIN bfifo = 1 .. Len(bfifo)
BY DEF BusTypes

LEMMA OpenType ==
  ASSUME BusTypes, NEW x
  PROVE  /\ Open(x) \in Nat /\ IsFiniteSet(InAw(x)) /\ IsFiniteSet(InWr(x))
         /\ IsFiniteSet(InB(x))
         /\ Cardinality(InAw(x)) \in Nat /\ Cardinality(InWr(x)) \in Nat
         /\ Cardinality(InB(x)) \in Nat
         /\ InAw(x) # {} \/ InWr(x) # {} \/ InB(x) # {} => Open(x) > 0
<1>1. /\ InAw(x) \subseteq 1 .. Len(bus_aw) /\ InWr(x) \subseteq 1 .. Len(bus_wr)
      /\ InB(x) \subseteq 1 .. Len(bfifo)
  BY BusIndices DEF InAw, InWr, InB
<1>2. /\ IsFiniteSet(InAw(x)) /\ IsFiniteSet(InWr(x)) /\ IsFiniteSet(InB(x))
      /\ Cardinality(InAw(x)) \in Nat /\ Cardinality(InWr(x)) \in Nat
      /\ Cardinality(InB(x)) \in Nat
  BY <1>1, BusIndices, CutCard
<1>3. /\ InAw(x) # {} => Cardinality(InAw(x)) > 0
      /\ InWr(x) # {} => Cardinality(InWr(x)) > 0
      /\ InB(x) # {} => Cardinality(InB(x)) > 0
  BY <1>2, FS_EmptySet
<1> QED
  BY <1>2, <1>3 DEF Open

\* An id that is on the bus is under way.
LEMMA IdsOpen ==
  ASSUME BusTypes, NEW y \in Ids
  PROVE  y[1] \in Id /\ y[2] \in Address /\ Open(y[1]) > 0
<1>1. PICK w \in OnBus : y = <<w.id, w.addr>>
  BY DEF Ids
<1>2. CASE \E i \in DOMAIN bus_wr : w = bus_wr[i]
  <2>1. PICK i \in DOMAIN bus_wr : w = bus_wr[i]
    BY <1>2
  <2>2. i \in 1 .. Len(bus_wr) /\ i \in InWr(w.id)
    BY <2>1, BusIndices DEF InWr
  <2>3. w \in [id : Id, addr : Address, data : Address]
    BY <2>1, <2>2, ElementOfSeq, Zenon DEF BusTypes
  <2> QED
    BY <1>1, <2>2, <2>3, OpenType
<1>3. CASE \E i \in DOMAIN bus_aw : w = bus_aw[i]
  <2>1. PICK i \in DOMAIN bus_aw : w = bus_aw[i]
    BY <1>3
  <2>2. i \in 1 .. Len(bus_aw) /\ i \in InAw(w.id)
    BY <2>1, BusIndices DEF InAw
  <2>3. w \in [id : Id, addr : Address]
    BY <2>1, <2>2, ElementOfSeq, Zenon DEF BusTypes
  <2> QED
    BY <1>1, <2>2, <2>3, OpenType
<1> QED
  BY <1>2, <1>3 DEF OnBus

LEMMA IdsAre ==
  /\ \A i \in DOMAIN bus_aw : <<bus_aw[i].id, bus_aw[i].addr>> \in Ids
  /\ \A i \in DOMAIN bus_wr : <<bus_wr[i].id, bus_wr[i].addr>> \in Ids
  /\ \A y \in Ids : \/ \E i \in DOMAIN bus_aw : y = <<bus_aw[i].id, bus_aw[i].addr>>
                    \/ \E i \in DOMAIN bus_wr : y = <<bus_wr[i].id, bus_wr[i].addr>>
BY DEF Ids, OnBus

\* A write that is issued opens its id.
LEMMA OpenCreate ==
  ASSUME BusTypes, NEW id, NEW a, bus_aw' = Append(bus_aw, [id |-> id, addr |-> a]),
         UNCHANGED <<bus_wr, bfifo>>
  PROVE  /\ Ids' \subseteq Ids \cup {<<id, a>>}
         /\ \A x : Open(x)' = IF x = id THEN Open(x) + 1 ELSE Open(x)
<1> DEFINE r == [id |-> id, addr |-> a]
           n == Len(bus_aw)
<1>1. /\ n \in Nat /\ DOMAIN bus_aw' = 1 .. n + 1 /\ DOMAIN bus_aw = 1 .. n
      /\ bus_aw'[n + 1] = r /\ \A i \in 1 .. n : bus_aw'[i] = bus_aw[i]
  BY DEF BusTypes
<1>2. r.id = id /\ r.addr = a
  OBVIOUS
<1> HIDE DEF r
<1>3. ASSUME NEW x PROVE Open(x)' = IF x = id THEN Open(x) + 1 ELSE Open(x)
  <2>1. InWr(x)' = InWr(x) /\ InB(x)' = InB(x)
    BY DEF InWr, InB
  <2>2. InAw(x)' = IF x = id THEN InAw(x) \cup {n + 1} ELSE InAw(x)
    BY <1>1, <1>2 DEF InAw
  <2>3. n + 1 \notin InAw(x)
    BY <1>1 DEF InAw
  <2>4. Cardinality(InAw(x))' = IF x = id THEN Cardinality(InAw(x)) + 1 ELSE Cardinality(InAw(x))
    BY <2>2, <2>3, OpenType, FS_AddElement
  <2> QED
    BY <2>1, <2>4, OpenType DEF Open
<1>4. Ids' \subseteq Ids \cup {<<id, a>>}
  <2>1. ASSUME NEW y \in Ids' PROVE y \in Ids \cup {<<id, a>>}
    <3>1. \/ \E i \in DOMAIN bus_aw' : y = <<bus_aw'[i].id, bus_aw'[i].addr>>
          \/ \E i \in DOMAIN bus_wr : y = <<bus_wr[i].id, bus_wr[i].addr>>
      BY DEF Ids, OnBus
    <3> QED
      BY <1>1, <1>2, <3>1, IdsAre
  <2> QED
    BY <2>1
<1> QED
  BY <1>3, <1>4

\* Data only move an id from one queue of the bus to the other.
LEMMA OpenData ==
  ASSUME BusTypes, woq # <<>>, NEW d, TakeData(d), Head(woq).issue => bus_aw # <<>>,
         UNCHANGED bfifo
  PROVE  /\ Ids' \subseteq Ids
         /\ \A x : Open(x)' = Open(x)
<1>1. CASE ~Head(woq).issue
  <2>1. UNCHANGED <<bus_aw, bus_wr, bfifo>>
    BY <1>1 DEF TakeData, wbus
  <2> QED
    BY <2>1 DEF Ids, OnBus, Open, InAw, InWr, InB
<1>2. CASE Head(woq).issue
  <2> DEFINE h == bus_aw[1]
             r == [id |-> h.id, addr |-> h.addr, data |-> d]
             n == Len(bus_wr)
             m == Len(bus_aw)
  <2>1. bus_aw # <<>> /\ Head(bus_aw) = h
    BY <1>2 DEF BusTypes
  <2>2. bus_wr' = Append(bus_wr, r) /\ bus_aw' = Tail(bus_aw)
    BY <1>2, <2>1 DEF TakeData
  <2>3. r.id = h.id /\ r.addr = h.addr
    OBVIOUS
  <2> HIDE DEF r
  <2>4. /\ n \in Nat /\ DOMAIN bus_wr' = 1 .. n + 1 /\ DOMAIN bus_wr = 1 .. n
        /\ bus_wr'[n + 1] = r /\ \A i \in 1 .. n : bus_wr'[i] = bus_wr[i]
    BY <2>2 DEF BusTypes
  <2>5. /\ m \in Nat /\ m > 0 /\ DOMAIN bus_aw = 1 .. m /\ DOMAIN bus_aw' = 1 .. m - 1
        /\ \A i \in 1 .. m - 1 : bus_aw'[i] = bus_aw[i + 1]
    BY <2>1, <2>2 DEF BusTypes
  <2> HIDE DEF h
  <2>6. ASSUME NEW x PROVE Open(x)' = Open(x)
    <3>1. InB(x)' = InB(x)
      BY DEF InB
    <3>2. /\ InWr(x)' = IF x = h.id THEN InWr(x) \cup {n + 1} ELSE InWr(x)
          /\ n + 1 \notin InWr(x)
      BY <2>3, <2>4 DEF InWr
    <3>3. Cardinality(InWr(x))' = IF x = h.id THEN Cardinality(InWr(x)) + 1
                                  ELSE Cardinality(InWr(x))
      BY <3>2, OpenType, FS_AddElement
    <3>4. InAw(x)' = Cut(InAw(x), 1)
      <4>1. \A i : i \in 1 .. m - 1 <=> i \in Nat \ {0} /\ i + 1 \in 1 .. m
        BY <2>5
      <4> QED
        BY <2>5, <4>1 DEF InAw, Cut
    <3>5. InAw(x) \subseteq 1 .. m /\ (1 \in InAw(x) <=> x = h.id)
      BY <2>5 DEF InAw, h
    <3>6. Cardinality(InAw(x))' = IF x = h.id THEN Cardinality(InAw(x)) - 1
                                  ELSE Cardinality(InAw(x))
      BY <2>5, <3>4, <3>5, CutCard
    <3> QED
      BY <3>1, <3>3, <3>6, OpenType DEF Open
  <2>7. ASSUME NEW y \in Ids' PROVE y \in Ids
    <3>1. \/ \E i \in DOMAIN bus_aw' : y = <<bus_aw'[i].id, bus_aw'[i].addr>>
          \/ \E i \in DOMAIN bus_wr' : y = <<bus_wr'[i].id, bus_wr'[i].addr>>
      BY DEF Ids, OnBus
    <3>2. <<h.id, h.addr>> \in Ids
      BY <2>5, IdsAre DEF h
    <3>3. ASSUME NEW i \in DOMAIN bus_aw' PROVE <<bus_aw'[i].id, bus_aw'[i].addr>> \in Ids
      <4>1. i + 1 \in DOMAIN bus_aw /\ bus_aw'[i] = bus_aw[i + 1]
        BY <2>5
      <4> QED
        BY <4>1, IdsAre
    <3>4. ASSUME NEW i \in DOMAIN bus_wr' PROVE <<bus_wr'[i].id, bus_wr'[i].addr>> \in Ids
      BY <2>3, <2>4, <3>2, IdsAre
    <3> QED
      BY <3>1, <3>3, <3>4
  <2> QED
    BY <2>6, <2>7
<1> QED
  BY <1>1, <1>2

\* A response closes the id that leaves bfifo and moves the one that enters it.
BPop(grant) == bfifo # <<>> /\ (~bvalid_so \/ grant)
LEMMA OpenClock ==
  ASSUME BusTypes, NEW give \in 0 .. Len(bus_wr), NEW grant \in BOOLEAN, BClock(give, grant)
  PROVE  /\ Ids' \subseteq Ids
         /\ \A x : Open(x)' = IF BPop(grant) /\ x = Head(bfifo) THEN Open(x) - 1 ELSE Open(x)
<1> DEFINE pop == BPop(grant)
           rest == IF pop THEN Tail(bfifo) ELSE bfifo
           new == IF give # 0 THEN <<bus_wr[give].id>> ELSE <<>>
           n == Len(bus_wr)
           m == Len(bfifo)
<1>1. /\ bfifo' = rest \o new /\ bus_aw' = bus_aw
      /\ bus_wr' = IF give # 0 THEN Without(bus_wr, give) ELSE bus_wr
  BY DEF BClock, BPop
<1>2. n \in Nat /\ DOMAIN bus_wr = 1 .. n /\ m \in Nat /\ DOMAIN bfifo = 1 .. m
  BY BusIndices
<1>3. give # 0 => /\ give \in 1 .. n /\ bus_wr[give].id \in Id
                  /\ bus_wr' \in Seq([id : Id, addr : Address, data : Address])
                  /\ Len(bus_wr') = n - 1 /\ DOMAIN bus_wr' = 1 .. n - 1
                  /\ \A i \in 1 .. n - 1 : bus_wr'[i] = IF i < give THEN bus_wr[i]
                                                        ELSE bus_wr[i + 1]
  <2> SUFFICES ASSUME give # 0
               PROVE  /\ give \in 1 .. n /\ bus_wr[give].id \in Id
                      /\ bus_wr' \in Seq([id : Id, addr : Address, data : Address])
                      /\ Len(bus_wr') = n - 1 /\ DOMAIN bus_wr' = 1 .. n - 1
                      /\ \A i \in 1 .. n - 1 : bus_wr'[i] = IF i < give THEN bus_wr[i]
                                                            ELSE bus_wr[i + 1]
    OBVIOUS
  <2>1. give \in 1 .. n /\ bus_wr \in Seq([id : Id, addr : Address, data : Address])
    BY <1>2 DEF BusTypes
  <2>2. bus_wr[give] \in [id : Id, addr : Address, data : Address]
    BY <2>1, ElementOfSeq
  <2>3. bus_wr' = Without(bus_wr, give)
    BY <1>1
  <2>4. /\ bus_wr' \in Seq([id : Id, addr : Address, data : Address])
        /\ Len(bus_wr') = n - 1
        /\ \A i \in 1 .. n - 1 : bus_wr'[i] = IF i < give THEN bus_wr[i] ELSE bus_wr[i + 1]
    BY <2>1, <2>3, WithoutFacts
  <2> QED
    BY <2>1, <2>2, <2>4
<1>4. /\ rest \in Seq(Id) /\ Len(rest) = IF pop THEN m - 1 ELSE m
      /\ \A i \in 1 .. Len(rest) : rest[i] = IF pop THEN bfifo[i + 1] ELSE bfifo[i]
      /\ pop => m > 0 /\ bfifo[1] = Head(bfifo)
  BY DEF BusTypes, BPop
<1>5. new \in Seq(Id) /\ (give # 0 => Len(new) = 1 /\ new[1] = bus_wr[give].id)
      /\ (give = 0 => Len(new) = 0)
  BY <1>3
<1> HIDE DEF rest, new, pop
<1>6. /\ bfifo' \in Seq(Id) /\ Len(bfifo') = Len(rest) + Len(new)
      /\ DOMAIN bfifo' = 1 .. Len(rest) + Len(new)
      /\ \A i \in 1 .. Len(rest) + Len(new) :
           bfifo'[i] = IF i <= Len(rest) THEN rest[i] ELSE new[i - Len(rest)]
  <2>1. rest \in Seq(Id) /\ new \in Seq(Id)
    BY <1>4, <1>5
  <2>2. /\ rest \o new \in Seq(Id) /\ Len(rest \o new) = Len(rest) + Len(new)
        /\ \A i \in 1 .. Len(rest) + Len(new) :
             (rest \o new)[i] = IF i <= Len(rest) THEN rest[i] ELSE new[i - Len(rest)]
    BY <2>1, ConcatProperties
  <2>3. DOMAIN (rest \o new) = 1 .. Len(rest) + Len(new)
    BY <2>1, <2>2
  <2> QED
    BY <1>1, <2>2, <2>3
<1>7. ASSUME NEW x
      PROVE  Open(x)' = IF pop /\ x = Head(bfifo) THEN Open(x) - 1 ELSE Open(x)
  <2> DEFINE T == IF pop THEN Cut(InB(x), 1) ELSE InB(x)
             k == Len(rest)
  <2>0. k \in Nat /\ InB(x) \subseteq 1 .. m /\ InWr(x) \subseteq 1 .. n
    <3>1. rest \in Seq(Id)
      BY <1>4
    <3>2. Len(rest) \in Nat
      BY <3>1
    <3> QED
      BY <1>2, <3>2 DEF InB, InWr
  <2>1. T = {i \in 1 .. k : rest[i] = x}
    <3>1. CASE pop
      <4>1. \A i : i \in 1 .. k <=> i \in Nat \ {0} /\ i + 1 \in 1 .. m
        BY <1>2, <1>4, <3>1
      <4> QED
        BY <1>2, <1>4, <3>1, <4>1 DEF InB, Cut
    <3>2. CASE ~pop
      BY <1>2, <1>4, <3>2 DEF InB
    <3> QED
      BY <3>1, <3>2
  <2>2. /\ IsFiniteSet(T) /\ Cardinality(T) \in Nat
        /\ Cardinality(T) = IF pop /\ x = Head(bfifo) THEN Cardinality(InB(x)) - 1
                            ELSE Cardinality(InB(x))
    <3>1. T \subseteq 1 .. k
      BY <2>1
    <3>2. IsFiniteSet(T) /\ Cardinality(T) \in Nat
      BY <2>0, <3>1, CutCard
    <3>3. pop => (1 \in InB(x) <=> x = Head(bfifo))
      BY <1>2, <1>4 DEF InB
    <3> QED
      BY <1>2, <2>0, <3>2, <3>3, CutCard
  <2> HIDE DEF T, k
  <2>3. InAw(x)' = InAw(x)
    BY <1>1 DEF InAw
  <2>4. CASE give = 0
    <3>1. InB(x)' = T
      BY <1>5, <1>6, <2>0, <2>1, <2>4 DEF InB, k
    <3>2. InWr(x)' = InWr(x)
      BY <1>1, <2>4 DEF InWr
    <3> QED
      BY <2>2, <2>3, <3>1, <3>2, OpenType DEF Open
  <2>5. CASE give # 0
    <3>1. InB(x)' = IF x = bus_wr[give].id THEN T \cup {k + 1} ELSE T
      <4>1. /\ DOMAIN bfifo' = 1 .. k + 1 /\ bfifo'[k + 1] = bus_wr[give].id
            /\ \A i \in 1 .. k : bfifo'[i] = rest[i]
        <5>1. Len(new) = 1 /\ new[1] = bus_wr[give].id
          BY <1>5, <2>5
        <5>2. /\ DOMAIN bfifo' = 1 .. k + 1
              /\ \A i \in 1 .. k + 1 : bfifo'[i] = IF i <= k THEN rest[i] ELSE new[i - k]
          BY <1>6, <5>1 DEF k
        <5>3. /\ k + 1 \in 1 .. k + 1 /\ ~(k + 1 <= k) /\ (k + 1) - k = 1
              /\ \A i \in 1 .. k : i \in 1 .. k + 1 /\ i <= k
          BY <2>0
        <5> QED
          BY <5>1, <5>2, <5>3
      <4>2. \A i : i \in 1 .. k + 1 <=> i \in 1 .. k \/ i = k + 1
        BY <2>0
      <4> QED
        BY <2>1, <4>1, <4>2 DEF InB
    <3>2. k + 1 \notin T
      BY <2>0, <2>1
    <3>3. Cardinality(InB(x))' = IF x = bus_wr[give].id THEN Cardinality(T) + 1
                                 ELSE Cardinality(T)
      BY <2>2, <3>1, <3>2, FS_AddElement
    <3>4. InWr(x)' = Cut(InWr(x), give)
      <4>1. \A i : i \in 1 .. n - 1 =>
                     i \in Nat \ {0} /\ i \in 1 .. n /\ i + 1 \in 1 .. n
        BY <1>2
      <4>2. \A i \in Nat \ {0} : /\ i < give => i \in 1 .. n - 1
                                 /\ i >= give /\ i + 1 \in 1 .. n => i \in 1 .. n - 1
        BY <1>2, <1>3, <2>5
      <4>3. ASSUME NEW i \in InWr(x)' PROVE i \in Cut(InWr(x), give)
        BY <1>2, <1>3, <2>5, <4>1 DEF InWr, Cut
      <4>4. ASSUME NEW i \in Cut(InWr(x), give) PROVE i \in InWr(x)'
        BY <1>2, <1>3, <2>5, <4>2 DEF InWr, Cut
      <4> QED
        BY <4>3, <4>4
    <3>5. give \in InWr(x) <=> x = bus_wr[give].id
      BY <1>2, <1>3, <2>5 DEF InWr
    <3>6. Cardinality(InWr(x))' = IF x = bus_wr[give].id THEN Cardinality(InWr(x)) - 1
                                  ELSE Cardinality(InWr(x))
      BY <1>2, <1>3, <2>0, <2>5, <3>4, <3>5, CutCard
    <3> QED
      BY <2>2, <2>3, <3>3, <3>6, OpenType DEF Open
  <2> QED
    BY <2>4, <2>5
<1>8. ASSUME NEW y \in Ids' PROVE y \in Ids
  <2>1. \/ \E i \in DOMAIN bus_aw' : y = <<bus_aw'[i].id, bus_aw'[i].addr>>
        \/ \E i \in DOMAIN bus_wr' : y = <<bus_wr'[i].id, bus_wr'[i].addr>>
    BY DEF Ids, OnBus
  <2>2. \A i \in DOMAIN bus_wr' : \E j \in DOMAIN bus_wr : bus_wr'[i] = bus_wr[j]
    <3>1. CASE give = 0
      BY <1>1, <3>1
    <3>2. CASE give # 0
      <4> SUFFICES ASSUME NEW i \in 1 .. n - 1
                   PROVE  \E j \in 1 .. n : bus_wr'[i] = bus_wr[j]
        BY <1>2, <1>3, <3>2
      <4>1. bus_wr'[i] = IF i < give THEN bus_wr[i] ELSE bus_wr[i + 1]
        BY <1>3, <3>2
      <4>2. i \in 1 .. n /\ i + 1 \in 1 .. n
        BY <1>2
      <4> HIDE DEF n
      <4> QED
        BY <4>1, <4>2
    <3> QED
      BY <3>1, <3>2
  <2> QED
    BY <1>1, <2>1, <2>2, IdsAre
<1> QED
  BY <1>7, <1>8 DEF pop

-----------------------------------------------------------------------------
(***************************************************************************)
(* Which steps touch the tables and the bus, and the types of both.        *)
(***************************************************************************)
LEMMA TableSteps ==
  ASSUME Next
  PROVE  \/ UNCHANGED <<cawt, cawt_create_ptr, ncwt, ncwt_ptr, so_bus_cnt, so_ex_fail,
                        woq, bus_aw, bus_wr, bfifo, bready>>
         \/ EbiuVbAwGrant \/ NcqWoAwGrant \/ NcqSoAwGrant \/ EbiuVbWGrant \/ NcqWGrant
         \/ NcqBWo \/ \E c \in CORE : NcqBExFail(c)
         \/ \E give \in 0 .. Len(bus_wr), grant \in BOOLEAN : BClock(give, grant)
<1> USE DEF snb, ncq, nct, sos, cat, wbus, rds, bch
<1>1. CASE Ask
  BY ZenonT(60), <1>1 DEF Ask, SnbWrite, SnbRead, L2Victim, WoWrite, WoRead, SoWrite, SoRead,
              NcqWrite, NcqRead
<1> DEFINE Untouched ==
             UNCHANGED <<cawt, cawt_create_ptr, ncwt, ncwt_ptr, so_bus_cnt, so_ex_fail,
                         woq, bus_aw, bus_wr, bfifo, bready>>
<1>2. ASSUME NEW b \in BANK, VbAwGrant(b) \/ VbWGrant(b)
      PROVE  Untouched
  BY <1>2 DEF VbAwGrant, VbWGrant
<1>3. ASSUME NEW b \in BANK, EbiuifArGrant(b)
      PROVE  Untouched
  BY <1>3 DEF EbiuifArGrant
<1>4. ASSUME NcqArGrant
      PROVE  Untouched
  BY <1>4 DEF NcqArGrant
<1>5. ASSUME NEW r \in bus_rd, BusR(r)
      PROVE  Untouched
  BY <1>5 DEF BusR
<1> DEFINE Touched ==
             \/ EbiuVbAwGrant \/ NcqWoAwGrant \/ NcqSoAwGrant \/ EbiuVbWGrant \/ NcqWGrant
             \/ NcqBWo \/ \E c \in CORE : NcqBExFail(c)
             \/ \E give \in 0 .. Len(bus_wr), grant \in BOOLEAN : BClock(give, grant)
<1> HIDE DEF Untouched
<1>6. ASSUME \/ EbiuVbAwGrant \/ NcqWoAwGrant \/ NcqSoAwGrant
             \/ EbiuVbWGrant \/ NcqWGrant \/ NcqBWo
      PROVE  Touched
  BY <1>6
<1>7. ASSUME NEW c \in CORE, NcqBExFail(c)
      PROVE  Touched
  BY <1>7
<1>8. ASSUME NEW give \in 0 .. Len(bus_wr), NEW grant \in BOOLEAN, BClock(give, grant)
      PROVE  Touched
  BY <1>8
<1> HIDE DEF Touched
<1>9. ASSUME Serve
      PROVE  Untouched \/ Touched
  <2>1. CASE \E b \in BANK : VbAwGrant(b) \/ VbWGrant(b) \/ EbiuifArGrant(b)
    BY <1>2, <1>3, <2>1
  <2>2. CASE \/ EbiuVbAwGrant \/ NcqWoAwGrant \/ NcqSoAwGrant
            \/ EbiuVbWGrant \/ NcqWGrant \/ NcqBWo
    BY <1>6, <2>2
  <2>3. CASE \E c \in CORE : NcqBExFail(c)
    BY <1>7, <2>3
  <2>4. CASE NcqArGrant \/ \E r \in bus_rd : BusR(r)
    BY <1>4, <1>5, <2>4
  <2>5. CASE \E give \in 0 .. Len(bus_wr), ncq_b_grant \in BOOLEAN : BClock(give, ncq_b_grant)
    BY <1>8, <2>5
  <2> QED
    BY <1>9, <2>1, <2>2, <2>3, <2>4, <2>5, Zenon DEF Serve
<1>10. CASE Serve
  BY <1>9, <1>10 DEF Untouched, Touched
<1> QED
  BY <1>1, <1>10 DEF Next

LEMMA NcqHeads ==
  ASSUME CoreTypes
  PROVE  /\ waq # <<>> =>
              /\ Head(waq) = waq[1] /\ 1 \in DOMAIN waq /\ waq[1] \in NcqWr
              /\ waq[1].kind = "wo" => waq[1].addr \in WO
              /\ waq[1].kind # "wo" => waq[1].addr \in CORE /\ waq[1].kind \in {"so", "fail"}
         /\ woq_ncq # <<>> =>
              /\ Head(woq_ncq) = woq_ncq[1] /\ woq_ncq[1] \in NcqWr
              /\ woq_ncq[1].kind = "wo" => woq_ncq[1].addr \in WO
              /\ woq_ncq[1].kind # "wo" => woq_ncq[1].addr \in CORE
                                           /\ woq_ncq[1].kind \in {"so", "fail"}
<1>1. \A w \in NcqWr : /\ w.kind = "wo" => w.addr \in WO
                       /\ w.kind # "wo" => w.addr \in CORE /\ w.kind \in {"so", "fail"}
  BY DEF NcqWr
<1>2. waq # <<>> => Head(waq) = waq[1] /\ 1 \in DOMAIN waq /\ waq[1] \in NcqWr
  BY DEF CoreTypes
<1>3. woq_ncq # <<>> => Head(woq_ncq) = woq_ncq[1] /\ woq_ncq[1] \in NcqWr
  BY DEF CoreTypes
<1> QED
  BY <1>1, <1>2, <1>3

\* What a cycle of the response channel does to the tables.
LEMMA PopFacts ==
  ASSUME BusTypes, NEW give \in 0 .. Len(bus_wr), NEW grant \in BOOLEAN, BClock(give, grant)
  PROVE  /\ ~BPop(grant) => UNCHANGED <<cawt, ncwt, so_bus_cnt, so>>
         /\ BPop(grant) =>
              /\ bfifo # <<>> /\ Head(bfifo) \in Id /\ Open(Head(bfifo)) > 0
              /\ PopB(Head(bfifo))
         /\ UNCHANGED <<cawt_create_ptr, ncwt_ptr, so_ex_fail, bus_aw, woq, woq_ncq, waq,
                        wo, raq, bus_rd, vb>>
<1>1. BPop(grant) => bfifo # <<>> /\ Head(bfifo) \in Id /\ 1 \in InB(Head(bfifo))
  BY DEF BPop, BusTypes, InB
<1>2. IF BPop(grant) THEN PopB(Head(bfifo)) ELSE UNCHANGED <<cawt, ncwt, so_bus_cnt, so>>
  BY DEF BClock, BPop
<1> QED
  BY <1>1, <1>2, OpenType DEF BClock, ncq, rds

LEMMA IdKinds ==
  \A id \in Id : \/ id[1] = "vb" /\ id[2] \in CawtIx /\ id = <<"vb", id[2]>>
                 \/ id[1] = "wo" /\ id[2] \in NcwtIx /\ id = <<"wo", id[2]>>
                 \/ id[1] = "so" /\ id[2] \in CORE /\ id = <<"so", id[2]>>
BY DEF Id

LEMMA TablePtrs ==
  ASSUME TableTypes
  PROVE  /\ (cawt_create_ptr + 1) % CAWT \in CawtIx
         /\ [ncwt_ptr EXCEPT !.create = (@ + 1) % NCWT]
              \in [create : NcwtIx, wdata : NcwtIx, bresp : NcwtIx]
         /\ [ncwt_ptr EXCEPT !.wdata = (@ + 1) % NCWT]
              \in [create : NcwtIx, wdata : NcwtIx, bresp : NcwtIx]
         /\ [ncwt_ptr EXCEPT !.bresp = (@ + 1) % NCWT]
              \in [create : NcwtIx, wdata : NcwtIx, bresp : NcwtIx]
         /\ ncwt_ptr.create \in NcwtIx /\ ncwt_ptr.wdata \in NcwtIx /\ ncwt_ptr.bresp \in NcwtIx
<1>1. \A k \in CawtIx : (k + 1) % CAWT \in CawtIx
  BY SizeAssumption DEF CawtIx
<1>2. \A k \in NcwtIx : (k + 1) % NCWT \in NcwtIx
  BY SizeAssumption DEF NcwtIx
<1> HIDE DEF CawtIx, NcwtIx
<1> QED
  BY <1>1, <1>2 DEF TableTypes

\* What the address of an SO write does.
LEMMA SoGrant ==
  ASSUME CoreTypes, NcqSoAwGrant
  PROVE  LET c == waq[1].addr
         IN  /\ c \in CORE /\ waq # <<>> /\ Head(waq) = waq[1] /\ waq' = Tail(waq)
             /\ \/ /\ waq[1].kind = "fail" /\ so_ex_fail[c] = "IDLE" /\ so_bus_cnt[c] = 0
                   /\ CreateWr("ncq", FALSE, <<"so", c>>, c)
                   /\ so_ex_fail' = [so_ex_fail EXCEPT ![c] = "WFD"]
                   /\ UNCHANGED so_bus_cnt
                \/ /\ waq[1].kind = "so" /\ so_ex_fail[c] = "IDLE"
                   /\ CreateWr("ncq", TRUE, <<"so", c>>, c)
                   /\ so_bus_cnt' = [so_bus_cnt EXCEPT ![c] = so_bus_cnt[c] + 1]
                   /\ UNCHANGED so_ex_fail
             /\ UNCHANGED <<line, wo, so, snb, vb, vb_ptr, woq_ncq, rds, cat, nct, bch>>
<1>1. waq # <<>> /\ Head(waq) = waq[1] /\ waq[1].addr \in CORE
  BY NcqHeads DEF NcqSoAwGrant
<1> QED
  BY <1>1 DEF NcqSoAwGrant, ncq_so_ex_fail_grant, ncq_so_bus_grant

LEMMA TableTypesStep ==
  ASSUME Types, Opened, Next
  PROVE  TableTypes'
<1> USE DEF Types
<1>1. CASE EbiuVbAwGrant
  <2>1. vb[vb_ptr.req].aw \in LINE
    BY <1>1, VbAsk
  <2> QED
    BY <1>1, <2>1, TablePtrs DEF EbiuVbAwGrant, TableTypes, nct, sos
<1>2. CASE NcqWoAwGrant
  <2>1. waq[1].addr \in WO /\ Head(waq) = waq[1]
    BY <1>2, NcqHeads DEF NcqWoAwGrant
  <2>2. [EmptyNCWT EXCEPT !.addr = waq[1].addr] \in NcwtEntry
    BY <2>1, NewNcwt
  <2>3. ncwt' = [ncwt EXCEPT ![ncwt_ptr.create] = [EmptyNCWT EXCEPT !.addr = waq[1].addr]]
    BY <1>2, <2>1 DEF NcqWoAwGrant
  <2>4. ncwt' \in [NcwtIx -> NcwtEntry]
    BY <2>2, <2>3, TablePtrs DEF TableTypes
  <2> QED
    BY <1>2, <2>4, TablePtrs DEF NcqWoAwGrant, TableTypes, cat, sos
<1>3. CASE NcqSoAwGrant
  <2> DEFINE c == waq[1].addr
  <2>1. /\ c \in CORE
        /\ \/ so_ex_fail' = [so_ex_fail EXCEPT ![c] = "WFD"] /\ UNCHANGED so_bus_cnt
           \/ /\ so_bus_cnt' = [so_bus_cnt EXCEPT ![c] = so_bus_cnt[c] + 1]
              /\ UNCHANGED so_ex_fail
        /\ UNCHANGED <<cawt, cawt_create_ptr, ncwt, ncwt_ptr>>
    BY <1>3, SoGrant DEF cat, nct
  <2> HIDE DEF c
  <2>2. so_bus_cnt[c] \in Nat
    BY <2>1 DEF TableTypes
  <2> QED
    BY <2>1, <2>2 DEF TableTypes
<1>4. CASE EbiuVbWGrant
  BY <1>4 DEF EbiuVbWGrant, TableTypes, cat, nct, sos
<1>5. CASE NcqWGrant
  <2>1. /\ woq_ncq[1] = Head(woq_ncq)
        /\ woq_ncq[1].kind # "wo" => woq_ncq[1].addr \in CORE
    BY <1>5, NcqHeads DEF NcqWGrant
  <2>2. ncwt_ptr.wdata \in NcwtIx /\ ncwt[ncwt_ptr.wdata] \in NcwtEntry
    BY TablePtrs DEF TableTypes
  <2>3. [ncwt[ncwt_ptr.wdata] EXCEPT !.resp_ready = TRUE] \in NcwtEntry
    <3>1. [ncwt[ncwt_ptr.wdata] EXCEPT !.resp_ready = TRUE]
            = [addr |-> ncwt[ncwt_ptr.wdata].addr, resp_ready |-> TRUE,
               resp_done |-> ncwt[ncwt_ptr.wdata].resp_done,
               bus_done |-> ncwt[ncwt_ptr.wdata].bus_done]
      BY <2>2, NcwtUpdate
    <3> QED
      BY <2>2, <3>1 DEF NcwtEntry
  <2>4. CASE woq_ncq[1].kind = "wo"
    <3>1. ncwt' = [ncwt EXCEPT ![ncwt_ptr.wdata] =
                     [ncwt[ncwt_ptr.wdata] EXCEPT !.resp_ready = TRUE]]
      BY <1>5, <2>1, <2>4 DEF NcqWGrant
    <3>2. ncwt' \in [NcwtIx -> NcwtEntry]
      BY <2>2, <2>3, <3>1 DEF TableTypes
    <3> QED
      BY <1>5, <2>1, <2>4, <3>2, TablePtrs DEF NcqWGrant, TableTypes, cat
  <2>5. CASE woq_ncq[1].kind # "wo"
    BY <1>5, <2>1, <2>5 DEF NcqWGrant, TableTypes, cat, nct
  <2> QED
    BY <2>4, <2>5
<1>6. CASE NcqBWo
  <2> DEFINE k == ncwt_ptr.bresp
             f == Done([ncwt[k] EXCEPT !.resp_done = TRUE])
  <2>1. k \in NcwtIx /\ ncwt[k] \in NcwtEntry
    BY TablePtrs DEF TableTypes
  <2>2. f \in NcwtEntry
    BY <2>1, RespDone
  <2>3. ncwt' = [ncwt EXCEPT ![k] = f]
    BY <1>6 DEF NcqBWo
  <2> HIDE DEF f
  <2>4. ncwt' \in [NcwtIx -> NcwtEntry]
    BY <2>1, <2>2, <2>3 DEF TableTypes
  <2> QED
    BY <1>6, <2>4, TablePtrs DEF NcqBWo, TableTypes, cat, sos
<1>7. ASSUME NEW c \in CORE, NcqBExFail(c) PROVE TableTypes'
  BY <1>7 DEF NcqBExFail, TableTypes, cat, nct
<1>8. ASSUME NEW give \in 0 .. Len(bus_wr), NEW grant \in BOOLEAN, BClock(give, grant)
      PROVE  TableTypes'
  <2>1. CASE ~BPop(grant)
    BY <1>8, <2>1, PopFacts DEF TableTypes
  <2>2. CASE BPop(grant)
    <3> DEFINE id == Head(bfifo)
    <3>1. id \in Id /\ Open(id) > 0 /\ PopB(id)
      BY <1>8, <2>2, PopFacts
    <3>2. UNCHANGED <<cawt_create_ptr, ncwt_ptr, so_ex_fail>>
      BY <1>8, PopFacts
    <3> HIDE DEF id
    <3>3. CASE id[1] = "vb"
      <4>1. id[2] \in CawtIx
        BY <3>1, <3>3, IdKinds
      <4> QED
        BY <3>1, <3>2, <3>3, <4>1 DEF PopB, TableTypes
    <3>4. CASE id[1] = "wo"
      <4> DEFINE k == id[2]
                 f == Done([ncwt[k] EXCEPT !.bus_done = TRUE])
      <4>1. k \in NcwtIx /\ ncwt[k] \in NcwtEntry
        BY <3>1, <3>4, IdKinds DEF TableTypes
      <4>2. f \in NcwtEntry
        BY <4>1, BusDone
      <4>3. ncwt' = [ncwt EXCEPT ![k] = f]
        BY <3>1, <3>4 DEF PopB
      <4> HIDE DEF f
      <4>4. ncwt' \in [NcwtIx -> NcwtEntry]
        BY <4>1, <4>2, <4>3 DEF TableTypes
      <4> QED
        BY <3>1, <3>2, <3>4, <4>4 DEF PopB, TableTypes
    <3>5. CASE id[1] = "so"
      <4>1. id[2] \in CORE /\ so_bus_cnt[id[2]] > 0
        BY <3>1, <3>5, IdKinds DEF Opened
      <4>2. so_bus_cnt[id[2]] - 1 \in Nat
        BY <4>1 DEF TableTypes
      <4> QED
        BY <3>1, <3>2, <3>5, <4>1, <4>2 DEF PopB, TableTypes
    <3> QED
      BY <3>1, <3>3, <3>4, <3>5, IdKinds
  <2> QED
    BY <2>1, <2>2
<1> QED
  BY <1>1, <1>2, <1>3, <1>4, <1>5, <1>6, <1>7, <1>8, TableSteps DEF TableTypes

-----------------------------------------------------------------------------
(***************************************************************************)
(* The accesses of the cores: who answers what, and the types.             *)
(***************************************************************************)
LEMMA CoreSteps ==
  ASSUME Next
  PROVE  \/ UNCHANGED <<wo, so, waq, woq_ncq, raq, bus_rd, ncwt, so_bus_cnt, so_ex_fail>>
         \/ \E a \in WO : WoWrite(a) \/ WoRead(a)
         \/ \E c \in CORE : SoRead(c) \/ \E fail \in BOOLEAN : SoWrite(c, fail)
         \/ NcqWoAwGrant \/ NcqSoAwGrant \/ NcqWGrant
         \/ NcqBWo \/ \E c \in CORE : NcqBExFail(c)
         \/ \E give \in 0 .. Len(bus_wr), grant \in BOOLEAN : BClock(give, grant)
         \/ \E b \in BANK : EbiuifArGrant(b)
         \/ NcqArGrant \/ \E r \in bus_rd : BusR(r)
<1> USE DEF snb, ncq, nct, sos, cat, wbus, rds, bch
<1>1. CASE Ask
  BY <1>1 DEF Ask, SnbWrite, SnbRead, L2Victim
<1>2. CASE Serve
  BY <1>2 DEF Serve, VbAwGrant, VbWGrant, EbiuVbAwGrant, EbiuVbWGrant
<1> QED
  BY <1>1, <1>2 DEF Next

\* A core with SO writes on the bus has asked for each of them, the oldest first.
LEMMA SoOnBus ==
  ASSUME CoreTypes, TableTypes, SoOne, NEW c \in CORE, so_bus_cnt[c] > 0
  PROVE  /\ so_ex_fail[c] = "IDLE" /\ SoWrites(c) /\ Past(c) = so_bus_cnt[c]
         /\ so[c] \in Seq({"wr", "fail", "rd"}) /\ Len(so[c]) >= so_bus_cnt[c]
         /\ so[c] # <<>> /\ so[c][1] = "wr" /\ so[c] # <<"rd">>
<1>1. so_bus_cnt[c] \in Nat /\ so[c] \in Seq({"wr", "fail", "rd"})
  BY DEF TableTypes, CoreTypes
<1>2. Past(c) # 0
  BY <1>1 DEF Past
<1>3. SoWrites(c) /\ so[c] # <<"rd">>
  BY <1>2 DEF SoOne, SoOrder
<1>4. so_ex_fail[c] = "IDLE"
  BY <1>3 DEF SoWrites
<1>5. Past(c) = so_bus_cnt[c] /\ Len(so[c]) >= so_bus_cnt[c]
  BY <1>1, <1>3, <1>4 DEF Past, SoWrites
<1>6. 1 \in 1 .. so_bus_cnt[c]
  BY <1>1
<1>7. so[c][1] = "wr"
  BY <1>3, <1>6 DEF SoWrites
<1>8. so[c] # <<>>
  BY <1>1, <1>5
<1> QED
  BY <1>1, <1>3, <1>4, <1>5, <1>7, <1>8

LEMMA SoFailed ==
  ASSUME CoreTypes, TableTypes, SoOne, NEW c \in CORE, so_ex_fail[c] # "IDLE"
  PROVE  /\ so_bus_cnt[c] = 0 /\ SoWrites(c) /\ Past(c) = 1
         /\ so[c] \in Seq({"wr", "fail", "rd"}) /\ Len(so[c]) >= 1
         /\ so[c] # <<>> /\ so[c][1] = "fail" /\ so[c] # <<"rd">>
<1>1. so[c] \in Seq({"wr", "fail", "rd"}) /\ Past(c) = 1
  BY DEF CoreTypes, Past
<1>2. SoWrites(c) /\ so[c] # <<"rd">>
  BY <1>1 DEF SoOne, SoOrder
<1> QED
  BY <1>1, <1>2 DEF SoWrites

LEMMA SeqTail ==
  ASSUME NEW S, NEW s \in Seq(S), s # <<>>
  PROVE  /\ Tail(s) \in Seq(S) /\ Len(s) \in Nat /\ Len(s) > 0 /\ Len(Tail(s)) = Len(s) - 1
         /\ Head(s) = s[1] /\ s[1] \in S /\ DOMAIN s = 1 .. Len(s)
         /\ DOMAIN Tail(s) = 1 .. Len(s) - 1
         /\ \A i \in 1 .. Len(s) - 1 : i + 1 \in 1 .. Len(s) /\ Tail(s)[i] = s[i + 1]
OBVIOUS

LEMMA SeqAppend ==
  ASSUME NEW S, NEW s \in Seq(S), NEW e \in S
  PROVE  /\ Append(s, e) \in Seq(S) /\ Len(s) \in Nat /\ Len(Append(s, e)) = Len(s) + 1
         /\ DOMAIN s = 1 .. Len(s) /\ DOMAIN Append(s, e) = 1 .. Len(s) + 1
         /\ Append(s, e)[Len(s) + 1] = e
         /\ \A i \in 1 .. Len(s) : i \in 1 .. Len(s) + 1 /\ i # Len(s) + 1 /\ Append(s, e)[i] = s[i]
         /\ \A i \in 1 .. Len(s) + 1 : i \in 1 .. Len(s) \/ i = Len(s) + 1
OBVIOUS

LEMMA CoreTypesStep ==
  ASSUME Types, Opened, SoOne, Order, Next
  PROVE  CoreTypes'
<1> USE DEF Types
<1>1. ASSUME NEW a \in WO, WoWrite(a) PROVE CoreTypes'
  BY <1>1 DEF WoWrite, NcqWrite, NcqWr, CoreTypes
<1>2. ASSUME NEW a \in WO, WoRead(a) PROVE CoreTypes'
  BY <1>2 DEF WoRead, NcqRead, CoreTypes, ncq
<1>3. ASSUME NEW c \in CORE, SoRead(c) PROVE CoreTypes'
  <2>1. <<"rd">> \in Seq({"wr", "fail", "rd"})
    OBVIOUS
  <2> QED
    BY <1>3, <2>1 DEF SoRead, NcqRead, CoreTypes, ncq
<1>4. ASSUME NEW c \in CORE, NEW fail \in BOOLEAN, SoWrite(c, fail) PROVE CoreTypes'
  <2> DEFINE k == IF fail THEN "fail" ELSE "wr"
             w == [addr |-> c, kind |-> IF fail THEN "fail" ELSE "so"]
  <2>1. k \in {"wr", "fail", "rd"} /\ w \in NcqWr
    BY DEF NcqWr
  <2>2. /\ so' = [so EXCEPT ![c] = Append(so[c], k)] /\ waq' = Append(waq, w)
        /\ woq_ncq' = Append(woq_ncq, w) /\ wo' = wo
    BY <1>4 DEF SoWrite, NcqWrite
  <2> HIDE DEF k, w
  <2>3. Append(so[c], k) \in Seq({"wr", "fail", "rd"})
    BY <2>1 DEF CoreTypes
  <2> QED
    BY <2>1, <2>2, <2>3 DEF CoreTypes
<1>5. CASE NcqWoAwGrant
  BY <1>5 DEF NcqWoAwGrant, CoreTypes
<1>6. CASE NcqSoAwGrant
  <2>1. waq # <<>> /\ waq' = Tail(waq) /\ UNCHANGED <<wo, so, woq_ncq>>
    BY <1>6, SoGrant
  <2> QED
    BY <2>1 DEF CoreTypes
<1>7. CASE NcqWGrant
  BY <1>7 DEF NcqWGrant, CoreTypes
<1>8. CASE NcqBWo
  BY <1>8 DEF NcqBWo, CoreTypes, ncq
<1>9. ASSUME NEW c \in CORE, NcqBExFail(c) PROVE CoreTypes'
  <2>1. Tail(so[c]) \in Seq({"wr", "fail", "rd"})
    BY <1>9, SoFailed, SeqTail DEF NcqBExFail
  <2> QED
    BY <1>9, <2>1 DEF NcqBExFail, CoreTypes, ncq
<1>10. ASSUME NEW give \in 0 .. Len(bus_wr), NEW grant \in BOOLEAN, BClock(give, grant)
       PROVE  CoreTypes'
  <2>1. UNCHANGED <<wo, waq, woq_ncq>> /\ (~BPop(grant) => so' = so)
    BY <1>10, PopFacts
  <2>2. CASE ~BPop(grant)
    BY <2>1, <2>2 DEF CoreTypes
  <2>3. CASE BPop(grant)
    <3> DEFINE id == Head(bfifo)
    <3>1. id \in Id /\ Open(id) > 0 /\ PopB(id)
      BY <1>10, <2>3, PopFacts
    <3> HIDE DEF id
    <3>2. CASE id[1] = "so"
      <4>1. id[2] \in CORE /\ so_bus_cnt[id[2]] > 0
        BY <3>1, <3>2, IdKinds DEF Opened
      <4>2. Tail(so[id[2]]) \in Seq({"wr", "fail", "rd"})
        BY <4>1, SoOnBus, SeqTail
      <4> QED
        BY <2>1, <3>1, <3>2, <4>1, <4>2 DEF PopB, CoreTypes
    <3>3. CASE id[1] # "so"
      BY <2>1, <3>1, <3>3 DEF PopB, CoreTypes
    <3> QED
      BY <3>2, <3>3
  <2> QED
    BY <2>2, <2>3
<1>11. ASSUME NEW r \in bus_rd, BusR(r) PROVE CoreTypes'
  <2>1. /\ r \in [kind : {"line"}, addr : LINE] \cup NcqRd
        /\ UNCHANGED <<waq, woq_ncq>>
    BY <1>11 DEF BusR, ReadTypes, ncq
  <2>2. CASE r.kind = "so"
    <3>1. r.addr \in CORE /\ r = SoRd(r.addr)
      BY <2>1, <2>2 DEF NcqRd, SoRd
    <3>2. so[r.addr] = <<"rd">>
      BY <3>1 DEF SoOne, SoReads
    <3>3. Tail(so[r.addr]) = <<>> /\ <<>> \in Seq({"wr", "fail", "rd"})
      BY <3>2
    <3> QED
      BY <1>11, <2>1, <2>2, <3>1, <3>3 DEF BusR, CoreTypes
  <2>3. CASE r.kind = "wo"
    <3>1. r.addr \in WO
      BY <2>1, <2>3 DEF NcqRd
    <3> QED
      BY <1>11, <2>1, <2>3, <3>1 DEF BusR, CoreTypes
  <2>4. CASE r.kind = "line"
    BY <1>11, <2>1, <2>4 DEF BusR, CoreTypes
  <2> QED
    BY <2>1, <2>2, <2>3, <2>4 DEF NcqRd
<1>12. ASSUME NEW b \in BANK, EbiuifArGrant(b) PROVE CoreTypes'
  BY <1>12 DEF EbiuifArGrant, CoreTypes, ncq
<1>13. CASE NcqArGrant
  BY <1>13 DEF NcqArGrant, CoreTypes, ncq
<1> QED
  BY <1>1, <1>2, <1>3, <1>4, <1>5, <1>6, <1>7, <1>8, <1>9, <1>10, <1>11, <1>12, <1>13,
     CoreSteps DEF CoreTypes

-----------------------------------------------------------------------------
(***************************************************************************)
(* The bus: types, and the response channel never takes more than it has   *)
(* room for.                                                               *)
(***************************************************************************)
LEMMA CreateTypes ==
  ASSUME BusTypes, NEW source \in {"vb", "ncq"}, NEW issue \in BOOLEAN, NEW id \in Id,
         NEW a \in Address, CreateWr(source, issue, id, a), UNCHANGED <<bfifo, bready>>
  PROVE  BusTypes'
<1>1. woq' \in Seq([source : {"vb", "ncq"}, issue : BOOLEAN])
  <2>1. [source |-> source, issue |-> issue] \in [source : {"vb", "ncq"}, issue : BOOLEAN]
    OBVIOUS
  <2> QED
    BY <2>1, SeqAppend DEF BusTypes, CreateWr
<1>2. bus_aw' \in Seq([id : Id, addr : Address])
  <2>1. [id |-> id, addr |-> a] \in [id : Id, addr : Address]
    OBVIOUS
  <2>2. CASE issue
    BY <2>1, <2>2, SeqAppend DEF BusTypes, CreateWr
  <2>3. CASE ~issue
    BY <2>3 DEF BusTypes, CreateWr
  <2> QED
    BY <2>2, <2>3
<1> QED
  BY <1>1, <1>2 DEF BusTypes, CreateWr

LEMMA DataTypes ==
  ASSUME BusTypes, woq # <<>>, NEW d \in Address, TakeData(d),
         Head(woq).issue => bus_aw # <<>>, UNCHANGED <<bfifo, bready>>
  PROVE  BusTypes'
<1>1. woq' \in Seq([source : {"vb", "ncq"}, issue : BOOLEAN])
  BY SeqTail DEF BusTypes, TakeData
<1>2. CASE Head(woq).issue
  <2> DEFINE r == [id |-> Head(bus_aw).id, addr |-> Head(bus_aw).addr, data |-> d]
  <2>1. Head(bus_aw) \in [id : Id, addr : Address] /\ Tail(bus_aw) \in Seq([id : Id, addr : Address])
    <3>1. bus_aw # <<>> /\ bus_aw \in Seq([id : Id, addr : Address])
      BY <1>2 DEF BusTypes
    <3> QED
      BY <3>1, SeqTail
  <2>2. r \in [id : Id, addr : Address, data : Address]
    BY <2>1
  <2>3. bus_wr' = Append(bus_wr, r) /\ bus_aw' = Tail(bus_aw)
    BY <1>2 DEF TakeData
  <2> HIDE DEF r
  <2> QED
    BY <1>1, <2>1, <2>2, <2>3, SeqAppend DEF BusTypes
<1>3. CASE ~Head(woq).issue
  BY <1>1, <1>3 DEF TakeData, BusTypes, wbus
<1> QED
  BY <1>2, <1>3

LEMMA ClockTypes ==
  ASSUME BusTypes, BfifoInv, NEW give \in 0 .. Len(bus_wr), NEW grant \in BOOLEAN,
         BClock(give, grant)
  PROVE  BusTypes' /\ BfifoInv'
<1> DEFINE pop == BPop(grant)
           rest == IF pop THEN Tail(bfifo) ELSE bfifo
           new == IF give # 0 THEN <<bus_wr[give].id>> ELSE <<>>
           m == Len(bfifo)
<1>1. /\ bfifo' = rest \o new /\ UNCHANGED <<bus_aw, woq>> /\ bready' = bready_set(pop, give # 0)
      /\ bus_wr' = IF give # 0 THEN Without(bus_wr, give) ELSE bus_wr
      /\ give # 0 => bready
  BY DEF BClock, BPop
<1>2. rest \in Seq(Id) /\ Len(rest) = IF pop THEN m - 1 ELSE m
  BY SeqTail DEF BusTypes, BPop
<1>3. give # 0 => give \in 1 .. Len(bus_wr) /\ bus_wr[give].id \in Id
  <2> SUFFICES ASSUME give # 0 PROVE give \in 1 .. Len(bus_wr) /\ bus_wr[give].id \in Id
    OBVIOUS
  <2>1. give \in 1 .. Len(bus_wr) /\ bus_wr \in Seq([id : Id, addr : Address, data : Address])
    BY BusIndices DEF BusTypes
  <2>2. bus_wr[give] \in [id : Id, addr : Address, data : Address]
    BY <2>1, ElementOfSeq
  <2> QED
    BY <2>1, <2>2
<1>4. new \in Seq(Id) /\ Len(new) = IF give # 0 THEN 1 ELSE 0
  BY <1>3
<1>5. m \in Nat /\ m <= 2 /\ (bready => m < 2) /\ (pop => m > 0) /\ (bfifo = <<>> <=> m = 0)
  BY SeqTail DEF BusTypes, BfifoInv, BfifoRoom, BPop
<1> HIDE DEF rest, new, pop
<1>6. bfifo' \in Seq(Id) /\ Len(bfifo') = Len(rest) + Len(new)
  BY <1>1, <1>2, <1>4, ConcatProperties
<1>7. bready' \in BOOLEAN
  BY <1>1 DEF bready_set
<1>8. bus_wr' \in Seq([id : Id, addr : Address, data : Address])
  BY <1>1, <1>3, WithoutFacts DEF BusTypes
<1>9. BusTypes'
  BY <1>1, <1>6, <1>7, <1>8 DEF BusTypes
<1>10. Len(bfifo') <= 2 /\ (bready' => Len(bfifo') < 2)
  <2>1. Len(bfifo') = (IF pop THEN m - 1 ELSE m) + (IF give # 0 THEN 1 ELSE 0)
    BY <1>2, <1>4, <1>6
  <2>2. bready' => \/ m = 0
                   \/ m = 1 /\ (pop \/ give = 0)
                   \/ m = 2 /\ pop /\ give = 0
    BY <1>1, <1>5 DEF bready_set
  <2>3. m \in {0, 1, 2} /\ (give # 0 => m # 2)
    <3>1. \A k \in Nat : (k <= 2 => k \in {0, 1, 2}) /\ (k < 2 => k # 2)
      OBVIOUS
    <3>2. m \in Nat /\ m <= 2 /\ (give # 0 => m < 2)
      BY <1>1, <1>5, Zenon
    <3> HIDE DEF m
    <3> QED
      BY <3>1, <3>2, Zenon
  <2> HIDE DEF m
  <2>4. CASE pop /\ give # 0
    <3>1. Len(bfifo') = m - 1 + 1
      BY <2>1, <2>4
    <3> QED
      BY <1>5, <2>2, <2>3, <2>4, <3>1
  <2>5. CASE pop /\ give = 0
    <3>1. Len(bfifo') = m - 1
      BY <2>1, <2>3, <2>5
    <3> QED
      BY <1>5, <2>3, <2>5, <3>1
  <2>6. CASE ~pop /\ give # 0
    <3>1. Len(bfifo') = m + 1
      BY <2>1, <2>6
    <3> QED
      BY <1>5, <2>2, <2>3, <2>6, <3>1
  <2>7. CASE ~pop /\ give = 0
    <3>1. Len(bfifo') = m
      BY <2>1, <2>3, <2>7
    <3> QED
      BY <2>2, <2>3, <2>7, <3>1
  <2> QED
    BY <2>4, <2>5, <2>6, <2>7
<1> QED
  BY <1>9, <1>10 DEF BfifoInv, BfifoRoom

LEMMA BusTypesStep ==
  ASSUME Types, VbRing, Order, BfifoInv, Next
  PROVE  BusTypes' /\ BfifoInv'
<1> USE DEF Types
<1>1. CASE EbiuVbAwGrant
  <2> DEFINE a == vb[vb_ptr.req].aw
  <2>1. a \in Address /\ <<"vb", cawt_create_ptr>> \in Id
    BY <1>1, VbAsk DEF Address, Id, TableTypes
  <2>2. CreateWr("vb", TRUE, <<"vb", cawt_create_ptr>>, a) /\ UNCHANGED <<bfifo, bready>>
    BY <1>1 DEF EbiuVbAwGrant, bch
  <2> HIDE DEF a
  <2> QED
    BY <2>1, <2>2, CreateTypes DEF BfifoInv, BfifoRoom
<1>2. CASE NcqWoAwGrant
  <2>1. waq[1].addr \in Address /\ <<"wo", ncwt_ptr.create>> \in Id /\ Head(waq) = waq[1]
    BY <1>2, NcqHeads, TablePtrs DEF NcqWoAwGrant, Address, Id
  <2>2. /\ CreateWr("ncq", TRUE, <<"wo", ncwt_ptr.create>>, waq[1].addr)
        /\ UNCHANGED <<bfifo, bready>>
    BY <1>2, <2>1 DEF NcqWoAwGrant, bch
  <2> QED
    BY <2>1, <2>2, CreateTypes DEF BfifoInv, BfifoRoom
<1>3. CASE NcqSoAwGrant
  <2> DEFINE c == waq[1].addr
  <2>1. /\ c \in CORE /\ UNCHANGED <<bfifo, bready>>
        /\ \E issue \in BOOLEAN : CreateWr("ncq", issue, <<"so", c>>, c)
    BY <1>3, SoGrant DEF bch
  <2> HIDE DEF c
  <2>2. c \in Address /\ <<"so", c>> \in Id
    BY <2>1 DEF Address, Id
  <2> QED
    BY <2>1, <2>2, CreateTypes DEF BfifoInv, BfifoRoom
<1>4. CASE EbiuVbWGrant
  <2>1. /\ w_source("vb") /\ woq # <<>> /\ TakeData(vb[vb_ptr.pop].w)
        /\ UNCHANGED <<bfifo, bready>>
    BY <1>4 DEF EbiuVbWGrant, w_source, bch
  <2>2. vb[vb_ptr.pop].w \in Address /\ bus_aw # <<>>
    BY <1>4, <2>1, VbPop, HeadFromVb DEF Address
  <2> QED
    BY <2>1, <2>2, DataTypes DEF BfifoInv, BfifoRoom
<1>5. CASE NcqWGrant
  <2>1. /\ w_source("ncq") /\ woq # <<>> /\ TakeData(Head(woq_ncq).addr)
        /\ UNCHANGED <<bfifo, bready>>
    BY <1>5 DEF NcqWGrant, w_source, bch
  <2>2. Head(woq_ncq).addr \in Address /\ (Head(woq).issue => bus_aw # <<>>)
    BY <2>1, NcqHeads, HeadFromNcq DEF Address
  <2> QED
    BY <2>1, <2>2, DataTypes DEF BfifoInv, BfifoRoom
<1>6. CASE NcqBWo
  <2>1. UNCHANGED <<woq, bus_aw, bus_wr, bfifo, bready>>
    BY <1>6 DEF NcqBWo, bch, wbus
  <2> QED
    BY <2>1 DEF BusTypes, BfifoInv, BfifoRoom
<1>7. ASSUME NEW c \in CORE, NcqBExFail(c) PROVE BusTypes' /\ BfifoInv'
  <2>1. UNCHANGED <<woq, bus_aw, bus_wr, bfifo, bready>>
    BY <1>7 DEF NcqBExFail, bch, wbus
  <2> QED
    BY <2>1 DEF BusTypes, BfifoInv, BfifoRoom
<1>8. CASE UNCHANGED <<woq, bus_aw, bus_wr, bfifo, bready>>
  BY <1>8 DEF BusTypes, BfifoInv, BfifoRoom
<1> QED
  BY <1>1, <1>2, <1>3, <1>4, <1>5, <1>6, <1>7, <1>8, TableSteps, ClockTypes

-----------------------------------------------------------------------------
(***************************************************************************)
(* The ids under way are those the tables say, and each names the entry of *)
(* its own write.                                                          *)
(***************************************************************************)
\* An id that names a write on the bus names an entry that is in use.
LEMMA OwnedFacts ==
  ASSUME BusTypes, IdInv, NEW y \in Ids
  PROVE  /\ y[1] \in Id /\ y[2] \in Address /\ y[2] # NONE /\ Names(y[1], y[2])
         /\ \A k \in CawtIx : y[1] = <<"vb", k>> => cawt[k] = y[2]
         /\ \A k \in NcwtIx : y[1] = <<"wo", k>> =>
              ncwt[k].addr = y[2] /\ ~ncwt[k].bus_done
<1>1. y[1] \in Id /\ y[2] \in Address /\ y[2] # NONE /\ Open(y[1]) > 0
  BY IdsOpen, SizeAssumption DEF Address
<1>2. Names(y[1], y[2])
  BY DEF IdInv, Owned
<1>3. ASSUME NEW k \in CawtIx, y[1] = <<"vb", k>> PROVE cawt[k] = y[2]
  BY <1>2, <1>3 DEF Names
<1>4. ASSUME NEW k \in NcwtIx, y[1] = <<"wo", k>>
      PROVE  ncwt[k].addr = y[2] /\ ~ncwt[k].bus_done
  <2>1. ncwt[k].addr = y[2]
    BY <1>2, <1>4 DEF Names
  <2>2. ~ncwt[k].bus_done
    BY <1>1, <1>4 DEF IdInv, Opened
  <2> QED
    BY <2>1, <2>2
<1> QED
  BY <1>1, <1>2, <1>3, <1>4

\* No write on the bus has the id of a response that leaves, if it is the only one.
LEMMA PopLast ==
  ASSUME BusTypes, bfifo # <<>>, Open(Head(bfifo)) = 1
  PROVE  \A y \in Ids : y[1] # Head(bfifo)
<1> DEFINE id == Head(bfifo)
<1>1. 1 \in InB(id)
  BY SeqTail DEF BusTypes, InB
<1> HIDE DEF id
<1>2. Cardinality(InB(id)) # 0
  BY <1>1, OpenType, FS_EmptySet
<1>3. Cardinality(InAw(id)) = 0 /\ Cardinality(InWr(id)) = 0
  <2>1. Cardinality(InAw(id)) + Cardinality(InWr(id)) + Cardinality(InB(id)) = 1
    BY DEF Open, id
  <2>2. \A i, j, k \in Nat : i + j + k = 1 /\ k # 0 => i = 0 /\ j = 0
    OBVIOUS
  <2> QED
    BY <1>2, <2>1, <2>2, OpenType, Zenon
<1>4. InAw(id) = {} /\ InWr(id) = {}
  BY <1>3, OpenType, FS_EmptySet
<1>5. ASSUME NEW y \in Ids, y[1] = id PROVE FALSE
  BY <1>4, <1>5, IdsAre DEF InAw, InWr
<1> QED
  BY <1>5 DEF id

LEMMA IdSame ==
  ASSUME BusTypes, IdInv, UNCHANGED <<cawt, so_bus_cnt>>, Ids' \subseteq Ids,
         \A x : Open(x)' = Open(x),
         \A k \in NcwtIx :
           /\ ncwt[k].addr # NONE /\ ~ncwt[k].bus_done =>
                ncwt'[k].addr = ncwt[k].addr /\ ~ncwt'[k].bus_done
           /\ ncwt'[k].addr # NONE => ncwt'[k].addr = ncwt[k].addr
           /\ ncwt'[k].addr # NONE /\ ~ncwt'[k].bus_done => ~ncwt[k].bus_done
  PROVE  IdInv'
<1>1. Opened'
  BY DEF IdInv, Opened
<1>2. ASSUME NEW y \in Ids' PROVE Names(y[1], y[2])'
  <2>1. y \in Ids /\ y[1] \in Id /\ Names(y[1], y[2])
    BY OwnedFacts
  <2>2. CASE y[1][1] = "wo"
    <3>1. y[1][2] \in NcwtIx /\ y[1] = <<"wo", y[1][2]>>
      BY <2>1, <2>2, IdKinds
    <3>2. ncwt[y[1][2]].addr = y[2] /\ ~ncwt[y[1][2]].bus_done /\ y[2] # NONE
      BY <2>1, <3>1, OwnedFacts
    <3> QED
      BY <2>2, <3>1, <3>2 DEF Names
  <2>3. CASE y[1][1] # "wo"
    BY <2>1, <2>3 DEF Names
  <2> QED
    BY <2>2, <2>3
<1>3. OneEntry'
  BY DEF IdInv, OneEntry
<1> QED
  BY <1>1, <1>2, <1>3 DEF IdInv, Owned

LEMMA IdVbCreate ==
  ASSUME Types, IdInv, EbiuVbAwGrant
  PROVE  IdInv'
<1> USE DEF Types
<1> DEFINE k == cawt_create_ptr
           l == vb[vb_ptr.req].aw
           id == <<"vb", k>>
<1>1. l \in LINE /\ l # NONE /\ k \in CawtIx /\ cawt[k] = NONE
  BY VbAsk DEF TableTypes, EbiuVbAwGrant, cawt_full
<1>2. \A j \in CawtIx : cawt[j] # l
  BY <1>1 DEF EbiuVbAwGrant, ca_hit_cawt, SameIndex, TableTypes
<1>3. /\ bus_aw' = Append(bus_aw, [id |-> id, addr |-> l])
      /\ cawt' = [cawt EXCEPT ![k] = l]
      /\ UNCHANGED <<bus_wr, bfifo, ncwt, so_bus_cnt>>
  BY DEF EbiuVbAwGrant, CreateWr, nct, sos, bch
<1>4. /\ Ids' \subseteq Ids \cup {<<id, l>>}
      /\ \A x : Open(x)' = IF x = id THEN Open(x) + 1 ELSE Open(x)
  BY <1>3, OpenCreate
<1>5. \A j \in CawtIx : cawt'[j] = IF j = k THEN l ELSE cawt[j]
  BY <1>1, <1>3 DEF TableTypes
<1> HIDE DEF l, k
<1>6. Opened'
  <2>1. ASSUME NEW j \in CawtIx PROVE Open(<<"vb", j>>)' = IF cawt'[j] # NONE THEN 1 ELSE 0
    <3>1. CASE j = k
      <4>1. Open(id) = 0
        BY <1>1 DEF IdInv, Opened
      <4> QED
        BY <1>1, <1>4, <1>5, <3>1, <4>1
    <3>2. CASE j # k
      <4>1. <<"vb", j>> # id
        BY <3>2
      <4> QED
        BY <1>4, <1>5, <3>2, <4>1 DEF IdInv, Opened
    <3> QED
      BY <3>1, <3>2
  <2>2. \A x : <<"wo", x>> # id /\ <<"so", x>> # id
    OBVIOUS
  <2> HIDE DEF id
  <2> QED
    BY <1>3, <1>4, <2>1, <2>2 DEF IdInv, Opened
<1>7. ASSUME NEW y \in Ids' PROVE Names(y[1], y[2])'
  <2>1. CASE y = <<id, l>>
    BY <1>1, <1>5, <2>1 DEF Names
  <2>2. CASE y \in Ids
    <3>1. y[1] \in Id /\ y[2] # NONE /\ Names(y[1], y[2])
      BY <2>2, OwnedFacts
    <3>2. CASE y[1][1] = "vb"
      <4>1. y[1][2] \in CawtIx /\ cawt[y[1][2]] = y[2]
        BY <3>1, <3>2, IdKinds DEF Names
      <4>2. y[1][2] # k
        BY <1>1, <3>1, <4>1
      <4> QED
        BY <1>5, <3>2, <4>1, <4>2 DEF Names
    <3>3. CASE y[1][1] # "vb"
      BY <1>3, <3>1, <3>3 DEF Names
    <3> QED
      BY <3>2, <3>3
  <2> QED
    BY <1>4, <2>1, <2>2
<1>8. OneEntry'
  BY <1>1, <1>2, <1>3, <1>5 DEF IdInv, OneEntry
<1> QED
  BY <1>6, <1>7, <1>8 DEF IdInv, Owned

\* The entry a weakly ordered write takes: it is free, and no other has its address.
LEMMA WoGrant ==
  ASSUME CoreTypes, TableTypes, NcqWoAwGrant
  PROVE  LET k == ncwt_ptr.create
             a == waq[1].addr
         IN  /\ a \in WO /\ a # NONE /\ k \in NcwtIx /\ ncwt[k].addr = NONE
             /\ waq # <<>> /\ Head(waq) = waq[1] /\ waq[1].kind = "wo" /\ waq' = Tail(waq)
             /\ \A j \in NcwtIx : ncwt[j].addr # a
             /\ CreateWr("ncq", TRUE, <<"wo", k>>, a)
             /\ ncwt' = [ncwt EXCEPT ![k] = [EmptyNCWT EXCEPT !.addr = a]]
             /\ ncwt'[k].addr = a /\ ~ncwt'[k].bus_done /\ ~ncwt'[k].resp_done
             /\ \A j \in NcwtIx : j # k => ncwt'[j] = ncwt[j]
             /\ UNCHANGED <<line, wo, so, vb, woq_ncq, raq, bus_rd, cawt, bus_wr, bfifo,
                            so_bus_cnt, so_ex_fail>>
<1> DEFINE k == ncwt_ptr.create
           a == waq[1].addr
<1>1. /\ waq # <<>> /\ Head(waq) = waq[1] /\ waq[1].kind = "wo" /\ a \in WO
      /\ k \in NcwtIx /\ a # NONE
  BY NcqHeads, TablePtrs, SizeAssumption DEF NcqWoAwGrant
<1>2. /\ ncwt[k].addr = NONE /\ ~nc_depd_ncwt(a)
      /\ CreateWr("ncq", TRUE, <<"wo", k>>, a)
      /\ ncwt' = [ncwt EXCEPT ![k] = [EmptyNCWT EXCEPT !.addr = a]]
  BY <1>1 DEF NcqWoAwGrant, ncwt_full
<1>3. \A j \in NcwtIx : ncwt[j].addr # a
  BY <1>1, <1>2 DEF nc_depd_ncwt, SameIndex, TableTypes
<1>4. ncwt'[k] = [EmptyNCWT EXCEPT !.addr = a] /\ \A j \in NcwtIx : j # k => ncwt'[j] = ncwt[j]
  BY <1>1, <1>2 DEF TableTypes
<1>5. ncwt'[k].addr = a /\ ~ncwt'[k].bus_done /\ ~ncwt'[k].resp_done
  BY <1>1, <1>4, NewNcwt
<1>6. /\ waq' = Tail(waq)
      /\ UNCHANGED <<line, wo, so, vb, woq_ncq, raq, bus_rd, cawt, bus_wr, bfifo,
                     so_bus_cnt, so_ex_fail>>
  BY DEF NcqWoAwGrant, CreateWr, cat, sos, bch, rds
<1> QED
  BY <1>1, <1>2, <1>3, <1>4, <1>5, <1>6

LEMMA IdWoCreate ==
  ASSUME Types, IdInv, NcqWoAwGrant
  PROVE  IdInv'
<1> USE DEF Types
<1> DEFINE k == ncwt_ptr.create
           a == waq[1].addr
           id == <<"wo", k>>
<1>1. /\ a \in WO /\ a # NONE /\ k \in NcwtIx /\ ncwt[k].addr = NONE
      /\ \A j \in NcwtIx : ncwt[j].addr # a
      /\ ncwt'[k].addr = a /\ ~ncwt'[k].bus_done
      /\ \A j \in NcwtIx : j # k => ncwt'[j] = ncwt[j]
      /\ bus_aw' = Append(bus_aw, [id |-> id, addr |-> a])
      /\ UNCHANGED <<bus_wr, bfifo, cawt, so_bus_cnt>>
  BY WoGrant DEF CreateWr
<1>2. /\ Ids' \subseteq Ids \cup {<<id, a>>}
      /\ \A x : Open(x)' = IF x = id THEN Open(x) + 1 ELSE Open(x)
  BY <1>1, OpenCreate
<1> HIDE DEF a, k
<1>3. Opened'
  <2>1. ASSUME NEW j \in NcwtIx
        PROVE  Open(<<"wo", j>>)' = IF ncwt'[j].addr # NONE /\ ~ncwt'[j].bus_done THEN 1 ELSE 0
    <3>1. CASE j = k
      <4>1. Open(id) = 0
        BY <1>1 DEF IdInv, Opened
      <4> QED
        BY <1>1, <1>2, <3>1, <4>1
    <3>2. CASE j # k
      <4>1. <<"wo", j>> # id
        BY <3>2
      <4> QED
        BY <1>1, <1>2, <3>2, <4>1 DEF IdInv, Opened
    <3> QED
      BY <3>1, <3>2
  <2>2. \A x : <<"vb", x>> # id /\ <<"so", x>> # id
    OBVIOUS
  <2> HIDE DEF id
  <2> QED
    BY <1>1, <1>2, <2>1, <2>2 DEF IdInv, Opened
<1>4. ASSUME NEW y \in Ids' PROVE Names(y[1], y[2])'
  <2>1. CASE y = <<id, a>>
    BY <1>1, <2>1 DEF Names
  <2>2. CASE y \in Ids
    <3>1. y[1] \in Id /\ y[2] # NONE /\ Names(y[1], y[2])
      BY <2>2, OwnedFacts
    <3>2. CASE y[1][1] = "wo"
      <4>1. y[1][2] \in NcwtIx /\ ncwt[y[1][2]].addr = y[2]
        BY <3>1, <3>2, IdKinds DEF Names
      <4>2. y[1][2] # k
        BY <1>1, <3>1, <4>1
      <4> QED
        BY <1>1, <3>2, <4>1, <4>2 DEF Names
    <3>3. CASE y[1][1] # "wo"
      BY <1>1, <3>1, <3>3 DEF Names
    <3> QED
      BY <3>2, <3>3
  <2> QED
    BY <1>2, <2>1, <2>2
<1>5. OneEntry'
  <2>1. \A i, j \in NcwtIx : ncwt'[i].addr = ncwt'[j].addr /\ ncwt'[i].addr # NONE => i = j
    <3> SUFFICES ASSUME NEW i \in NcwtIx, NEW j \in NcwtIx,
                        ncwt'[i].addr = ncwt'[j].addr, ncwt'[i].addr # NONE
                 PROVE  i = j
      OBVIOUS
    <3>1. CASE i = k \/ j = k
      BY <1>1, <3>1
    <3>2. CASE i # k /\ j # k
      BY <1>1, <3>2 DEF IdInv, OneEntry
    <3> QED
      BY <3>1, <3>2
  <2> QED
    BY <1>1, <2>1 DEF IdInv, OneEntry
<1> QED
  BY <1>3, <1>4, <1>5 DEF IdInv, Owned

LEMMA IdSoCreate ==
  ASSUME Types, IdInv, NcqSoAwGrant
  PROVE  IdInv'
<1> USE DEF Types
<1> DEFINE c == waq[1].addr
           id == <<"so", c>>
<1>1. /\ c \in CORE /\ UNCHANGED <<bus_wr, bfifo, cawt, ncwt>>
      /\ \/ bus_aw' = bus_aw /\ so_bus_cnt' = so_bus_cnt
         \/ /\ bus_aw' = Append(bus_aw, [id |-> id, addr |-> c])
            /\ so_bus_cnt' = [so_bus_cnt EXCEPT ![c] = so_bus_cnt[c] + 1]
  BY SoGrant DEF CreateWr, cat, nct, bch
<1> HIDE DEF c
<1>2. CASE bus_aw' = bus_aw /\ so_bus_cnt' = so_bus_cnt
  <2>1. Ids' \subseteq Ids /\ \A x : Open(x)' = Open(x)
    BY <1>1, <1>2 DEF Ids, OnBus, Open, InAw, InWr, InB
  <2> QED
    BY <1>1, <1>2, <2>1, IdSame
<1>3. CASE /\ bus_aw' = Append(bus_aw, [id |-> id, addr |-> c])
           /\ so_bus_cnt' = [so_bus_cnt EXCEPT ![c] = so_bus_cnt[c] + 1]
  <2>1. /\ Ids' \subseteq Ids \cup {<<id, c>>}
        /\ \A x : Open(x)' = IF x = id THEN Open(x) + 1 ELSE Open(x)
    BY <1>1, <1>3, OpenCreate
  <2>2. \A d \in CORE : so_bus_cnt'[d] = IF d = c THEN so_bus_cnt[d] + 1 ELSE so_bus_cnt[d]
    BY <1>1, <1>3 DEF TableTypes
  <2>3. \A x : <<"vb", x>> # id /\ <<"wo", x>> # id /\ (<<"so", x>> = id <=> x = c)
    OBVIOUS
  <2>4. id[1] = "so" /\ id[2] = c
    OBVIOUS
  <2> HIDE DEF id
  <2>5. Opened'
    BY <1>1, <2>1, <2>2, <2>3 DEF IdInv, Opened
  <2>6. ASSUME NEW y \in Ids' PROVE Names(y[1], y[2])'
    <3>1. CASE y = <<id, c>>
      BY <2>4, <3>1 DEF Names
    <3>2. CASE y \in Ids
      BY <1>1, <3>2 DEF IdInv, Owned, Names
    <3> QED
      BY <2>1, <3>1, <3>2
  <2> QED
    BY <1>1, <2>5, <2>6 DEF IdInv, Owned, OneEntry
<1> QED
  BY <1>1, <1>2, <1>3

\* Data end no id, whoever sends them.
LEMMA IdData ==
  ASSUME Types, IdInv, woq # <<>>, NEW d, TakeData(d), Head(woq).issue => bus_aw # <<>>,
         UNCHANGED <<bfifo, cawt, so_bus_cnt>>,
         \A k \in NcwtIx : ncwt'[k].addr = ncwt[k].addr /\ ncwt'[k].bus_done = ncwt[k].bus_done
  PROVE  IdInv'
<1>1. Ids' \subseteq Ids /\ \A x : Open(x)' = Open(x)
  BY OpenData DEF Types
<1> QED
  BY <1>1, IdSame DEF Types

LEMMA IdVbData ==
  ASSUME Types, Order, IdInv, EbiuVbWGrant
  PROVE  IdInv'
<1>1. /\ w_source("vb") /\ woq # <<>> /\ TakeData(vb[vb_ptr.pop].w)
      /\ UNCHANGED <<bfifo, cawt, so_bus_cnt, ncwt>>
  BY DEF EbiuVbWGrant, w_source, bch, cat, sos, nct
<1>2. bus_aw # <<>>
  BY <1>1, HeadFromVb DEF Types
<1> QED
  BY <1>1, <1>2, IdData

LEMMA NcqDataFacts ==
  ASSUME Types, NcqWGrant
  PROVE  /\ w_source("ncq") /\ woq # <<>> /\ TakeData(Head(woq_ncq).addr)
         /\ woq_ncq # <<>> /\ Head(woq_ncq) = woq_ncq[1] /\ woq_ncq' = Tail(woq_ncq)
         /\ UNCHANGED <<line, wo, so, vb, waq, raq, bus_rd, cawt, so_bus_cnt, bfifo, bready>>
         /\ woq_ncq[1].kind = "wo" => UNCHANGED so_ex_fail
         /\ woq_ncq[1].kind # "wo" =>
              so_ex_fail' = IF Head(woq).issue THEN so_ex_fail
                            ELSE [so_ex_fail EXCEPT ![woq_ncq[1].addr] = "BVLD"]
         /\ \A k \in NcwtIx : /\ ncwt'[k].addr = ncwt[k].addr
                              /\ ncwt'[k].bus_done = ncwt[k].bus_done
                              /\ ncwt'[k].resp_done = ncwt[k].resp_done
<1> USE DEF Types
<1>1. /\ woq_ncq # <<>> /\ Head(woq_ncq) = woq_ncq[1] /\ woq_ncq' = Tail(woq_ncq)
      /\ w_source("ncq") /\ woq # <<>> /\ TakeData(Head(woq_ncq).addr)
      /\ UNCHANGED <<line, wo, so, vb, waq, raq, bus_rd, cawt, so_bus_cnt, bfifo, bready>>
  BY NcqHeads DEF NcqWGrant, w_source, rds, cat, bch
<1>2. CASE woq_ncq[1].kind = "wo"
  <2> DEFINE w == ncwt_ptr.wdata
             e == ncwt[w]
             f == [e EXCEPT !.resp_ready = TRUE]
  <2>1. w \in NcwtIx /\ e \in NcwtEntry
    BY TablePtrs DEF TableTypes
  <2>2. f = [addr |-> e.addr, resp_ready |-> TRUE, resp_done |-> e.resp_done,
             bus_done |-> e.bus_done]
    BY <2>1, NcwtUpdate
  <2>3. f.addr = e.addr /\ f.bus_done = e.bus_done /\ f.resp_done = e.resp_done
    BY <2>2
  <2>4. ncwt' = [ncwt EXCEPT ![w] = f] /\ UNCHANGED so_ex_fail
    BY <1>1, <1>2 DEF NcqWGrant
  <2> HIDE DEF f
  <2>5. \A k \in NcwtIx : ncwt'[k] = IF k = w THEN f ELSE ncwt[k]
    BY <2>1, <2>4 DEF TableTypes
  <2> QED
    BY <1>1, <1>2, <2>3, <2>4, <2>5
<1>3. CASE woq_ncq[1].kind # "wo"
  BY <1>1, <1>3 DEF NcqWGrant, nct
<1> QED
  BY <1>2, <1>3

LEMMA IdNcqData ==
  ASSUME Types, Order, IdInv, NcqWGrant
  PROVE  IdInv'
<1>1. Head(woq).issue => bus_aw # <<>>
  BY NcqDataFacts, HeadFromNcq DEF Types
<1>2. /\ woq # <<>> /\ TakeData(Head(woq_ncq).addr) /\ UNCHANGED <<bfifo, cawt, so_bus_cnt>>
      /\ \A k \in NcwtIx : ncwt'[k].addr = ncwt[k].addr /\ ncwt'[k].bus_done = ncwt[k].bus_done
  BY NcqDataFacts
<1> QED
  BY <1>1, <1>2, IdData

\* The entry of the write that is answered to the core.
LEMMA BWoFacts ==
  ASSUME TableTypes, NcqBWo
  PROVE  LET k == ncwt_ptr.bresp
             e == ncwt[k]
             f == ncwt'[k]
         IN  /\ k \in NcwtIx /\ e \in NcwtEntry /\ ~e.resp_done
             /\ \A j \in NcwtIx : j # k => ncwt'[j] = ncwt[j]
             /\ f.addr # NONE => f.addr = e.addr /\ f.resp_done
             /\ e.addr # NONE /\ ~e.bus_done => f.addr = e.addr /\ ~f.bus_done
             /\ f.addr # NONE /\ ~f.bus_done => e.addr # NONE /\ ~e.bus_done
             /\ wo' = [wo EXCEPT ![e.addr] = NONE]
             /\ UNCHANGED <<so, waq, woq_ncq, raq, bus_rd, cawt, so_bus_cnt, so_ex_fail,
                            bus_aw, bus_wr, bfifo>>
<1> DEFINE k == ncwt_ptr.bresp
           f == Done([ncwt[k] EXCEPT !.resp_done = TRUE])
<1>1. k \in NcwtIx /\ ncwt[k] \in NcwtEntry
  BY TablePtrs DEF TableTypes
<1>2. PICK g : g = f
  OBVIOUS
<1>3. ncwt' = [ncwt EXCEPT ![k] = g]
  BY <1>2 DEF NcqBWo
<1>4. ncwt'[k] = g /\ \A j \in NcwtIx : j # k => ncwt'[j] = ncwt[j]
  BY <1>1, <1>3 DEF TableTypes
<1>5. /\ g.addr # NONE => g.addr = ncwt[k].addr /\ g.resp_done
      /\ ncwt[k].addr # NONE /\ ~ncwt[k].bus_done => g.addr = ncwt[k].addr /\ ~g.bus_done
      /\ g.addr # NONE /\ ~g.bus_done => ncwt[k].addr # NONE /\ ~ncwt[k].bus_done
  BY <1>1, <1>2, RespDone
<1>6. /\ ~ncwt[k].resp_done /\ wo' = [wo EXCEPT ![ncwt[k].addr] = NONE]
      /\ UNCHANGED <<so, waq, woq_ncq, raq, bus_rd, cawt, so_bus_cnt, so_ex_fail,
                     bus_aw, bus_wr, bfifo>>
  BY DEF NcqBWo, ncq, rds, cat, sos, bch, wbus
<1> QED
  BY <1>1, <1>4, <1>5, <1>6

LEMMA IdBWo ==
  ASSUME Types, IdInv, NcqBWo
  PROVE  IdInv'
<1>1. UNCHANGED <<cawt, so_bus_cnt, bus_aw, bus_wr, bfifo>>
  BY BWoFacts DEF Types
<1>2. Ids' \subseteq Ids /\ \A x : Open(x)' = Open(x)
  BY <1>1 DEF Ids, OnBus, Open, InAw, InWr, InB
<1>3. ASSUME NEW j \in NcwtIx
      PROVE  /\ ncwt[j].addr # NONE /\ ~ncwt[j].bus_done =>
                   ncwt'[j].addr = ncwt[j].addr /\ ~ncwt'[j].bus_done
             /\ ncwt'[j].addr # NONE => ncwt'[j].addr = ncwt[j].addr
             /\ ncwt'[j].addr # NONE /\ ~ncwt'[j].bus_done => ~ncwt[j].bus_done
  BY BWoFacts DEF Types
<1> QED
  BY <1>1, <1>2, <1>3, IdSame DEF Types

\* What the response of the bus does to the entry of a weakly ordered write.
LEMMA WoPop ==
  ASSUME TableTypes, NEW k \in NcwtIx, PopB(<<"wo", k>>)
  PROVE  LET e == ncwt[k]
             f == ncwt'[k]
         IN  /\ \A j \in NcwtIx : j # k => ncwt'[j] = ncwt[j]
             /\ f.addr = NONE \/ f.bus_done
             /\ f.addr # NONE => f.addr = e.addr /\ f.resp_done = e.resp_done
             /\ e.addr # NONE /\ ~e.resp_done => f.addr = e.addr /\ ~f.resp_done
             /\ UNCHANGED <<cawt, so_bus_cnt, so>>
<1> DEFINE f == Done([ncwt[k] EXCEPT !.bus_done = TRUE])
<1>1. ncwt[k] \in NcwtEntry
  BY DEF TableTypes
<1>2. PICK g : g = f
  OBVIOUS
<1>3. ncwt' = [ncwt EXCEPT ![k] = g] /\ UNCHANGED <<cawt, so_bus_cnt, so>>
  BY <1>2 DEF PopB
<1>4. ncwt'[k] = g /\ \A j \in NcwtIx : j # k => ncwt'[j] = ncwt[j]
  BY <1>3 DEF TableTypes
<1>5. /\ g = EmptyNCWT \/ g.bus_done = TRUE
      /\ g.addr # NONE => g.addr = ncwt[k].addr /\ g.resp_done = ncwt[k].resp_done
      /\ ncwt[k].addr # NONE /\ ~ncwt[k].resp_done => g.addr = ncwt[k].addr /\ ~g.resp_done
  BY ZenonT(60), <1>1, <1>2, BusDone
<1>6. EmptyNCWT.addr = NONE
  BY DEF EmptyNCWT
<1> QED
  BY <1>3, <1>4, <1>5, <1>6

LEMMA IdClock ==
  ASSUME Types, IdInv, NEW give \in 0 .. Len(bus_wr), NEW grant \in BOOLEAN,
         BClock(give, grant)
  PROVE  IdInv'
<1> USE DEF Types
<1>1. /\ Ids' \subseteq Ids
      /\ \A x : Open(x)' = IF BPop(grant) /\ x = Head(bfifo) THEN Open(x) - 1 ELSE Open(x)
  BY OpenClock
<1>2. CASE ~BPop(grant)
  <2>1. UNCHANGED <<cawt, ncwt, so_bus_cnt>> /\ \A x : Open(x)' = Open(x)
    BY <1>1, <1>2, PopFacts
  <2> QED
    BY <1>1, <2>1, IdSame
<1>3. CASE BPop(grant)
  <2> DEFINE id == Head(bfifo)
  <2>1. id \in Id /\ Open(id) > 0 /\ PopB(id) /\ bfifo # <<>>
    BY <1>3, PopFacts
  <2>2. \A x : Open(x)' = IF x = id THEN Open(x) - 1 ELSE Open(x)
    BY <1>1, <1>3
  <2>3. Open(id) = 1 => \A y \in Ids : y[1] # id
    BY <2>1, PopLast
  <2> HIDE DEF id
  <2>4. CASE id[1] = "vb"
    <3> DEFINE k == id[2]
    <3>1. k \in CawtIx /\ id = <<"vb", k>>
      BY <2>1, <2>4, IdKinds
    <3>2. cawt' = [cawt EXCEPT ![k] = NONE] /\ UNCHANGED <<ncwt, so_bus_cnt>>
      BY <2>1, <2>4 DEF PopB
    <3>3. Open(id) = 1
      BY <2>1, <3>1 DEF IdInv, Opened
    <3>4. \A j \in CawtIx : cawt'[j] = IF j = k THEN NONE ELSE cawt[j]
      BY <3>1, <3>2 DEF TableTypes
    <3> HIDE DEF k
    <3>5. \A x : /\ <<"wo", x>> # id /\ <<"so", x>> # id
                 /\ <<"vb", x>> = id <=> x = k
      BY <3>1
    <3>6. Opened'
      <4>1. ASSUME NEW j \in CawtIx
            PROVE  Open(<<"vb", j>>)' = IF cawt'[j] # NONE THEN 1 ELSE 0
        <5>1. CASE j = k
          BY <2>2, <3>1, <3>3, <3>4, <5>1 DEF k
        <5>2. CASE j # k
          BY <2>2, <3>4, <3>5, <5>2 DEF IdInv, Opened
        <5> QED
          BY <5>1, <5>2
      <4> QED
        BY <2>2, <3>2, <3>5, <4>1 DEF IdInv, Opened
    <3>7. ASSUME NEW y \in Ids' PROVE Names(y[1], y[2])'
      <4>1. y \in Ids /\ y[1] \in Id /\ Names(y[1], y[2]) /\ y[1] # id
        BY <1>1, <2>3, <3>3, OwnedFacts
      <4>2. CASE y[1][1] = "vb"
        <5>1. y[1][2] \in CawtIx /\ y[1][2] # k
          BY <3>1, <4>1, <4>2, IdKinds
        <5> QED
          BY <3>4, <4>1, <4>2, <5>1 DEF Names
      <4>3. CASE y[1][1] # "vb"
        BY <3>2, <4>1, <4>3 DEF Names
      <4> QED
        BY <4>2, <4>3
    <3>8. OneEntry'
      BY <3>2, <3>4 DEF IdInv, OneEntry
    <3> QED
      BY <3>6, <3>7, <3>8 DEF IdInv, Owned
  <2>5. CASE id[1] = "wo"
    <3> DEFINE k == id[2]
    <3>1. k \in NcwtIx /\ id = <<"wo", k>>
      BY <2>1, <2>5, IdKinds
    <3>2. /\ \A j \in NcwtIx : j # k => ncwt'[j] = ncwt[j]
          /\ ncwt'[k].addr = NONE \/ ncwt'[k].bus_done
          /\ ncwt'[k].addr # NONE => ncwt'[k].addr = ncwt[k].addr
          /\ UNCHANGED <<cawt, so_bus_cnt>>
      BY <2>1, <3>1, WoPop
    <3>3. Open(id) = 1
      BY <2>1, <3>1 DEF IdInv, Opened
    <3> HIDE DEF k
    <3>4. \A x : /\ <<"vb", x>> # id /\ <<"so", x>> # id
                 /\ <<"wo", x>> = id <=> x = k
      BY <3>1
    <3>5. Opened'
      <4>1. ASSUME NEW j \in NcwtIx
            PROVE  Open(<<"wo", j>>)' = IF ncwt'[j].addr # NONE /\ ~ncwt'[j].bus_done THEN 1 ELSE 0
        <5>1. CASE j = k
          BY <2>2, <3>1, <3>2, <3>3, <5>1
        <5>2. CASE j # k
          BY <2>2, <3>2, <3>4, <5>2 DEF IdInv, Opened
        <5> QED
          BY <5>1, <5>2
      <4> QED
        BY <2>2, <3>2, <3>4, <4>1 DEF IdInv, Opened
    <3>6. ASSUME NEW y \in Ids' PROVE Names(y[1], y[2])'
      <4>1. y \in Ids /\ y[1] \in Id /\ Names(y[1], y[2]) /\ y[1] # id
        BY <1>1, <2>3, <3>3, OwnedFacts
      <4>2. CASE y[1][1] = "wo"
        <5>1. y[1][2] \in NcwtIx /\ y[1][2] # k
          BY <3>1, <4>1, <4>2, IdKinds
        <5> QED
          BY <3>2, <4>1, <4>2, <5>1 DEF Names
      <4>3. CASE y[1][1] # "wo"
        BY <3>2, <4>1, <4>3 DEF Names
      <4> QED
        BY <4>2, <4>3
    <3>7. ASSUME NEW i \in NcwtIx, NEW j \in NcwtIx,
                 ncwt'[i].addr = ncwt'[j].addr, ncwt'[i].addr # NONE
          PROVE  i = j
      <4>1. ncwt'[i].addr = ncwt[i].addr /\ ncwt'[j].addr = ncwt[j].addr
        BY <3>2, <3>7
      <4> QED
        BY <3>7, <4>1 DEF IdInv, OneEntry
    <3> QED
      BY <3>2, <3>5, <3>6, <3>7 DEF IdInv, Owned, OneEntry
  <2>6. CASE id[1] = "so"
    <3> DEFINE c == id[2]
    <3>1. c \in CORE /\ id = <<"so", c>>
      BY <2>1, <2>6, IdKinds
    <3>2. so_bus_cnt' = [so_bus_cnt EXCEPT ![c] = so_bus_cnt[c] - 1] /\ UNCHANGED <<cawt, ncwt>>
      BY <2>1, <2>6 DEF PopB
    <3>3. \A d \in CORE : so_bus_cnt'[d] = IF d = c THEN so_bus_cnt[d] - 1 ELSE so_bus_cnt[d]
      BY <3>1, <3>2 DEF TableTypes
    <3> HIDE DEF c
    <3>4. \A x : /\ <<"vb", x>> # id /\ <<"wo", x>> # id
                 /\ <<"so", x>> = id <=> x = c
      BY <3>1
    <3>5. Opened'
      <4>1. \A k \in CawtIx : Open(<<"vb", k>>)' = IF cawt'[k] # NONE THEN 1 ELSE 0
        BY <2>2, <3>2, <3>4 DEF IdInv, Opened
      <4>2. \A k \in NcwtIx : Open(<<"wo", k>>)' =
              IF ncwt'[k].addr # NONE /\ ~ncwt'[k].bus_done THEN 1 ELSE 0
        BY <2>2, <3>2, <3>4 DEF IdInv, Opened
      <4>3. \A d \in CORE : Open(<<"so", d>>)' = so_bus_cnt'[d]
        BY <2>2, <3>3, <3>4 DEF IdInv, Opened
      <4> QED
        BY <4>1, <4>2, <4>3 DEF Opened
    <3>6. ASSUME NEW y \in Ids' PROVE Names(y[1], y[2])'
      BY <1>1, <3>2, <3>6 DEF IdInv, Owned, Names
    <3> QED
      BY <3>2, <3>5, <3>6 DEF IdInv, Owned, OneEntry
  <2> QED
    BY <2>1, <2>4, <2>5, <2>6, IdKinds
<1> QED
  BY <1>2, <1>3

LEMMA IdStep ==
  ASSUME Types, Order, IdInv, Next
  PROVE  IdInv'
<1>1. CASE UNCHANGED <<cawt, ncwt, so_bus_cnt, bus_aw, bus_wr, bfifo>>
  <2>1. Ids' \subseteq Ids /\ \A x : Open(x)' = Open(x)
    BY <1>1 DEF Ids, OnBus, Open, InAw, InWr, InB
  <2> QED
    BY <1>1, <2>1, IdSame DEF Types
<1>2. ASSUME NEW c \in CORE, NcqBExFail(c)
      PROVE  UNCHANGED <<cawt, ncwt, so_bus_cnt, bus_aw, bus_wr, bfifo>>
  BY <1>2 DEF NcqBExFail, cat, nct, wbus, bch
<1> QED
  BY <1>1, <1>2, TableSteps, IdVbCreate, IdWoCreate, IdSoCreate, IdVbData, IdNcqData,
     IdBWo, IdClock

-----------------------------------------------------------------------------
(***************************************************************************)
(* A core has one access of a weakly ordered address under way.            *)
(***************************************************************************)
LEMMA WaqTypes ==
  ASSUME CoreTypes, NEW i \in DOMAIN waq
  PROVE  /\ waq[i] \in NcqWr
         /\ waq[i].kind = "wo" => waq[i].addr \in WO
         /\ waq[i].kind # "wo" => waq[i].addr \in CORE /\ waq[i].kind \in {"so", "fail"}
<1>1. waq \in Seq(NcqWr) /\ i \in 1 .. Len(waq)
  BY DEF CoreTypes
<1>2. waq[i] \in NcqWr
  BY <1>1, ElementOfSeq
<1> QED
  BY <1>2 DEF NcqWr

LEMMA RaqTypes ==
  ASSUME ReadTypes, NEW i \in DOMAIN raq
  PROVE  /\ raq[i] \in NcqRd
         /\ raq[i].kind = "wo" => raq[i].addr \in WO /\ raq[i] = [addr |-> raq[i].addr, kind |-> "wo"]
         /\ raq[i].kind # "wo" => raq[i].addr \in CORE /\ raq[i] = SoRd(raq[i].addr)
<1>1. raq \in Seq(NcqRd) /\ i \in 1 .. Len(raq)
  BY DEF ReadTypes
<1>2. raq[i] \in NcqRd
  BY <1>1, ElementOfSeq
<1> QED
  BY <1>2 DEF NcqRd, SoRd

LEMMA BusRdTypes ==
  ASSUME ReadTypes, NEW r \in bus_rd
  PROVE  /\ r.kind \in {"line", "wo", "so"}
         /\ r.kind = "line" => r.addr \in LINE /\ r \notin NcqRd
         /\ r.kind = "wo" => r.addr \in WO /\ r = [addr |-> r.addr, kind |-> "wo"]
         /\ r.kind = "so" => r.addr \in CORE /\ r = SoRd(r.addr)
BY DEF ReadTypes, NcqRd, SoRd

\* A queue of the NCQ that loses its oldest element keeps the others apart.
LEMMA WaqTail ==
  ASSUME CoreTypes, waq # <<>>, waq' = Tail(waq)
  PROVE  /\ \A i \in DOMAIN waq' : i + 1 \in DOMAIN waq /\ waq'[i] = waq[i + 1] /\ i + 1 # 1
         /\ \A i, j \in DOMAIN waq' : i + 1 = j + 1 => i = j
         /\ 1 \in DOMAIN waq
<1>1. waq \in Seq(NcqWr)
  BY DEF CoreTypes
<1>2. /\ Len(waq) \in Nat /\ Len(waq) > 0 /\ DOMAIN waq = 1 .. Len(waq)
      /\ DOMAIN waq' = 1 .. Len(waq) - 1
      /\ \A i \in 1 .. Len(waq) - 1 : i + 1 \in 1 .. Len(waq) /\ waq'[i] = waq[i + 1]
  BY <1>1, SeqTail
<1> QED
  BY <1>2

LEMMA WaqAppend ==
  ASSUME CoreTypes, NEW w \in NcqWr, waq' = Append(waq, w)
  PROVE  \E n : /\ n \in DOMAIN waq' /\ n \notin DOMAIN waq /\ waq'[n] = w
                /\ \A i \in DOMAIN waq : i \in DOMAIN waq' /\ waq'[i] = waq[i]
                /\ \A i \in DOMAIN waq' : i \in DOMAIN waq \/ i = n
<1>1. waq \in Seq(NcqWr)
  BY DEF CoreTypes
<1>2. /\ Len(waq) \in Nat /\ DOMAIN waq = 1 .. Len(waq) /\ DOMAIN waq' = 1 .. Len(waq) + 1
      /\ waq'[Len(waq) + 1] = w
      /\ \A i \in 1 .. Len(waq) : i \in 1 .. Len(waq) + 1 /\ i # Len(waq) + 1 /\ waq'[i] = waq[i]
      /\ \A i \in 1 .. Len(waq) + 1 : i \in 1 .. Len(waq) \/ i = Len(waq) + 1
  BY <1>1, SeqAppend
<1>3. Len(waq) + 1 \in 1 .. Len(waq) + 1 /\ Len(waq) + 1 \notin 1 .. Len(waq)
  BY <1>2
<1> QED
  BY <1>2, <1>3

LEMMA RaqTail ==
  ASSUME ReadTypes, raq # <<>>, raq' = Tail(raq)
  PROVE  /\ \A i \in DOMAIN raq' : i + 1 \in DOMAIN raq /\ raq'[i] = raq[i + 1] /\ i + 1 # 1
         /\ \A i, j \in DOMAIN raq' : i + 1 = j + 1 => i = j
         /\ 1 \in DOMAIN raq /\ Head(raq) = raq[1]
<1>1. raq \in Seq(NcqRd)
  BY DEF ReadTypes
<1>2. /\ Len(raq) \in Nat /\ Len(raq) > 0 /\ DOMAIN raq = 1 .. Len(raq)
      /\ DOMAIN raq' = 1 .. Len(raq) - 1 /\ Head(raq) = raq[1]
      /\ \A i \in 1 .. Len(raq) - 1 : i + 1 \in 1 .. Len(raq) /\ raq'[i] = raq[i + 1]
  BY <1>1, SeqTail
<1> QED
  BY <1>2

LEMMA RaqAppend ==
  ASSUME ReadTypes, NEW r \in NcqRd, raq' = Append(raq, r)
  PROVE  \E n : /\ n \in DOMAIN raq' /\ n \notin DOMAIN raq /\ raq'[n] = r
                /\ \A i \in DOMAIN raq : i \in DOMAIN raq' /\ raq'[i] = raq[i]
                /\ \A i \in DOMAIN raq' : i \in DOMAIN raq \/ i = n
<1>1. raq \in Seq(NcqRd)
  BY DEF ReadTypes
<1>2. /\ Len(raq) \in Nat /\ DOMAIN raq = 1 .. Len(raq) /\ DOMAIN raq' = 1 .. Len(raq) + 1
      /\ raq'[Len(raq) + 1] = r
      /\ \A i \in 1 .. Len(raq) : i \in 1 .. Len(raq) + 1 /\ i # Len(raq) + 1 /\ raq'[i] = raq[i]
      /\ \A i \in 1 .. Len(raq) + 1 : i \in 1 .. Len(raq) \/ i = Len(raq) + 1
  BY <1>1, SeqAppend
<1>3. Len(raq) + 1 \in 1 .. Len(raq) + 1 /\ Len(raq) + 1 \notin 1 .. Len(raq)
  BY <1>2
<1> QED
  BY <1>2, <1>3

LEMMA WoWritesKeep ==
  ASSUME CoreTypes, WoWrites, waq' = waq \/ (waq # <<>> /\ waq' = Tail(waq)),
         \A a \in WO : wo[a] = "wr" => wo'[a] = "wr",
         \A a \in WO : Unanswered(a)' => Unanswered(a)
  PROVE  WoWrites'
<1>1. CASE waq' = waq
  BY <1>1, WaqTypes DEF WoWrites
<1>2. CASE waq # <<>> /\ waq' = Tail(waq)
  <2>1. ASSUME NEW i \in DOMAIN waq', waq'[i].kind = "wo"
        PROVE  /\ wo'[waq'[i].addr] = "wr" /\ ~Unanswered(waq[i].addr)'
               /\ \A j \in DOMAIN waq' : waq'[j].addr = waq'[i].addr => i = j
    <3>1. /\ i + 1 \in DOMAIN waq /\ waq'[i] = waq[i + 1]
          /\ \A j \in DOMAIN waq' : j + 1 \in DOMAIN waq /\ waq'[j] = waq[j + 1]
          /\ \A j \in DOMAIN waq' : i + 1 = j + 1 => i = j
      BY <1>2, WaqTail
    <3>2. /\ waq[i + 1].addr \in WO /\ wo[waq[i + 1].addr] = "wr"
          /\ ~Unanswered(waq[i + 1].addr)
          /\ \A j \in DOMAIN waq : waq[j].addr = waq[i + 1].addr => i + 1 = j
      BY <2>1, <3>1, WaqTypes DEF WoWrites
    <3>3. PICK a \in WO : a = waq[i + 1].addr
      BY <3>2
    <3>4. ~Unanswered(a)'
      BY <3>2, <3>3
    <3>5. waq'[i].addr = a
      BY <3>1, <3>3
    <3> QED
      BY <3>1, <3>2, <3>3, <3>4, <3>5 DEF Unanswered
  <2> QED
    BY <2>1 DEF WoWrites
<1> QED
  BY <1>1, <1>2

LEMMA WoWritesStep ==
  ASSUME Types, IdInv, SoOne, WoOne, Next
  PROVE  WoWrites'
<1> USE DEF Types
<1>1. WoWrites /\ WoReads
  BY DEF WoOne
<1>2. ASSUME NEW w \in NcqWr, waq' = Append(waq, w), UNCHANGED ncwt,
             \A a \in WO : wo[a] = "wr" => wo'[a] = "wr",
             w.kind = "wo" => wo[w.addr] = NONE /\ wo'[w.addr] = "wr"
      PROVE  WoWrites'
  <2>1. PICK n : /\ n \in DOMAIN waq' /\ n \notin DOMAIN waq /\ waq'[n] = w
                 /\ \A i \in DOMAIN waq : i \in DOMAIN waq' /\ waq'[i] = waq[i]
                 /\ \A i \in DOMAIN waq' : i \in DOMAIN waq \/ i = n
    BY <1>2, WaqAppend
  <2>2. /\ w.kind = "wo" => w.addr \in WO
        /\ w.kind # "wo" => w.addr \in CORE
    BY DEF NcqWr
  <2>3. \A a \in WO : Unanswered(a)' <=> Unanswered(a)
    BY <1>2 DEF Unanswered
  <2>4. ASSUME NEW i \in DOMAIN waq, waq[i].kind = "wo" PROVE waq[i].addr # w.addr
    <3>1. waq[i].addr \in WO /\ wo[waq[i].addr] = "wr"
      BY <1>1, <2>4, WaqTypes DEF WoWrites
    <3>2. CASE w.kind = "wo"
      BY <1>2, <3>1, <3>2, SizeAssumption
    <3>3. CASE w.kind # "wo"
      BY <2>2, <3>1, <3>3, AddressAssumption
    <3> QED
      BY <3>2, <3>3
  <2>5. ASSUME NEW i \in DOMAIN waq, w.kind = "wo" PROVE waq[i].addr # w.addr
    <3>1. CASE waq[i].kind = "wo"
      BY <2>4, <3>1
    <3>2. CASE waq[i].kind # "wo"
      BY <2>2, <2>5, <3>2, WaqTypes, AddressAssumption
    <3> QED
      BY <3>1, <3>2
  <2>6. w.kind = "wo" => ~Unanswered(w.addr)
    BY <1>1, <1>2, <2>2, SizeAssumption DEF WoWrites
  <2>7. ASSUME NEW i \in DOMAIN waq', waq'[i].kind = "wo"
        PROVE  /\ wo'[waq'[i].addr] = "wr" /\ ~Unanswered(waq[i].addr)'
               /\ \A j \in DOMAIN waq' : waq'[j].addr = waq'[i].addr => i = j
    <3>1. CASE i = n
      <4>1. w.kind = "wo" /\ w.addr \in WO
        BY <2>1, <2>2, <2>7, <3>1
      <4>2. PICK a \in WO : a = w.addr
        BY <4>1
      <4>3. waq'[i].addr = a /\ ~Unanswered(a)'
        BY <2>1, <2>3, <2>6, <3>1, <4>1, <4>2
      <4>4. wo'[a] = "wr"
        BY <1>2, <4>1, <4>2
      <4>5. \A j \in DOMAIN waq' : waq'[j].addr = waq'[i].addr => i = j
        BY <2>1, <2>5, <3>1, <4>1
      <4> QED
        BY <4>3, <4>4, <4>5 DEF Unanswered
    <3>2. CASE i # n
      <4>1. i \in DOMAIN waq /\ waq'[i] = waq[i] /\ waq[i].kind = "wo"
        BY <2>1, <2>7, <3>2
      <4>2. PICK a \in WO : a = waq[i].addr
        BY <4>1, WaqTypes
      <4>3. wo'[a] = "wr" /\ ~Unanswered(a)'
        BY <1>1, <1>2, <2>3, <4>1, <4>2 DEF WoWrites
      <4>4. \A j \in DOMAIN waq' : waq'[j].addr = waq'[i].addr => i = j
        BY <1>1, <2>1, <2>4, <4>1 DEF WoWrites
      <4> QED
        BY <4>1, <4>2, <4>3, <4>4 DEF Unanswered
    <3> QED
      BY <3>1, <3>2
  <2>8. \A a \in WO : Unanswered(a)' => wo'[a] = "wr"
    BY <1>1, <1>2, <2>3 DEF WoWrites
  <2> QED
    BY <2>7, <2>8 DEF WoWrites
<1>3. ASSUME NEW a \in WO, WoWrite(a) PROVE WoWrites'
  <2>1. [addr |-> a, kind |-> "wo"] \in NcqWr
    BY DEF NcqWr
  <2>2. /\ waq' = Append(waq, [addr |-> a, kind |-> "wo"]) /\ wo[a] = NONE
        /\ wo' = [wo EXCEPT ![a] = "wr"] /\ UNCHANGED ncwt
    BY <1>3 DEF WoWrite, NcqWrite, nct
  <2> QED
    BY <1>2, <2>1, <2>2 DEF CoreTypes
<1>4. ASSUME NEW c \in CORE, NEW fail \in BOOLEAN, SoWrite(c, fail) PROVE WoWrites'
  <2>1. PICK w \in NcqWr : /\ w = [addr |-> c, kind |-> IF fail THEN "fail" ELSE "so"]
                           /\ w.kind # "wo"
    <3> DEFINE k == IF fail THEN "fail" ELSE "so"
    <3>1. k \in {"so", "fail"} /\ k # "wo"
      OBVIOUS
    <3> HIDE DEF k
    <3>2. PICK w : w = [addr |-> c, kind |-> k]
      OBVIOUS
    <3>3. w \in NcqWr /\ w.kind = k
      BY <3>1, <3>2 DEF NcqWr
    <3> QED
      BY <3>1, <3>2, <3>3 DEF k
  <2>2. waq' = Append(waq, w) /\ UNCHANGED <<wo, ncwt>>
    BY <1>4, <2>1 DEF SoWrite, NcqWrite, nct
  <2> QED
    BY <1>2, <2>1, <2>2
<1>5. ASSUME NEW a \in WO, WoRead(a) PROVE WoWrites'
  <2>1. waq' = waq /\ ncwt' = ncwt /\ wo[a] = NONE /\ wo' = [wo EXCEPT ![a] = "rd"]
    BY <1>5 DEF WoRead, NcqRead, ncq, nct
  <2>2. \A b \in WO : wo[b] = "wr" => wo'[b] = "wr"
    BY <2>1, SizeAssumption DEF CoreTypes
  <2>3. \A b \in WO : Unanswered(b)' => Unanswered(b)
    BY <2>1 DEF Unanswered
  <2> QED
    BY <1>1, <2>1, <2>2, <2>3, WoWritesKeep
<1>6. CASE NcqWoAwGrant
  <2> DEFINE k == ncwt_ptr.create
             a == waq[1].addr
  <2>1. /\ a \in WO /\ waq # <<>> /\ waq[1].kind = "wo" /\ waq' = Tail(waq) /\ wo' = wo
        /\ k \in NcwtIx /\ ncwt'[k].addr = a
        /\ \A j \in NcwtIx : j # k => ncwt'[j] = ncwt[j]
    BY <1>6, WoGrant
  <2> HIDE DEF k
  <2>2. \A b \in WO : Unanswered(b)' => Unanswered(b) \/ b = a
    BY <2>1 DEF Unanswered
  <2>3. /\ wo[a] = "wr"
        /\ \A j \in DOMAIN waq : waq[j].addr = a => j = 1
    BY <1>1, <2>1, WaqTail DEF WoWrites
  <2>4. ASSUME NEW i \in DOMAIN waq', waq'[i].kind = "wo"
        PROVE  /\ wo'[waq'[i].addr] = "wr" /\ ~Unanswered(waq[i].addr)'
               /\ \A j \in DOMAIN waq' : waq'[j].addr = waq'[i].addr => i = j
    <3>1. /\ i + 1 \in DOMAIN waq /\ waq'[i] = waq[i + 1] /\ i + 1 # 1
          /\ \A j \in DOMAIN waq' : j + 1 \in DOMAIN waq /\ waq'[j] = waq[j + 1]
          /\ \A j \in DOMAIN waq' : i + 1 = j + 1 => i = j
      BY <2>1, WaqTail
    <3>2. /\ waq[i + 1].addr \in WO /\ wo[waq[i + 1].addr] = "wr"
          /\ ~Unanswered(waq[i + 1].addr) /\ waq[i + 1].addr # a
          /\ \A j \in DOMAIN waq : waq[j].addr = waq[i + 1].addr => i + 1 = j
      BY <1>1, <2>3, <2>4, <3>1, WaqTypes DEF WoWrites
    <3>3. PICK b \in WO : b = waq[i + 1].addr
      BY <3>2
    <3>4. ~Unanswered(b)' /\ waq'[i].addr = b
      BY <2>2, <3>1, <3>2, <3>3
    <3> QED
      BY <2>1, <3>1, <3>2, <3>3, <3>4 DEF Unanswered
  <2>5. \A b \in WO : Unanswered(b)' => wo'[b] = "wr"
    BY <1>1, <2>1, <2>2, <2>3 DEF WoWrites
  <2> QED
    BY <2>4, <2>5 DEF WoWrites
<1>7. CASE NcqSoAwGrant
  <2>1. waq # <<>> /\ waq' = Tail(waq) /\ UNCHANGED <<wo, ncwt>>
    BY <1>7, SoGrant DEF nct
  <2>2. \A b \in WO : Unanswered(b)' => Unanswered(b)
    BY <2>1 DEF Unanswered
  <2> QED
    BY <1>1, <2>1, <2>2, WoWritesKeep
<1>8. CASE NcqWGrant
  <2>1. /\ UNCHANGED <<wo, waq>>
        /\ \A k \in NcwtIx : ncwt'[k].addr = ncwt[k].addr /\ ncwt'[k].resp_done = ncwt[k].resp_done
    BY <1>8, NcqDataFacts
  <2>2. \A b \in WO : Unanswered(b)' => Unanswered(b)
    BY <2>1 DEF Unanswered
  <2> QED
    BY <1>1, <2>1, <2>2, WoWritesKeep
<1>9. CASE NcqBWo
  <2> DEFINE k == ncwt_ptr.bresp
             x == ncwt[k].addr
  <2>1. /\ k \in NcwtIx /\ ~ncwt[k].resp_done /\ UNCHANGED waq
        /\ \A j \in NcwtIx : j # k => ncwt'[j] = ncwt[j]
        /\ ncwt'[k].addr # NONE => ncwt'[k].resp_done
        /\ wo' = [wo EXCEPT ![x] = NONE]
    BY <1>9, BWoFacts
  <2>2. \A j \in NcwtIx : ncwt[j].addr = x /\ x # NONE => j = k
    BY <2>1 DEF IdInv, OneEntry
  <2>3. x \in WO => Unanswered(x)
    BY <2>1 DEF Unanswered
  <2> HIDE DEF k, x
  <2>4. ASSUME NEW b \in WO, Unanswered(b)' PROVE Unanswered(b) /\ b # x
    <3>1. b # NONE
      BY SizeAssumption
    <3>2. PICK j \in NcwtIx : ncwt'[j].addr = b /\ ~ncwt'[j].resp_done
      BY <2>4 DEF Unanswered
    <3>3. j # k
      BY <2>1, <3>1, <3>2
    <3> QED
      BY <2>1, <2>2, <3>1, <3>2, <3>3 DEF Unanswered
  <2>5. \A b \in WO : b # x => wo'[b] = wo[b]
    BY <2>1 DEF CoreTypes
  <2>6. ASSUME NEW i \in DOMAIN waq, waq[i].kind = "wo"
        PROVE  /\ wo'[waq[i].addr] = "wr" /\ ~Unanswered(waq[i].addr)'
               /\ \A j \in DOMAIN waq : waq[j].addr = waq[i].addr => i = j
    <3>1. /\ waq[i].addr \in WO /\ wo[waq[i].addr] = "wr" /\ ~Unanswered(waq[i].addr)
          /\ \A j \in DOMAIN waq : waq[j].addr = waq[i].addr => i = j
      BY <1>1, <2>6, WaqTypes DEF WoWrites
    <3>2. PICK b \in WO : b = waq[i].addr
      BY <3>1
    <3>3. ~Unanswered(b)' /\ b # x
      BY <2>3, <2>4, <3>1, <3>2
    <3> QED
      BY <2>1, <2>5, <3>1, <3>2, <3>3 DEF Unanswered
  <2>7. \A b \in WO : Unanswered(b)' => wo'[b] = "wr"
    BY <1>1, <2>4, <2>5 DEF WoWrites
  <2> QED
    BY <2>1, <2>6, <2>7 DEF WoWrites
<1>10. ASSUME NEW give \in 0 .. Len(bus_wr), NEW grant \in BOOLEAN, BClock(give, grant)
       PROVE  WoWrites'
  <2>1. UNCHANGED <<wo, waq>> /\ (~BPop(grant) => ncwt' = ncwt)
    BY <1>10, PopFacts
  <2>2. ASSUME NEW b \in WO, Unanswered(b)' PROVE Unanswered(b)
    <3>1. PICK j \in NcwtIx : ncwt'[j].addr = b /\ ~ncwt'[j].resp_done
      BY <2>2 DEF Unanswered
    <3>2. CASE ncwt' = ncwt
      BY <3>1, <3>2 DEF Unanswered
    <3>3. CASE BPop(grant)
      <4> DEFINE id == Head(bfifo)
      <4>1. id \in Id /\ PopB(id)
        BY <1>10, <3>3, PopFacts
      <4> HIDE DEF id
      <4>2. CASE id[1] = "wo"
        <5>1. id[2] \in NcwtIx /\ id = <<"wo", id[2]>>
          BY <4>1, <4>2, IdKinds
        <5>2. /\ \A i \in NcwtIx : i # id[2] => ncwt'[i] = ncwt[i]
              /\ ncwt'[id[2]].addr # NONE => /\ ncwt'[id[2]].addr = ncwt[id[2]].addr
                                             /\ ncwt'[id[2]].resp_done = ncwt[id[2]].resp_done
          BY <4>1, <5>1, WoPop
        <5> QED
          BY <3>1, <5>2, SizeAssumption DEF Unanswered
      <4>3. CASE id[1] # "wo"
        BY <3>1, <4>1, <4>3 DEF PopB, Unanswered
      <4> QED
        BY <4>2, <4>3
    <3> QED
      BY <2>1, <3>2, <3>3
  <2> QED
    BY <1>1, <2>1, <2>2, WoWritesKeep
<1>11. ASSUME NEW r \in bus_rd, BusR(r) PROVE WoWrites'
  <2>1. UNCHANGED <<waq, ncwt>> /\ wo' = IF r.kind = "wo" THEN [wo EXCEPT ![r.addr] = NONE] ELSE wo
    BY <1>11 DEF BusR, ncq, nct
  <2>2. r.kind = "wo" => wo[r.addr] = "rd"
    BY <1>1 DEF WoReads
  <2>3. \A b \in WO : wo[b] = "wr" => wo'[b] = "wr"
    BY <2>1, <2>2 DEF CoreTypes
  <2>4. \A b \in WO : Unanswered(b)' => Unanswered(b)
    BY <2>1 DEF Unanswered
  <2> QED
    BY <1>1, <2>1, <2>3, <2>4, WoWritesKeep
<1>12. ASSUME UNCHANGED <<wo, waq, ncwt>> PROVE WoWrites'
  BY <1>1, <1>12 DEF WoWrites, Unanswered
<1>13. ASSUME NEW b \in BANK, EbiuifArGrant(b) PROVE UNCHANGED <<wo, waq, ncwt>>
  BY <1>13 DEF EbiuifArGrant, ncq, nct
<1>14. ASSUME NcqArGrant PROVE UNCHANGED <<wo, waq, ncwt>>
  BY <1>14 DEF NcqArGrant, ncq, nct
<1>15. ASSUME NEW c \in CORE, SoRead(c) \/ NcqBExFail(c) PROVE UNCHANGED <<wo, waq, ncwt>>
  BY <1>15 DEF SoRead, NcqRead, NcqBExFail, ncq, nct
<1> QED
  BY <1>3, <1>4, <1>5, <1>6, <1>7, <1>8, <1>9, <1>10, <1>11, <1>12, <1>13, <1>14, <1>15,
     CoreSteps

LEMMA WoReadsStep ==
  ASSUME Types, IdInv, SoOne, WoOne, Next
  PROVE  WoReads'
<1> USE DEF Types
<1>1. WoWrites /\ WoReads
  BY DEF WoOne
<1>2. ASSUME UNCHANGED <<raq, bus_rd>>, \A a \in WO : wo[a] = "rd" => wo'[a] = "rd"
      PROVE  WoReads'
  BY <1>1, <1>2, RaqTypes, BusRdTypes DEF WoReads
<1>3. ASSUME NEW r \in NcqRd, raq' = Append(raq, r), UNCHANGED bus_rd,
             \A a \in WO : wo[a] = "rd" => wo'[a] = "rd",
             r.kind = "wo" => wo[r.addr] = NONE /\ wo'[r.addr] = "rd"
      PROVE  WoReads'
  <2>1. PICK n : /\ n \in DOMAIN raq' /\ n \notin DOMAIN raq /\ raq'[n] = r
                 /\ \A i \in DOMAIN raq : i \in DOMAIN raq' /\ raq'[i] = raq[i]
                 /\ \A i \in DOMAIN raq' : i \in DOMAIN raq \/ i = n
    BY <1>3, RaqAppend
  <2>2. NONE # "rd"
    BY SizeAssumption
  <2>3. ASSUME NEW i \in DOMAIN raq, raq[i].kind = "wo" PROVE raq[i] # r
    BY <1>1, <1>3, <2>2, <2>3 DEF WoReads
  <2>4. r.kind = "wo" => r \notin bus_rd /\ \A i \in DOMAIN raq : raq[i] # r
    BY <1>1, <1>3, <2>2, <2>3 DEF WoReads
  <2>5. ASSUME NEW i \in DOMAIN raq', raq'[i].kind = "wo"
        PROVE  /\ wo'[raq'[i].addr] = "rd" /\ raq'[i] \notin bus_rd
               /\ \A j \in DOMAIN raq' : raq'[j] = raq'[i] => i = j
    <3>1. CASE i = n
      BY <1>3, <2>1, <2>4, <2>5, <3>1
    <3>2. CASE i # n
      <4>1. i \in DOMAIN raq /\ raq'[i] = raq[i] /\ raq[i].kind = "wo"
        BY <2>1, <2>5, <3>2
      <4>2. raq[i].addr \in WO
        BY <4>1, RaqTypes
      <4> QED
        BY <1>1, <1>3, <2>1, <2>3, <4>1, <4>2 DEF WoReads
    <3> QED
      BY <3>1, <3>2
  <2>6. \A q \in bus_rd : q.kind = "wo" => wo'[q.addr] = "rd"
    BY <1>1, <1>3, BusRdTypes DEF WoReads
  <2> QED
    BY <1>3, <2>5, <2>6 DEF WoReads
<1>4. ASSUME NEW a \in WO, WoRead(a) PROVE WoReads'
  <2>1. [addr |-> a, kind |-> "wo"] \in NcqRd
    BY DEF NcqRd
  <2>2. /\ raq' = Append(raq, [addr |-> a, kind |-> "wo"]) /\ UNCHANGED bus_rd
        /\ wo[a] = NONE /\ wo' = [wo EXCEPT ![a] = "rd"]
    BY <1>4 DEF WoRead, NcqRead
  <2> QED
    BY <1>3, <2>1, <2>2 DEF CoreTypes
<1>5. ASSUME NEW c \in CORE, SoRead(c) PROVE WoReads'
  <2>1. SoRd(c) \in NcqRd /\ SoRd(c).kind # "wo"
    BY DEF NcqRd, SoRd
  <2>2. raq' = Append(raq, SoRd(c)) /\ UNCHANGED <<bus_rd, wo>>
    BY <1>5 DEF SoRead, NcqRead, SoRd
  <2> QED
    BY <1>3, <2>1, <2>2
<1>6. ASSUME NEW a \in WO, WoWrite(a) PROVE WoReads'
  <2>1. /\ UNCHANGED <<raq, bus_rd>> /\ wo[a] = NONE /\ wo' = [wo EXCEPT ![a] = "wr"]
    BY <1>6 DEF WoWrite, NcqWrite, rds
  <2>2. \A b \in WO : wo[b] = "rd" => wo'[b] = "rd"
    BY <2>1, SizeAssumption DEF CoreTypes
  <2> QED
    BY <1>2, <2>1, <2>2
<1>7. ASSUME NEW c \in CORE, NEW fail \in BOOLEAN, SoWrite(c, fail) PROVE WoReads'
  <2>1. UNCHANGED <<raq, bus_rd, wo>>
    BY <1>7 DEF SoWrite, NcqWrite, rds
  <2> QED
    BY <1>2, <2>1
<1>8. CASE NcqArGrant
  <2>1. /\ raq # <<>> /\ raq' = Tail(raq) /\ bus_rd' = bus_rd \cup {raq[1]} /\ wo' = wo
        /\ 1 \in DOMAIN raq
    BY <1>8, RaqTail DEF NcqArGrant
  <2>2. ASSUME NEW i \in DOMAIN raq', raq'[i].kind = "wo"
        PROVE  /\ wo'[raq'[i].addr] = "rd" /\ raq'[i] \notin bus_rd'
               /\ \A j \in DOMAIN raq' : raq'[j] = raq'[i] => i = j
    <3>1. /\ i + 1 \in DOMAIN raq /\ raq'[i] = raq[i + 1] /\ i + 1 # 1
          /\ \A j \in DOMAIN raq' : j + 1 \in DOMAIN raq /\ raq'[j] = raq[j + 1]
          /\ \A j \in DOMAIN raq' : i + 1 = j + 1 => i = j
      BY <2>1, RaqTail
    <3>2. /\ wo[raq[i + 1].addr] = "rd" /\ raq[i + 1] \notin bus_rd
          /\ \A j \in DOMAIN raq : raq[j] = raq[i + 1] => i + 1 = j
      BY <1>1, <2>2, <3>1 DEF WoReads
    <3>3. raq[1] # raq[i + 1]
      BY <2>1, <3>1, <3>2
    <3> QED
      BY <2>1, <3>1, <3>2, <3>3
  <2>3. \A r \in bus_rd' : r.kind = "wo" => wo'[r.addr] = "rd"
    BY <1>1, <2>1 DEF WoReads
  <2> QED
    BY <2>2, <2>3 DEF WoReads
<1>9. ASSUME NEW r \in bus_rd, BusR(r) PROVE WoReads'
  <2>1. /\ raq' = raq /\ bus_rd' = bus_rd \ {r}
        /\ wo' = IF r.kind = "wo" THEN [wo EXCEPT ![r.addr] = NONE] ELSE wo
    BY <1>9 DEF BusR
  <2>2. ASSUME NEW i \in DOMAIN raq, raq[i].kind = "wo"
        PROVE  wo'[raq[i].addr] = "rd"
    <3>1. raq[i].addr \in WO /\ wo[raq[i].addr] = "rd" /\ raq[i] # r
      BY <1>1, <2>2, RaqTypes DEF WoReads
    <3>2. r.kind = "wo" => r.addr # raq[i].addr
      BY <2>2, <3>1, RaqTypes, BusRdTypes
    <3> QED
      BY <2>1, <3>1, <3>2 DEF CoreTypes
  <2>3. ASSUME NEW q \in bus_rd', q.kind = "wo"
        PROVE  wo'[q.addr] = "rd"
    <3>1. q \in bus_rd /\ q.addr \in WO /\ wo[q.addr] = "rd" /\ q # r
      BY <1>1, <2>1, <2>3, BusRdTypes DEF WoReads
    <3>2. r.kind = "wo" => r.addr # q.addr
      BY <2>3, <3>1, BusRdTypes
    <3> QED
      BY <2>1, <3>1, <3>2 DEF CoreTypes
  <2> QED
    BY <1>1, <2>1, <2>2, <2>3 DEF WoReads
<1>10. ASSUME NEW b \in BANK, EbiuifArGrant(b) PROVE WoReads'
  <2> DEFINE r == [kind |-> "line", addr |-> ebiu_ar_buf[b]]
  <2>1. UNCHANGED <<raq, wo>> /\ bus_rd' = bus_rd \cup {r}
    BY <1>10 DEF EbiuifArGrant
  <2>2. r.kind = "line"
    OBVIOUS
  <2> HIDE DEF r
  <2> QED
    BY <1>1, <2>1, <2>2 DEF WoReads
<1>11. CASE NcqBWo
  <2> DEFINE k == ncwt_ptr.bresp
             x == ncwt[k].addr
  <2>1. /\ k \in NcwtIx /\ ~ncwt[k].resp_done /\ UNCHANGED <<raq, bus_rd>>
        /\ wo' = [wo EXCEPT ![x] = NONE]
    BY <1>11, BWoFacts
  <2>2. x \in WO => wo[x] = "wr"
    BY <1>1, <2>1 DEF WoWrites, Unanswered
  <2> HIDE DEF x
  <2>3. \A b \in WO : wo[b] = "rd" => wo'[b] = "rd"
    BY <2>1, <2>2 DEF CoreTypes
  <2> QED
    BY <1>2, <2>1, <2>3
<1>12. ASSUME NEW give \in 0 .. Len(bus_wr), NEW grant \in BOOLEAN, BClock(give, grant)
       PROVE  WoReads'
  <2>1. UNCHANGED <<raq, bus_rd, wo>>
    BY <1>12, PopFacts
  <2> QED
    BY <1>2, <2>1
<1>13. CASE NcqWoAwGrant
  BY <1>2, <1>13, WoGrant
<1>14. CASE NcqSoAwGrant
  <2>1. UNCHANGED <<raq, bus_rd, wo>>
    BY <1>14, SoGrant DEF rds
  <2> QED
    BY <1>2, <2>1
<1>15. CASE NcqWGrant
  BY <1>2, <1>15, NcqDataFacts
<1>16. ASSUME NEW c \in CORE, NcqBExFail(c) PROVE WoReads'
  BY <1>2, <1>16 DEF NcqBExFail, rds
<1> QED
  BY <1>2, <1>4, <1>5, <1>6, <1>7, <1>8, <1>9, <1>10, <1>11, <1>12, <1>13, <1>14, <1>15,
     <1>16, CoreSteps

-----------------------------------------------------------------------------
(***************************************************************************)
(* The SO writes of a core: those it has asked for are, in this order, on  *)
(* the bus (or failed and at the EBIU) and in waq.                         *)
(***************************************************************************)
LEMMA PastType ==
  ASSUME TableTypes, CoreTypes, NEW c \in CORE
  PROVE  /\ Past(c) \in Nat /\ so_bus_cnt[c] \in Nat
         /\ so[c] \in Seq({"wr", "fail", "rd"}) /\ Len(so[c]) \in Nat
         /\ WaitingSo(c) \subseteq Nat \ {0}
         /\ DOMAIN waq = 1 .. Len(waq) /\ Len(waq) \in Nat
<1>1. so_bus_cnt[c] \in Nat /\ so[c] \in Seq({"wr", "fail", "rd"}) /\ waq \in Seq(NcqWr)
  BY DEF TableTypes, CoreTypes
<1>2. DOMAIN waq = 1 .. Len(waq) /\ Len(waq) \in Nat /\ Len(so[c]) \in Nat
  BY <1>1
<1>3. 1 .. Len(waq) \subseteq Nat \ {0}
  BY <1>2
<1> QED
  BY <1>1, <1>2, <1>3 DEF Past, WaitingSo

LEMMA WaqCut ==
  ASSUME CoreTypes, waq # <<>>, waq' = Tail(waq), NEW c \in CORE
  PROVE  /\ WaitingSo(c)' = Cut(WaitingSo(c), 1)
         /\ 1 \in WaitingSo(c) <=> waq[1].addr = c
         /\ \A i \in WaitingSo(c)' : i + 1 \in WaitingSo(c) /\ waq'[i] = waq[i + 1]
<1>1. waq \in Seq(NcqWr)
  BY DEF CoreTypes
<1>2. /\ Len(waq) \in Nat /\ Len(waq) > 0 /\ DOMAIN waq = 1 .. Len(waq)
      /\ DOMAIN waq' = 1 .. Len(waq) - 1
      /\ \A i \in 1 .. Len(waq) - 1 : i + 1 \in 1 .. Len(waq) /\ waq'[i] = waq[i + 1]
  BY <1>1, SeqTail
<1>3. \A i : i \in 1 .. Len(waq) - 1 <=> i \in Nat \ {0} /\ i + 1 \in 1 .. Len(waq)
  BY <1>2
<1>4. 1 \in DOMAIN waq
  BY <1>2
<1>5. WaitingSo(c)' = Cut(WaitingSo(c), 1)
  <2>1. ASSUME NEW i \in WaitingSo(c)' PROVE i \in Cut(WaitingSo(c), 1)
    BY <1>2, <1>3 DEF WaitingSo, Cut
  <2>2. ASSUME NEW i \in Cut(WaitingSo(c), 1) PROVE i \in WaitingSo(c)'
    <3>1. i \in Nat \ {0} /\ i + 1 \in WaitingSo(c)
      BY DEF Cut
    <3> QED
      BY <1>2, <1>3, <3>1 DEF WaitingSo
  <2> QED
    BY <2>1, <2>2
<1> QED
  BY <1>2, <1>4, <1>5 DEF WaitingSo

LEMMA SoWritesNext ==
  ASSUME NEW c, NEW n, n = Len(so'[c]) - Past(c)', NEW I, I = WaitingSo(c)',
         NEW q, Ranks(I, n, q),
         \A i \in I : waq'[i].kind = WaqKind(so'[c][Past(c)' + q[i]]),
         Past(c)' <= Len(so'[c]),
         so_ex_fail'[c] # "IDLE" => so_bus_cnt'[c] = 0 /\ so'[c][1] = "fail",
         \A i \in 1 .. so_bus_cnt'[c] : so'[c][i] = "wr"
  PROVE  SoWrites(c)'
<1>1. q \in [WaitingSo(c)' -> 1 .. Len(so'[c]) - Past(c)']
  BY DEF Ranks
<1>2. /\ Ranks(WaitingSo(c)', Len(so'[c]) - Past(c)', q)
      /\ \A i \in WaitingSo(c)' : waq'[i].kind = WaqKind(so'[c][Past(c)' + q[i]])
  OBVIOUS
<1> QED
  BY <1>1, <1>2, Zenon DEF SoWrites

\* What does not touch the SO accesses of a core keeps their order.
LEMMA SoOrderSame ==
  ASSUME TableTypes, CoreTypes, NEW c \in CORE, SoOrder(c),
         waq' = waq \/ (waq # <<>> /\ waq' = Tail(waq) /\ waq[1].addr # c),
         so'[c] = so[c], so_bus_cnt'[c] = so_bus_cnt[c],
         so_ex_fail'[c] = "IDLE" <=> so_ex_fail[c] = "IDLE"
  PROVE  SoOrder(c)'
<1>1. Past(c)' = Past(c)
  BY DEF Past
<1>2. CASE waq' = waq
  <2>1. WaitingSo(c)' = WaitingSo(c)
    BY <1>2 DEF WaitingSo
  <2>2. CASE so[c] = <<"rd">>
    BY <1>1, <2>1, <2>2 DEF SoOrder
  <2>3. CASE so[c] # <<"rd">>
    <3> DEFINE n == Len(so[c]) - Past(c)
    <3>1. SoWrites(c)
      BY <2>3 DEF SoOrder
    <3>2. PICK p : /\ Ranks(WaitingSo(c), n, p)
                   /\ \A i \in WaitingSo(c) : waq[i].kind = WaqKind(so[c][Past(c) + p[i]])
      BY <3>1 DEF SoWrites
    <3>3. PICK I : I = WaitingSo(c)
      OBVIOUS
    <3>4. SoWrites(c)'
      BY <1>1, <1>2, <2>1, <3>1, <3>2, <3>3, SoWritesNext DEF SoWrites
    <3> QED
      BY <2>3, <3>4 DEF SoOrder
  <2> QED
    BY <2>2, <2>3
<1>3. CASE waq # <<>> /\ waq' = Tail(waq) /\ waq[1].addr # c
  <2>1. /\ WaitingSo(c)' = Cut(WaitingSo(c), 1) /\ 1 \notin WaitingSo(c)
        /\ \A i \in WaitingSo(c)' : i + 1 \in WaitingSo(c) /\ waq'[i] = waq[i + 1]
    BY <1>3, WaqCut
  <2>2. CASE so[c] = <<"rd">>
    <3>1. Past(c) = 0 /\ WaitingSo(c)' = {}
      BY <2>1, <2>2 DEF SoOrder
    <3> QED
      BY <1>1, <2>2, <3>1 DEF SoOrder
  <2>3. CASE so[c] # <<"rd">>
    <3> DEFINE n == Len(so[c]) - Past(c)
    <3>1. SoWrites(c)
      BY <2>3 DEF SoOrder
    <3>2. PICK p : /\ Ranks(WaitingSo(c), n, p)
                   /\ \A i \in WaitingSo(c) : waq[i].kind = WaqKind(so[c][Past(c) + p[i]])
      BY <3>1 DEF SoWrites
    <3>3. n \in Nat /\ WaitingSo(c) \subseteq Nat \ {0}
      BY <3>1, PastType DEF SoWrites
    <3>4. PICK q : q = [i \in Cut(WaitingSo(c), 1) |-> p[i + 1]]
      OBVIOUS
    <3> HIDE DEF n
    <3>5. Ranks(WaitingSo(c)', n, q)
      BY <2>1, <3>2, <3>3, <3>4, RanksSkip
    <3>6. \A i \in WaitingSo(c)' : waq'[i].kind = WaqKind(so[c][Past(c) + q[i]])
      BY <2>1, <3>2, <3>4
    <3>7. PICK I : I = WaitingSo(c)'
      OBVIOUS
    <3>8. SoWrites(c)'
      <4>1. n = Len(so'[c]) - Past(c)'
        BY <1>1 DEF n
      <4>2. Ranks(I, n, q) /\ \A i \in I : waq'[i].kind = WaqKind(so'[c][Past(c)' + q[i]])
        BY <1>1, <3>5, <3>6, <3>7
      <4>3. /\ Past(c)' <= Len(so'[c])
            /\ so_ex_fail'[c] # "IDLE" => so_bus_cnt'[c] = 0 /\ so'[c][1] = "fail"
            /\ \A i \in 1 .. so_bus_cnt'[c] : so'[c][i] = "wr"
        BY <1>1, <3>1 DEF SoWrites
      <4> QED
        BY <3>7, <4>1, <4>2, <4>3, SoWritesNext
    <3> QED
      BY <2>3, <3>8 DEF SoOrder
  <2> QED
    BY <2>2, <2>3
<1> QED
  BY <1>2, <1>3

\* A new SO write is the youngest of its core, and the last of waq.
LEMMA SoOrderPush ==
  ASSUME TableTypes, CoreTypes, NEW c \in CORE, SoOrder(c), so[c] # <<"rd">>,
         NEW k \in {"wr", "fail"}, Append(so[c], k) = so'[c],
         Append(waq, [addr |-> c, kind |-> WaqKind(k)]) = waq',
         UNCHANGED <<so_bus_cnt, so_ex_fail>>
  PROVE  SoOrder(c)'
<1> DEFINE n == Len(so[c]) - Past(c)
           m == Len(waq) + 1
           w == [addr |-> c, kind |-> WaqKind(k)]
<1>1. SoWrites(c) /\ Past(c)' = Past(c)
  BY DEF SoOrder, Past
<1>2. PICK p : /\ Ranks(WaitingSo(c), n, p)
               /\ \A i \in WaitingSo(c) : waq[i].kind = WaqKind(so[c][Past(c) + p[i]])
  BY <1>1 DEF SoWrites
<1>3. /\ n \in Nat /\ WaitingSo(c) \subseteq Nat \ {0} /\ m \in Nat
      /\ Past(c) \in Nat /\ Len(so[c]) \in Nat /\ Past(c) <= Len(so[c])
      /\ so[c] \in Seq({"wr", "fail", "rd"}) /\ so_bus_cnt[c] \in Nat
  BY <1>1, PastType DEF SoWrites
<1>4. /\ so'[c] = Append(so[c], k) /\ Len(so'[c]) = Len(so[c]) + 1
      /\ so'[c][Len(so[c]) + 1] = k
      /\ \A i \in 1 .. Len(so[c]) : so'[c][i] = so[c][i]
  BY <1>3 DEF CoreTypes
<1>5. w.addr = c /\ w.kind = WaqKind(k)
  OBVIOUS
<1>6. w \in NcqWr
  BY DEF NcqWr, WaqKind
<1> HIDE DEF w
<1>7. /\ DOMAIN waq = 1 .. m - 1 /\ DOMAIN waq' = 1 .. m /\ waq'[m] = w
      /\ \A i \in 1 .. m - 1 : waq'[i] = waq[i]
      /\ \A i \in 1 .. m : i \in 1 .. m - 1 \/ i = m
      /\ m \in 1 .. m /\ \A i \in 1 .. m - 1 : i \in 1 .. m /\ i # m /\ i < m
  <2>1. waq \in Seq(NcqWr) /\ waq' = Append(waq, w)
    BY DEF CoreTypes, w
  <2>2. /\ Len(waq) \in Nat /\ DOMAIN waq = 1 .. Len(waq) /\ DOMAIN waq' = 1 .. Len(waq) + 1
        /\ waq'[Len(waq) + 1] = w
        /\ \A i \in 1 .. Len(waq) : waq'[i] = waq[i]
    BY <1>6, <2>1, SeqAppend
  <2>3. m \in Nat /\ m - 1 = Len(waq) /\ m > 0
    BY <2>2
  <2> QED
    BY <2>2, <2>3
<1> HIDE DEF m
<1>8. WaitingSo(c)' = WaitingSo(c) \cup {m}
  BY <1>5, <1>7 DEF WaitingSo
<1>9. \A i \in WaitingSo(c) : i \in 1 .. m - 1 /\ i < m
  BY <1>7 DEF WaitingSo
<1>10. PICK q : q = [i \in WaitingSo(c) \cup {m} |-> IF i = m THEN n + 1 ELSE p[i]]
  OBVIOUS
<1> HIDE DEF n
<1>11. WaitingSo(c) \subseteq Nat
  BY <1>3
<1>12. Ranks(WaitingSo(c)', n + 1, q)
  <2>1. PICK I : I = WaitingSo(c)
    OBVIOUS
  <2>2. /\ I \subseteq Nat /\ n \in Nat /\ Ranks(I, n, p) /\ m \in Nat /\ \A i \in I : i < m
        /\ q = [i \in I \cup {m} |-> IF i = m THEN n + 1 ELSE p[i]]
    BY <1>2, <1>3, <1>9, <1>10, <1>11, <2>1
  <2>3. Ranks(I \cup {m}, n + 1, q)
    BY <2>2, RanksAppend
  <2> QED
    BY <1>8, <2>1, <2>3
<1>13. ASSUME NEW i \in WaitingSo(c)'
       PROVE  waq'[i].kind = WaqKind(so'[c][Past(c) + q[i]])
  <2>1. CASE i = m
    <3>1. q[i] = n + 1 /\ Past(c) + (n + 1) = Len(so[c]) + 1
      BY <1>3, <1>8, <1>10, <2>1 DEF n
    <3> QED
      BY <1>4, <1>5, <1>7, <2>1, <3>1
  <2>2. CASE i # m
    <3>1. i \in WaitingSo(c) /\ q[i] = p[i] /\ i \in 1 .. m - 1
      BY <1>8, <1>9, <1>10, <2>2
    <3>2. p[i] \in 1 .. n
      BY <1>2, <3>1 DEF Ranks
    <3>3. Past(c) + p[i] \in 1 .. Len(so[c])
      BY <1>3, <3>2 DEF n
    <3> QED
      BY <1>2, <1>4, <1>7, <3>1, <3>3
  <2> QED
    BY <2>1, <2>2
<1>15. n + 1 = Len(so'[c]) - Past(c)
  BY <1>3, <1>4 DEF n
<1>16. /\ Past(c) <= Len(so'[c])
       /\ so_ex_fail'[c] # "IDLE" => so_bus_cnt'[c] = 0 /\ so'[c][1] = "fail"
       /\ \A i \in 1 .. so_bus_cnt'[c] : so'[c][i] = "wr"
  <2>1. so_ex_fail[c] # "IDLE" => 1 \in 1 .. Len(so[c])
    BY <1>3 DEF Past
  <2>2. \A i \in 1 .. so_bus_cnt[c] : so_ex_fail[c] = "IDLE" => i \in 1 .. Len(so[c])
    BY <1>3 DEF Past
  <2>3. \A i \in 1 .. so_bus_cnt[c] : so_ex_fail[c] = "IDLE"
    BY <1>1 DEF SoWrites
  <2>4. Past(c) <= Len(so'[c])
    BY <1>3, <1>4
  <2>5. so_ex_fail'[c] # "IDLE" => so_bus_cnt'[c] = 0 /\ so'[c][1] = "fail"
    BY <1>1, <1>4, <2>1 DEF SoWrites
  <2>6. \A i \in 1 .. so_bus_cnt'[c] : so'[c][i] = "wr"
    BY <1>1, <1>4, <2>2, <2>3 DEF SoWrites
  <2> QED
    BY <2>4, <2>5, <2>6
<1>17. SoWrites(c)'
  <2>1. PICK I : I = WaitingSo(c)'
    OBVIOUS
  <2> QED
    <3>1. n + 1 = Len(so'[c]) - Past(c)'
      BY <1>1, <1>15
    <3>2. /\ Ranks(I, n + 1, q)
          /\ \A i \in I : waq'[i].kind = WaqKind(so'[c][Past(c)' + q[i]])
      BY <1>1, <1>12, <1>13, <2>1
    <3>3. Past(c)' <= Len(so'[c])
      BY <1>1, <1>16
    <3>4. PICK r : r = n + 1
      OBVIOUS
    <3>5. r = Len(so'[c]) - Past(c)' /\ Ranks(I, r, q)
      BY <3>1, <3>2, <3>4
    <3>6. \A i \in I : waq'[i].kind = WaqKind(so'[c][Past(c)' + q[i]])
      BY <3>2
    <3>7. so_ex_fail'[c] # "IDLE" => so_bus_cnt'[c] = 0 /\ so'[c][1] = "fail"
      BY <1>16
    <3>8. \A i \in 1 .. so_bus_cnt'[c] : so'[c][i] = "wr"
      BY <1>16
    <3> QED
      BY SMTT(30), <2>1, <3>3, <3>5, <3>6, <3>7, <3>8, SoWritesNext
<1>18. so'[c] # <<"rd">>
  <2>1. CASE so[c] = <<>>
    BY <1>4, <2>1
  <2>2. CASE so[c] # <<>>
    BY <1>3, <1>4, <2>2
  <2> QED
    BY <2>1, <2>2
<1> QED
  BY <1>17, <1>18 DEF SoOrder

\* The oldest of waq goes to the EBIU: it is the oldest of its core that is not there.
LEMMA SoOrderTake ==
  ASSUME TableTypes, CoreTypes, NEW c \in CORE, SoOrder(c), so'[c] = so[c],
         waq # <<>>, Tail(waq) = waq', waq[1].addr = c,
         so_ex_fail[c] = "IDLE",
         \/ /\ waq[1].kind = "fail" /\ so_bus_cnt[c] = 0 /\ so_bus_cnt'[c] = 0
            /\ so_ex_fail'[c] = "WFD"
         \/ /\ waq[1].kind = "so" /\ so_bus_cnt'[c] = so_bus_cnt[c] + 1
            /\ so_ex_fail'[c] = "IDLE"
  PROVE  SoOrder(c)'
<1> DEFINE n == Len(so[c]) - Past(c)
<1>1. /\ WaitingSo(c)' = Cut(WaitingSo(c), 1) /\ 1 \in WaitingSo(c)
      /\ \A i \in WaitingSo(c)' : i + 1 \in WaitingSo(c) /\ waq'[i] = waq[i + 1]
  BY WaqCut
<1>2. so[c] # <<"rd">> /\ SoWrites(c)
  BY <1>1 DEF SoOrder
<1>3. PICK p : /\ Ranks(WaitingSo(c), n, p)
               /\ \A i \in WaitingSo(c) : waq[i].kind = WaqKind(so[c][Past(c) + p[i]])
  BY <1>2 DEF SoWrites
<1>4. /\ n \in Nat /\ WaitingSo(c) \subseteq Nat \ {0} /\ Past(c) \in Nat /\ Len(so[c]) \in Nat
      /\ so_bus_cnt[c] \in Nat /\ Past(c) = so_bus_cnt[c]
  BY <1>2, PastType DEF SoWrites, Past
<1>5. PICK I : I = WaitingSo(c)
  OBVIOUS
<1>6. PICK q : q = [i \in Cut(I, 1) |-> p[i + 1] - 1]
  OBVIOUS
<1>7. PICK k : k = n
  OBVIOUS
<1>8. I \subseteq Nat \ {0} /\ 1 \in I /\ k \in Nat /\ Ranks(I, k, p)
  BY <1>1, <1>3, <1>4, <1>5, <1>7
<1>9. p[1] = 1 /\ k > 0
  BY <1>8, RanksFirst
<1>10. Ranks(Cut(I, 1), k - 1, q)
  BY <1>6, <1>8, RanksTail
<1>11. waq[1].kind = WaqKind(so[c][Past(c) + 1])
  BY <1>1, <1>3, <1>9
<1>12. so[c][Past(c) + 1] = IF waq[1].kind = "so" THEN "wr" ELSE "fail"
  <2>1. Past(c) + 1 \in 1 .. Len(so[c])
    BY <1>4, <1>7, <1>9
  <2>2. so[c][Past(c) + 1] \in {"wr", "fail", "rd"}
    BY <2>1, PastType, ElementOfSeq
  <2> QED
    BY <1>11, <2>2 DEF WaqKind
<1>13. Past(c)' = Past(c) + 1
  BY <1>4 DEF Past
<1>14. /\ so_ex_fail'[c] # "IDLE" => so_bus_cnt'[c] = 0 /\ so'[c][1] = "fail"
       /\ \A i \in 1 .. so_bus_cnt'[c] : so'[c][i] = "wr"
  <2>1. CASE so_ex_fail'[c] = "WFD"
    BY <1>4, <1>12, <2>1
  <2>2. CASE so_ex_fail'[c] = "IDLE"
    <3>1. \A i \in 1 .. so_bus_cnt'[c] : i \in 1 .. so_bus_cnt[c] \/ i = Past(c) + 1
      BY <1>4, <2>2
    <3>2. \A i \in 1 .. so_bus_cnt[c] : so[c][i] = "wr"
      BY <1>2 DEF SoWrites
    <3> QED
      BY <1>12, <2>2, <3>1, <3>2
  <2> QED
    BY <2>1, <2>2
<1>15. PICK J : J = WaitingSo(c)'
  OBVIOUS
<1>16. ASSUME NEW i \in J PROVE waq'[i].kind = WaqKind(so'[c][Past(c)' + q[i]])
  <2>1. i + 1 \in I /\ i \in Cut(I, 1) /\ waq'[i] = waq[i + 1]
    BY <1>1, <1>5, <1>15
  <2>2. p[i + 1] \in 1 .. k /\ q[i] = p[i + 1] - 1
    BY <1>6, <1>8, <2>1 DEF Ranks
  <2>3. Past(c)' + q[i] = Past(c) + p[i + 1]
    BY <1>4, <1>13, <2>2
  <2> QED
    BY <1>3, <1>5, <2>1, <2>3
<1>17. PICK m : m = k - 1
  OBVIOUS
<1>18. m = Len(so'[c]) - Past(c)' /\ Past(c)' <= Len(so'[c])
  BY <1>4, <1>7, <1>9, <1>13, <1>17
<1>19. Ranks(J, m, q)
  BY <1>1, <1>5, <1>10, <1>15, <1>17
<1>20. /\ so_ex_fail'[c] # "IDLE" => so_bus_cnt'[c] = 0 /\ so'[c][1] = "fail"
       /\ \A i \in 1 .. so_bus_cnt'[c] : so'[c][i] = "wr"
  BY <1>14
<1>21. SoWrites(c)'
  <2>1. m = Len(so'[c]) - Past(c)'
    BY <1>18
  <2>2. Past(c)' <= Len(so'[c])
    BY <1>18
  <2>3. so_ex_fail'[c] # "IDLE" => so_bus_cnt'[c] = 0 /\ so'[c][1] = "fail"
    BY <1>20
  <2>4. \A i \in 1 .. so_bus_cnt'[c] : so'[c][i] = "wr"
    BY <1>20
  <2>5. \A i \in J : waq'[i].kind = WaqKind(so'[c][Past(c)' + q[i]])
    BY <1>16
  <2> QED
    BY <1>15, <1>19, <2>1, <2>2, <2>3, <2>4, <2>5, SoWritesNext
<1> QED
  BY <1>2, <1>21 DEF SoOrder

\* An answer goes to the oldest request of the core.
LEMMA SoOrderDrop ==
  ASSUME TableTypes, CoreTypes, NEW c \in CORE, SoOrder(c), so[c] # <<"rd">>,
         so'[c] = Tail(so[c]), UNCHANGED waq, Past(c) > 0,
         so_ex_fail'[c] = "IDLE",
         \/ so_ex_fail[c] # "IDLE" /\ so_bus_cnt'[c] = so_bus_cnt[c]
         \/ so_ex_fail[c] = "IDLE" /\ so_bus_cnt'[c] = so_bus_cnt[c] - 1
  PROVE  SoOrder(c)'
<1> DEFINE n == Len(so[c]) - Past(c)
<1>1. SoWrites(c)
  BY DEF SoOrder
<1>2. PICK p : /\ Ranks(WaitingSo(c), n, p)
               /\ \A i \in WaitingSo(c) : waq[i].kind = WaqKind(so[c][Past(c) + p[i]])
  BY <1>1 DEF SoWrites
<1>3. /\ Past(c) \in Nat /\ Len(so[c]) \in Nat /\ so_bus_cnt[c] \in Nat /\ Past(c) <= Len(so[c])
      /\ so[c] \in Seq({"wr", "fail", "rd"}) /\ n \in Nat
  BY <1>1, PastType DEF SoWrites
<1>4. so[c] # <<>> /\ Len(so[c]) > 0
  BY <1>3
<1>5. /\ Len(so'[c]) = Len(so[c]) - 1
      /\ \A i \in 1 .. Len(so[c]) - 1 : so'[c][i] = so[c][i + 1]
  BY <1>3, <1>4, SeqTail
<1>6. Past(c)' = Past(c) - 1 /\ so_bus_cnt'[c] = Past(c) - 1
  <2>1. CASE so_ex_fail[c] # "IDLE"
    BY <1>1, <2>1 DEF SoWrites, Past
  <2>2. CASE so_ex_fail[c] = "IDLE"
    BY <2>2 DEF Past
  <2> QED
    BY <2>1, <2>2
<1>7. PICK I : I = WaitingSo(c)
  OBVIOUS
<1>8. PICK k : k = n
  OBVIOUS
<1>9. Ranks(I, k, p) /\ I = WaitingSo(c)'
  BY <1>2, <1>7, <1>8 DEF WaitingSo
<1>10. k = Len(so'[c]) - Past(c)' /\ Past(c)' <= Len(so'[c])
  BY <1>3, <1>5, <1>6, <1>8
<1>11. ASSUME NEW i \in I
       PROVE  /\ waq'[i].kind = WaqKind(so'[c][Past(c)' + p[i]])
              /\ so'[c][Past(c)' + p[i]] # "rd"
  <2>1. p[i] \in 1 .. k /\ i \in DOMAIN waq /\ waq[i].kind = WaqKind(so[c][Past(c) + p[i]])
    BY <1>2, <1>7, <1>9 DEF Ranks, WaitingSo
  <2>2. Past(c)' + p[i] \in 1 .. Len(so[c]) - 1 /\ Past(c)' + p[i] + 1 = Past(c) + p[i]
    <3>1. \A l, x, y \in Nat : x > 0 /\ x <= l /\ y \in 1 .. l - x =>
            (x - 1) + y \in 1 .. l - 1 /\ (x - 1) + y + 1 = x + y
      OBVIOUS
    <3>2. p[i] \in Nat /\ p[i] \in 1 .. Len(so[c]) - Past(c) /\ Past(c) > 0
      BY <1>3, <1>8, <2>1
    <3> QED
      BY <1>3, <1>6, <3>1, <3>2
  <2>3. so'[c][Past(c)' + p[i]] = so[c][Past(c) + p[i]]
    BY <1>5, <2>2
  <2>4. waq[i].kind # "rd"
    BY <2>1, WaqTypes
  <2> QED
    <3>1. UNCHANGED waq
      OBVIOUS
    <3>2. waq'[i].kind = WaqKind(so'[c][Past(c)' + p[i]])
      BY <2>1, <2>3, <3>1
    <3>3. so'[c][Past(c)' + p[i]] # "rd"
      BY <2>4, <3>1, <3>2 DEF WaqKind
    <3> QED
      BY <3>2, <3>3
<1>12. \A i \in 1 .. so_bus_cnt'[c] : so'[c][i] = "wr"
  <2> SUFFICES ASSUME NEW i \in 1 .. so_bus_cnt'[c] PROVE so'[c][i] = "wr"
    OBVIOUS
  <2>1. so_ex_fail[c] = "IDLE"
    BY <1>1, <1>3, <1>6 DEF SoWrites, Past
  <2>2. Past(c) = so_bus_cnt[c]
    BY <2>1 DEF Past
  <2>3. i + 1 \in 1 .. so_bus_cnt[c] /\ i \in 1 .. Len(so[c]) - 1
    BY <1>3, <1>6, <2>2
  <2> QED
    BY <1>1, <1>5, <2>3 DEF SoWrites
<1>13. SoWrites(c)'
  BY <1>9, <1>10, <1>11, <1>12, SoWritesNext
<1>14. ~(Len(so'[c]) = 1 /\ so'[c][1] = "rd")
  <2> SUFFICES ASSUME Len(so'[c]) = 1, so'[c][1] = "rd" PROVE FALSE
    BY Zenon
  <2>1. Len(so'[c]) = 1 /\ so'[c][1] = "rd"
    OBVIOUS
  <2>2. so_bus_cnt'[c] = 0 /\ Past(c)' = 0
    <3>1. 1 \notin 1 .. so_bus_cnt'[c]
      BY <1>12, <2>1
    <3> QED
      BY <1>3, <1>6, <3>1
  <2>3. 1 \in 1 .. k
    BY <1>10, <2>1, <2>2
  <2>4. PICK i \in I : p[i] = 1
    BY <1>9, <2>3 DEF Ranks
  <2>5. Past(c)' + p[i] = 1 /\ so'[c][Past(c)' + p[i]] # "rd"
    BY <1>11, <2>2, <2>4
  <2>6. so'[c][1] # "rd"
    BY <2>5
  <2> QED
    BY <2>1, <2>6, Zenon
<1>15. Len(<<"rd">>) = 1 /\ <<"rd">>[1] = "rd"
  OBVIOUS
<1>16. so'[c] # <<"rd">>
  BY <1>14, <1>15, Zenon
<1> QED
  BY <1>13, <1>16 DEF SoOrder

\* The failed write whose data leave the NCQ is the one the EBIU waits for.
LEMMA FailedHead ==
  ASSUME Types, Order, FailedOne, NcqWGrant
  PROVE  /\ woq_ncq[1].kind \in {"wo", "so"} => UNCHANGED so_ex_fail
         /\ woq_ncq[1].kind = "fail" =>
              /\ woq_ncq[1].addr \in CORE /\ so_ex_fail[woq_ncq[1].addr] = "WFD"
              /\ so_ex_fail' = [so_ex_fail EXCEPT ![woq_ncq[1].addr] = "BVLD"]
         /\ woq_ncq[1].kind \in {"wo", "so", "fail"}
         /\ GrantedNcq > 0 /\ GrantedNcq \in Nat
<1> USE DEF Types
<1>1. /\ w_source("ncq") /\ woq_ncq # <<>> /\ Head(woq_ncq) = woq_ncq[1]
      /\ woq_ncq[1].kind = "wo" => UNCHANGED so_ex_fail
      /\ woq_ncq[1].kind # "wo" =>
           so_ex_fail' = IF Head(woq).issue THEN so_ex_fail
                         ELSE [so_ex_fail EXCEPT ![woq_ncq[1].addr] = "BVLD"]
  BY NcqDataFacts
<1>2. /\ GrantedNcq > 0 /\ GrantedNcq \in Nat
      /\ woq_ncq[1].kind = "fail" => ~Head(woq).issue
      /\ woq_ncq[1].kind # "fail" => Head(woq).issue
  BY <1>1, HeadFromNcq DEF Order, NcqOrder
<1>3. woq_ncq[1].kind # "wo" => woq_ncq[1].addr \in CORE /\ woq_ncq[1].kind \in {"so", "fail"}
  BY <1>1, NcqHeads
<1>4. woq_ncq[1].kind = "fail" => so_ex_fail[woq_ncq[1].addr] = "WFD"
  <2>1. 1 \in 1 .. GrantedNcq
    BY <1>2
  <2> QED
    BY <2>1 DEF FailedOne
<1> QED
  BY <1>1, <1>2, <1>3, <1>4

LEMMA SoOrderStep ==
  ASSUME Types, Order, IdInv, SoInv, Next, NEW c \in CORE
  PROVE  SoOrder(c)'
<1> USE DEF Types
<1>1. SoOrder(c) /\ SoReads(c) /\ SoOne /\ FailedOne /\ Opened
  BY DEF SoInv, SoOne, IdInv
<1>2. ASSUME UNCHANGED <<so, waq, so_bus_cnt, so_ex_fail>> PROVE SoOrder(c)'
  BY <1>1, <1>2, SoOrderSame
<1>3. ASSUME NEW w \in NcqWr, w.addr # c, waq' = Append(waq, w), so'[c] = so[c],
             UNCHANGED <<so_bus_cnt, so_ex_fail>>
      PROVE  SoOrder(c)'
  <2>1. PICK n : /\ n \in DOMAIN waq' /\ n \notin DOMAIN waq /\ waq'[n] = w
                 /\ \A i \in DOMAIN waq : i \in DOMAIN waq' /\ waq'[i] = waq[i]
                 /\ \A i \in DOMAIN waq' : i \in DOMAIN waq \/ i = n
    BY <1>3, WaqAppend
  <2>2. WaitingSo(c)' = WaitingSo(c)
    BY <1>3, <2>1 DEF WaitingSo
  <2>3. Past(c)' = Past(c)
    BY <1>3 DEF Past
  <2>4. CASE so[c] = <<"rd">>
    BY <1>1, <1>3, <2>2, <2>3, <2>4 DEF SoOrder
  <2>5. CASE so[c] # <<"rd">>
    <3> DEFINE n0 == Len(so[c]) - Past(c)
    <3>1. SoWrites(c)
      BY <1>1, <2>5 DEF SoOrder
    <3>2. PICK p : /\ Ranks(WaitingSo(c), n0, p)
                   /\ \A i \in WaitingSo(c) : waq[i].kind = WaqKind(so[c][Past(c) + p[i]])
      BY <3>1 DEF SoWrites
    <3>3. PICK I : I = WaitingSo(c)
      OBVIOUS
    <3>4. PICK k : k = n0
      OBVIOUS
    <3>5. I = WaitingSo(c)' /\ Ranks(I, k, p) /\ k = Len(so'[c]) - Past(c)'
      BY <1>3, <2>2, <2>3, <3>2, <3>3, <3>4
    <3>6. \A i \in I : waq'[i].kind = WaqKind(so'[c][Past(c)' + p[i]])
      BY <1>3, <2>1, <2>3, <3>2, <3>3 DEF WaitingSo
    <3>7. Past(c)' <= Len(so'[c])
      BY <1>3, <2>3, <3>1 DEF SoWrites
    <3>8. so_ex_fail'[c] # "IDLE" => so_bus_cnt'[c] = 0 /\ so'[c][1] = "fail"
      BY <1>3, <3>1 DEF SoWrites
    <3>9. \A i \in 1 .. so_bus_cnt'[c] : so'[c][i] = "wr"
      BY <1>3, <3>1 DEF SoWrites
    <3>10. SoWrites(c)'
      BY <3>5, <3>6, <3>7, <3>8, <3>9, SoWritesNext
    <3> QED
      BY <1>3, <2>5, <3>10 DEF SoOrder
  <2> QED
    BY <2>4, <2>5
<1>4. ASSUME NEW a \in WO, WoWrite(a) PROVE SoOrder(c)'
  <2>1. PICK w : w = [addr |-> a, kind |-> "wo"]
    OBVIOUS
  <2>2. w \in NcqWr /\ w.addr # c
    BY <2>1, AddressAssumption DEF NcqWr
  <2>3. waq' = Append(waq, w) /\ UNCHANGED <<so, so_bus_cnt, so_ex_fail>>
    BY <1>4, <2>1 DEF WoWrite, NcqWrite, sos
  <2> QED
    BY <1>3, <2>2, <2>3
<1>5. ASSUME NEW d \in CORE, NEW fail \in BOOLEAN, SoWrite(d, fail) PROVE SoOrder(c)'
  <2>1. PICK k \in {"wr", "fail"} : k = IF fail THEN "fail" ELSE "wr"
    OBVIOUS
  <2>2. WaqKind(k) = IF fail THEN "fail" ELSE "so"
    BY <2>1 DEF WaqKind
  <2>3. PICK w : w = [addr |-> d, kind |-> WaqKind(k)]
    OBVIOUS
  <2>4. /\ so[d] # <<"rd">> /\ so' = [so EXCEPT ![d] = Append(so[d], k)]
        /\ waq' = Append(waq, w) /\ UNCHANGED <<so_bus_cnt, so_ex_fail>>
    BY <1>5, <2>1, <2>2, <2>3 DEF SoWrite, NcqWrite, sos
  <2>5. WaqKind(k) \in {"so", "fail"}
    BY <2>2
  <2>6. w \in NcqWr /\ w.addr = d
    BY <2>3, <2>5 DEF NcqWr
  <2>7. CASE d = c
    <3>1. Append(so[c], k) = so'[c] /\ Append(waq, [addr |-> c, kind |-> WaqKind(k)]) = waq'
      BY <2>3, <2>4, <2>7 DEF CoreTypes
    <3> QED
      BY <1>1, <2>4, <2>7, <3>1, SoOrderPush
  <2>8. CASE d # c
    <3>1. so'[c] = so[c]
      BY <2>4, <2>8 DEF CoreTypes
    <3> QED
      BY <1>3, <2>4, <2>6, <2>8, <3>1
  <2> QED
    BY <2>7, <2>8
<1>6. ASSUME NEW d \in CORE, SoRead(d) PROVE SoOrder(c)'
  <2>1. /\ so[d] = <<>> /\ so' = [so EXCEPT ![d] = <<"rd">>]
        /\ UNCHANGED <<waq, so_bus_cnt, so_ex_fail>>
    BY <1>6 DEF SoRead, NcqRead, ncq, sos
  <2>2. CASE d # c
    <3>1. so'[c] = so[c]
      BY <2>1, <2>2 DEF CoreTypes
    <3> QED
      BY <1>1, <2>1, <3>1, SoOrderSame
  <2>3. CASE d = c
    <3>1. so'[c] = <<"rd">> /\ Len(so[c]) = 0 /\ so[c] # <<"rd">>
      BY <2>1, <2>3 DEF CoreTypes
    <3>2. SoWrites(c)
      BY <1>1, <3>1 DEF SoOrder
    <3>3. Past(c) = 0
      BY <3>1, <3>2, PastType DEF SoWrites
    <3>4. WaitingSo(c) = {}
      BY <3>1, <3>2, <3>3 DEF SoWrites
    <3>5. Past(c)' = 0 /\ WaitingSo(c)' = {}
      BY <2>1, <3>3, <3>4 DEF Past, WaitingSo
    <3> QED
      BY <3>1, <3>5 DEF SoOrder
  <2> QED
    BY <2>2, <2>3
<1>7. CASE NcqWoAwGrant
  <2>1. /\ waq # <<>> /\ waq' = Tail(waq) /\ waq[1].addr \in WO
        /\ UNCHANGED <<so, so_bus_cnt, so_ex_fail>>
    BY <1>7, WoGrant
  <2>2. waq[1].addr # c
    BY <2>1, AddressAssumption
  <2> QED
    BY <1>1, <2>1, <2>2, SoOrderSame
<1>8. CASE NcqSoAwGrant
  <2> DEFINE d == waq[1].addr
  <2>1. /\ d \in CORE /\ waq # <<>> /\ waq' = Tail(waq) /\ UNCHANGED so /\ so_ex_fail[d] = "IDLE"
        /\ \/ /\ waq[1].kind = "fail" /\ so_bus_cnt[d] = 0
              /\ so_ex_fail' = [so_ex_fail EXCEPT ![d] = "WFD"] /\ UNCHANGED so_bus_cnt
           \/ /\ waq[1].kind = "so" /\ UNCHANGED so_ex_fail
              /\ so_bus_cnt' = [so_bus_cnt EXCEPT ![d] = so_bus_cnt[d] + 1]
    BY <1>8, SoGrant
  <2>2. CASE d # c
    <3>1. so_bus_cnt'[c] = so_bus_cnt[c] /\ so_ex_fail'[c] = so_ex_fail[c]
      BY <2>1, <2>2 DEF TableTypes
    <3> QED
      BY <1>1, <2>1, <2>2, <3>1, SoOrderSame
  <2>3. CASE d = c
    <3>1. \/ /\ waq[1].kind = "fail" /\ so_bus_cnt[c] = 0 /\ so_bus_cnt'[c] = 0
             /\ so_ex_fail'[c] = "WFD"
          \/ /\ waq[1].kind = "so" /\ so_bus_cnt'[c] = so_bus_cnt[c] + 1
             /\ so_ex_fail'[c] = "IDLE"
      BY <2>1, <2>3 DEF TableTypes
    <3> QED
      BY <1>1, <2>1, <2>3, <3>1, SoOrderTake
  <2> QED
    BY <2>2, <2>3
<1>9. CASE NcqWGrant
  <2>1. UNCHANGED <<so, waq, so_bus_cnt>>
    BY <1>9, NcqDataFacts
  <2>2. so_ex_fail'[c] = "IDLE" <=> so_ex_fail[c] = "IDLE"
    <3>1. CASE woq_ncq[1].kind \in {"wo", "so"}
      BY <1>1, <1>9, <3>1, FailedHead
    <3>2. CASE woq_ncq[1].kind = "fail"
      <4>1. /\ so_ex_fail[woq_ncq[1].addr] = "WFD" /\ woq_ncq[1].addr \in CORE
            /\ so_ex_fail' = [so_ex_fail EXCEPT ![woq_ncq[1].addr] = "BVLD"]
        BY <1>1, <1>9, <3>2, FailedHead
      <4> QED
        BY <4>1 DEF TableTypes
    <3> QED
      BY <1>1, <1>9, <3>1, <3>2, FailedHead
  <2> QED
    BY <1>1, <2>1, <2>2, SoOrderSame
<1>10. ASSUME NEW d \in CORE, NcqBExFail(d) PROVE SoOrder(c)'
  <2>1. /\ so_ex_fail[d] = "BVLD" /\ so_ex_fail' = [so_ex_fail EXCEPT ![d] = "IDLE"]
        /\ so' = [so EXCEPT ![d] = Tail(so[d])] /\ UNCHANGED <<waq, so_bus_cnt>>
    BY <1>10 DEF NcqBExFail, ncq
  <2>2. CASE d # c
    <3>1. so'[c] = so[c] /\ so_ex_fail'[c] = so_ex_fail[c]
      BY <2>1, <2>2 DEF TableTypes, CoreTypes
    <3> QED
      BY <1>1, <2>1, <3>1, SoOrderSame
  <2>3. CASE d = c
    <3>1. so'[c] = Tail(so[c]) /\ so_ex_fail'[c] = "IDLE" /\ so_ex_fail[c] # "IDLE"
      BY <2>1, <2>3 DEF TableTypes, CoreTypes
    <3>2. so[c] # <<"rd">> /\ Past(c) = 1
      BY <1>1, <3>1, SoFailed
    <3> QED
      BY <1>1, <2>1, <3>1, <3>2, SoOrderDrop
  <2> QED
    BY <2>2, <2>3
<1>11. ASSUME NEW give \in 0 .. Len(bus_wr), NEW grant \in BOOLEAN, BClock(give, grant)
       PROVE  SoOrder(c)'
  <2>1. UNCHANGED <<waq, so_ex_fail>> /\ (~BPop(grant) => UNCHANGED <<so, so_bus_cnt>>)
    BY <1>11, PopFacts
  <2>2. CASE ~BPop(grant)
    BY <1>2, <2>1, <2>2
  <2>3. CASE BPop(grant)
    <3> DEFINE id == Head(bfifo)
    <3>1. id \in Id /\ Open(id) > 0 /\ PopB(id)
      BY <1>11, <2>3, PopFacts
    <3> HIDE DEF id
    <3>2. CASE id[1] # "so"
      BY <1>2, <2>1, <3>1, <3>2 DEF PopB
    <3>3. CASE id[1] = "so"
      <4> DEFINE d == id[2]
      <4>1. d \in CORE /\ so_bus_cnt[d] > 0
        BY <1>1, <3>1, <3>3, IdKinds DEF Opened
      <4>2. /\ so_bus_cnt' = [so_bus_cnt EXCEPT ![d] = so_bus_cnt[d] - 1]
            /\ so' = [so EXCEPT ![d] = Tail(so[d])]
        BY <3>1, <3>3 DEF PopB
      <4> HIDE DEF d
      <4>3. CASE d # c
        <5>1. so'[c] = so[c] /\ so_bus_cnt'[c] = so_bus_cnt[c]
          BY <4>2, <4>3 DEF TableTypes, CoreTypes
        <5> QED
          BY <1>1, <2>1, <5>1, SoOrderSame
      <4>4. CASE d = c
        <5>1. so'[c] = Tail(so[c]) /\ so_bus_cnt'[c] = so_bus_cnt[c] - 1
          BY <4>2, <4>4 DEF TableTypes, CoreTypes
        <5>2. /\ so_ex_fail[c] = "IDLE" /\ so[c] # <<"rd">>
              /\ Past(c) = so_bus_cnt[c]
          BY <1>1, <4>1, <4>4, SoOnBus
        <5>3. Past(c) > 0 /\ so_ex_fail'[c] = "IDLE"
          BY <2>1, <4>1, <4>4, <5>2
        <5> QED
          BY <1>1, <2>1, <5>1, <5>2, <5>3, SoOrderDrop
      <4> QED
        BY <4>3, <4>4
    <3> QED
      BY <3>2, <3>3
  <2> QED
    BY <2>2, <2>3
<1>12. ASSUME NEW r \in bus_rd, BusR(r) PROVE SoOrder(c)'
  <2>1. /\ so' = IF r.kind = "so" THEN [so EXCEPT ![r.addr] = Tail(so[r.addr])] ELSE so
        /\ UNCHANGED <<waq, so_bus_cnt, so_ex_fail>>
    BY <1>12 DEF BusR, ncq, sos
  <2>2. CASE r.kind = "so" /\ r.addr = c
    <3>1. so[c] = <<"rd">>
      <4>1. r = SoRd(c)
        BY <2>2, BusRdTypes
      <4> QED
        BY <1>1, <4>1 DEF SoReads
    <3>2. Past(c) = 0 /\ WaitingSo(c) = {}
      BY <1>1, <3>1 DEF SoOrder
    <3>3. so'[c] = <<>>
      <4>1. Tail(<<"rd">>) = <<>>
        OBVIOUS
      <4> QED
        BY <2>1, <2>2, <3>1, <4>1 DEF CoreTypes
    <3>4. Past(c)' = 0 /\ WaitingSo(c)' = {} /\ Len(so'[c]) = 0
      BY <2>1, <3>2, <3>3 DEF Past, WaitingSo
    <3>5. so_bus_cnt'[c] = 0 /\ so_ex_fail'[c] = "IDLE"
      BY <2>1, <3>2 DEF Past
    <3>6. PICK q : q = [i \in {} |-> i]
      OBVIOUS
    <3>7. Ranks({}, 0, q)
      BY <3>6 DEF Ranks
    <3>8. PICK n : n = 0
      OBVIOUS
    <3>9. n = Len(so'[c]) - Past(c)' /\ Past(c)' <= Len(so'[c])
      BY <3>4, <3>8
    <3>10. PICK I : I = {}
      OBVIOUS
    <3>11. I = WaitingSo(c)' /\ Ranks(I, n, q)
      BY <3>4, <3>7, <3>8, <3>10
    <3>12. \A i \in I : waq'[i].kind = WaqKind(so'[c][Past(c)' + q[i]])
      BY <3>10
    <3>13. \A i \in 1 .. so_bus_cnt'[c] : so'[c][i] = "wr"
      BY <3>5
    <3>14. SoWrites(c)'
      BY <3>5, <3>9, <3>11, <3>12, <3>13, SoWritesNext
    <3>15. so'[c] # <<"rd">>
      BY <3>3
    <3> QED
      BY <3>14, <3>15 DEF SoOrder
  <2>3. CASE ~(r.kind = "so" /\ r.addr = c)
    <3>1. so'[c] = so[c]
      BY <2>1, <2>3 DEF CoreTypes
    <3> QED
      BY <1>1, <2>1, <3>1, SoOrderSame
  <2> QED
    BY <2>2, <2>3
<1>13. CASE NcqBWo
  BY <1>2, <1>13, BWoFacts
<1>14. ASSUME NEW a \in WO, WoRead(a) PROVE SoOrder(c)'
  BY <1>2, <1>14 DEF WoRead, NcqRead, ncq, sos
<1>15. ASSUME NEW b \in BANK, EbiuifArGrant(b) PROVE SoOrder(c)'
  BY <1>2, <1>15 DEF EbiuifArGrant, ncq, sos
<1>16. CASE NcqArGrant
  BY <1>2, <1>16 DEF NcqArGrant, ncq, sos
<1> QED
  BY <1>2, <1>4, <1>5, <1>6, <1>7, <1>8, <1>9, <1>10, <1>11, <1>12, <1>13, <1>14, <1>15,
     <1>16, CoreSteps

\* An SO read under way is the only SO access of its core, and is in one place.
LEMMA SoReadsStep ==
  ASSUME Types, Order, IdInv, SoInv, Next, NEW c \in CORE
  PROVE  SoReads(c)'
<1> USE DEF Types
<1>1. SoOrder(c) /\ SoReads(c) /\ SoOne /\ FailedOne /\ Opened
  BY DEF SoInv, SoOne, IdInv
<1>2. ASSUME UNCHANGED <<raq, bus_rd>>, so[c] = <<"rd">> => so'[c] = <<"rd">>
      PROVE  SoReads(c)'
  BY <1>1, <1>2 DEF SoReads
<1>3. ASSUME NEW a \in WO, WoRead(a) PROVE SoReads(c)'
  <2>1. PICK r : r = [addr |-> a, kind |-> "wo"]
    OBVIOUS
  <2>2. r \in NcqRd /\ r # SoRd(c)
    BY <2>1 DEF NcqRd, SoRd
  <2>3. raq' = Append(raq, r) /\ UNCHANGED <<so, bus_rd>>
    BY <1>3, <2>1 DEF WoRead, NcqRead
  <2>4. PICK n : /\ n \in DOMAIN raq' /\ n \notin DOMAIN raq /\ raq'[n] = r
                 /\ \A i \in DOMAIN raq : i \in DOMAIN raq' /\ raq'[i] = raq[i]
                 /\ \A i \in DOMAIN raq' : i \in DOMAIN raq \/ i = n
    BY <2>2, <2>3, RaqAppend
  <2> QED
    BY <1>1, <2>2, <2>3, <2>4 DEF SoReads
<1>4. ASSUME NEW d \in CORE, SoRead(d) PROVE SoReads(c)'
  <2>1. PICK r : r = SoRd(d)
    OBVIOUS
  <2>2. r \in NcqRd /\ (r = SoRd(c) <=> d = c)
    BY <2>1 DEF NcqRd, SoRd
  <2>3. /\ raq' = Append(raq, r) /\ UNCHANGED bus_rd
        /\ so[d] = <<>> /\ so' = [so EXCEPT ![d] = <<"rd">>]
    BY <1>4, <2>1 DEF SoRead, NcqRead, SoRd
  <2>4. PICK n : /\ n \in DOMAIN raq' /\ n \notin DOMAIN raq /\ raq'[n] = r
                 /\ \A i \in DOMAIN raq : i \in DOMAIN raq' /\ raq'[i] = raq[i]
                 /\ \A i \in DOMAIN raq' : i \in DOMAIN raq \/ i = n
    BY <2>2, <2>3, RaqAppend
  <2>5. CASE d # c
    <3>1. so'[c] = so[c]
      BY <2>3, <2>5 DEF CoreTypes
    <3> QED
      BY <1>1, <2>2, <2>3, <2>4, <2>5, <3>1 DEF SoReads
  <2>6. CASE d = c
    <3>1. so'[c] = <<"rd">> /\ so[c] # <<"rd">>
      BY <2>3, <2>6 DEF CoreTypes
    <3>2. SoRd(c) \notin bus_rd /\ \A i \in DOMAIN raq : raq[i] # SoRd(c)
      BY <1>1, <3>1 DEF SoReads
    <3> QED
      BY <2>2, <2>3, <2>4, <2>6, <3>1, <3>2 DEF SoReads
  <2> QED
    BY <2>5, <2>6
<1>5. ASSUME NEW a \in WO, WoWrite(a) PROVE SoReads(c)'
  BY <1>2, <1>5 DEF WoWrite, NcqWrite, rds
<1>6. ASSUME NEW d \in CORE, NEW fail \in BOOLEAN, SoWrite(d, fail) PROVE SoReads(c)'
  <2>1. /\ so[d] # <<"rd">> /\ UNCHANGED <<raq, bus_rd>>
        /\ \E k : so' = [so EXCEPT ![d] = Append(so[d], k)]
    BY <1>6 DEF SoWrite, NcqWrite, rds
  <2>2. so[c] = <<"rd">> => so'[c] = so[c]
    BY <2>1 DEF CoreTypes
  <2> QED
    BY <1>2, <2>1, <2>2
<1>7. CASE NcqWoAwGrant
  BY <1>2, <1>7, WoGrant
<1>8. CASE NcqSoAwGrant
  <2>1. UNCHANGED <<raq, bus_rd, so>>
    BY <1>8, SoGrant DEF rds
  <2> QED
    BY <1>2, <2>1
<1>9. CASE NcqWGrant
  BY <1>2, <1>9, NcqDataFacts
<1>10. ASSUME NEW d \in CORE, NcqBExFail(d) PROVE SoReads(c)'
  <2>1. /\ so_ex_fail[d] # "IDLE" /\ UNCHANGED <<raq, bus_rd>>
        /\ so' = [so EXCEPT ![d] = Tail(so[d])]
    BY <1>10 DEF NcqBExFail, rds
  <2>2. so[d] # <<"rd">>
    BY <1>1, <2>1, SoFailed
  <2>3. so[c] = <<"rd">> => so'[c] = so[c]
    BY <2>1, <2>2 DEF CoreTypes
  <2> QED
    BY <1>2, <2>1, <2>3
<1>11. ASSUME NEW give \in 0 .. Len(bus_wr), NEW grant \in BOOLEAN, BClock(give, grant)
       PROVE  SoReads(c)'
  <2>1. UNCHANGED <<raq, bus_rd>> /\ (~BPop(grant) => UNCHANGED so)
    BY <1>11, PopFacts
  <2>2. CASE ~BPop(grant)
    BY <1>2, <2>1, <2>2
  <2>3. CASE BPop(grant)
    <3> DEFINE id == Head(bfifo)
    <3>1. id \in Id /\ Open(id) > 0 /\ PopB(id)
      BY <1>11, <2>3, PopFacts
    <3> HIDE DEF id
    <3>2. CASE id[1] # "so"
      BY <1>2, <2>1, <3>1, <3>2 DEF PopB
    <3>3. CASE id[1] = "so"
      <4>1. id[2] \in CORE /\ so_bus_cnt[id[2]] > 0
        BY <1>1, <3>1, <3>3, IdKinds DEF Opened
      <4>2. so' = [so EXCEPT ![id[2]] = Tail(so[id[2]])]
        BY <3>1, <3>3 DEF PopB
      <4>3. so[id[2]] # <<"rd">>
        BY <1>1, <4>1, SoOnBus
      <4>4. so[c] = <<"rd">> => so'[c] = so[c]
        BY <4>2, <4>3 DEF CoreTypes
      <4> QED
        BY <1>2, <2>1, <4>4
    <3> QED
      BY <3>2, <3>3
  <2> QED
    BY <2>2, <2>3
<1>12. CASE NcqArGrant
  <2>1. /\ raq # <<>> /\ raq' = Tail(raq) /\ bus_rd' = bus_rd \cup {raq[1]} /\ so' = so
        /\ 1 \in DOMAIN raq
    BY <1>12, RaqTail DEF NcqArGrant
  <2>2. ASSUME NEW i \in DOMAIN raq', raq'[i] = SoRd(c)
        PROVE  /\ so'[c] = <<"rd">> /\ SoRd(c) \notin bus_rd'
               /\ \A j \in DOMAIN raq' : raq'[j] = raq'[i] => i = j
    <3>1. /\ i + 1 \in DOMAIN raq /\ raq'[i] = raq[i + 1] /\ i + 1 # 1
          /\ \A j \in DOMAIN raq' : j + 1 \in DOMAIN raq /\ raq'[j] = raq[j + 1]
          /\ \A j \in DOMAIN raq' : i + 1 = j + 1 => i = j
      BY <2>1, RaqTail
    <3>2. /\ so[c] = <<"rd">> /\ SoRd(c) \notin bus_rd
          /\ \A j \in DOMAIN raq : raq[j] = raq[i + 1] => i + 1 = j
      BY <1>1, <2>2, <3>1 DEF SoReads
    <3>3. raq[1] # raq[i + 1]
      BY <2>1, <3>1, <3>2
    <3> QED
      BY <2>1, <2>2, <3>1, <3>2, <3>3
  <2>3. SoRd(c) \in bus_rd' => so'[c] = <<"rd">>
    BY <1>1, <2>1 DEF SoReads
  <2> QED
    BY <2>2, <2>3 DEF SoReads
<1>13. ASSUME NEW r \in bus_rd, BusR(r) PROVE SoReads(c)'
  <2>1. /\ raq' = raq /\ bus_rd' = bus_rd \ {r}
        /\ so' = IF r.kind = "so" THEN [so EXCEPT ![r.addr] = Tail(so[r.addr])] ELSE so
    BY <1>13 DEF BusR
  <2>2. CASE r = SoRd(c)
    <3>1. \A i \in DOMAIN raq : raq[i] # SoRd(c)
      BY <1>1, <2>2 DEF SoReads
    <3> QED
      BY <2>1, <2>2, <3>1 DEF SoReads
  <2>3. CASE r # SoRd(c)
    <3>1. ~(r.kind = "so" /\ r.addr = c)
      BY <2>3, BusRdTypes
    <3>2. so'[c] = so[c]
      BY <2>1, <3>1 DEF CoreTypes
    <3> QED
      BY <1>1, <2>1, <2>3, <3>2 DEF SoReads
  <2> QED
    BY <2>2, <2>3
<1>14. ASSUME NEW b \in BANK, EbiuifArGrant(b) PROVE SoReads(c)'
  <2> DEFINE r == [kind |-> "line", addr |-> ebiu_ar_buf[b]]
  <2>1. UNCHANGED <<raq, so>> /\ bus_rd' = bus_rd \cup {r}
    BY <1>14 DEF EbiuifArGrant
  <2>2. r # SoRd(c)
    BY DEF SoRd
  <2> HIDE DEF r
  <2> QED
    BY <1>1, <2>1, <2>2 DEF SoReads
<1>15. CASE NcqBWo
  BY <1>2, <1>15, BWoFacts
<1> QED
  BY <1>2, <1>3, <1>4, <1>5, <1>6, <1>7, <1>8, <1>9, <1>10, <1>11, <1>12, <1>13, <1>14,
     <1>15, CoreSteps

\* A failed exclusive write whose data are due is the only one of its core.
LEMMA GrantedFacts ==
  ASSUME CoreTypes, NcqOrder
  PROVE  /\ GrantedNcq \in Nat /\ Len(waq) \in Nat /\ Len(woq_ncq) = GrantedNcq + Len(waq)
         /\ \A i \in 1 .. GrantedNcq : i \in 1 .. Len(woq_ncq) /\ woq_ncq[i] \in NcqWr
         /\ \A v, w \in NcqWr : v.kind = w.kind /\ v.addr = w.addr => v = w
         /\ \A v \in NcqWr : v.kind = "fail" => v.addr \in CORE
<1>1. waq \in Seq(NcqWr) /\ woq_ncq \in Seq(NcqWr)
  BY DEF CoreTypes
<1>2. Len(waq) \in Nat /\ Len(woq_ncq) \in Nat
  BY <1>1
<1>3. GrantedNcq \in Nat /\ Len(woq_ncq) = GrantedNcq + Len(waq)
  BY <1>2 DEF NcqOrder, GrantedNcq
<1>4. \A i \in 1 .. GrantedNcq : i \in 1 .. Len(woq_ncq)
  BY <1>2, <1>3
<1>5. \A i \in 1 .. GrantedNcq : woq_ncq[i] \in NcqWr
  BY <1>1, <1>4, ElementOfSeq
<1>6. \A v, w \in NcqWr : v.kind = w.kind /\ v.addr = w.addr => v = w
  BY DEF NcqWr
<1>7. \A v \in NcqWr : v.kind = "fail" => v.addr \in CORE
  BY DEF NcqWr
<1> QED
  BY <1>2, <1>3, <1>4, <1>5, <1>6, <1>7

LEMMA FailedSame ==
  ASSUME CoreTypes, NcqOrder, FailedOne, GrantedNcq' = GrantedNcq,
         \A i \in 1 .. GrantedNcq : woq_ncq'[i] = woq_ncq[i],
         \A c \in CORE : so_ex_fail[c] = "WFD" => so_ex_fail'[c] = "WFD"
  PROVE  FailedOne'
BY GrantedFacts DEF FailedOne

LEMMA GrantedSame ==
  ASSUME CoreTypes, NcqOrder, UNCHANGED <<waq, woq_ncq>>
  PROVE  GrantedNcq' = GrantedNcq /\ \A i \in 1 .. GrantedNcq : woq_ncq'[i] = woq_ncq[i]
BY DEF GrantedNcq

\* The address of a write of the NCQ leaves it: its data are now due.
LEMMA GrantedTake ==
  ASSUME CoreTypes, NcqOrder, waq # <<>>, waq' = Tail(waq), UNCHANGED woq_ncq
  PROVE  /\ GrantedNcq' = GrantedNcq + 1 /\ GrantedNcq \in Nat
         /\ woq_ncq[GrantedNcq + 1] = waq[1]
         /\ \A i \in 1 .. GrantedNcq + 1 : i \in 1 .. GrantedNcq \/ i = GrantedNcq + 1
<1>1. waq \in Seq(NcqWr)
  BY DEF CoreTypes
<1>2. Len(waq') = Len(waq) - 1 /\ Len(waq) \in Nat /\ 1 \in DOMAIN waq
  BY <1>1, SeqTail
<1>3. GrantedNcq \in Nat /\ Len(woq_ncq) = GrantedNcq + Len(waq)
  BY GrantedFacts
<1>4. GrantedNcq' = GrantedNcq + 1
  BY <1>2, <1>3 DEF GrantedNcq
<1> QED
  BY <1>2, <1>3, <1>4 DEF NcqOrder

\* At most one failed exclusive write of a core has its data due in the NCQ.
LEMMA FailedOneStep ==
  ASSUME Types, Order, IdInv, SoInv, Next
  PROVE  FailedOne'
<1> USE DEF Types
<1>1. FailedOne /\ NcqOrder /\ SoOne
  BY DEF SoInv, Order
<1>2. ASSUME UNCHANGED <<waq, woq_ncq>>,
             \A c \in CORE : so_ex_fail[c] = "WFD" => so_ex_fail'[c] = "WFD"
      PROVE  FailedOne'
  BY <1>1, <1>2, GrantedSame, FailedSame
<1>3. ASSUME NEW w \in NcqWr, NcqWrite(w) PROVE FailedOne'
  <2>1. /\ waq' = Append(waq, w) /\ woq_ncq' = Append(woq_ncq, w) /\ UNCHANGED so_ex_fail
        /\ waq \in Seq(NcqWr) /\ woq_ncq \in Seq(NcqWr)
    BY <1>3 DEF NcqWrite, sos, CoreTypes
  <2>2. /\ Len(waq') = Len(waq) + 1 /\ Len(woq_ncq') = Len(woq_ncq) + 1
        /\ Len(waq) \in Nat /\ Len(woq_ncq) \in Nat
        /\ \A i \in 1 .. Len(woq_ncq) : woq_ncq'[i] = woq_ncq[i]
    BY <2>1, SeqAppend
  <2>3. GrantedNcq' = GrantedNcq
    BY <2>2 DEF GrantedNcq
  <2>4. \A i \in 1 .. GrantedNcq : woq_ncq'[i] = woq_ncq[i]
    BY <1>1, <2>2, GrantedFacts
  <2> QED
    BY <1>1, <2>1, <2>3, <2>4, FailedSame
<1>4. ASSUME NEW a \in WO, WoWrite(a) PROVE FailedOne'
  <2>1. [addr |-> a, kind |-> "wo"] \in NcqWr
    BY DEF NcqWr
  <2> QED
    BY <1>3, <1>4, <2>1 DEF WoWrite
<1>5. ASSUME NEW c \in CORE, NEW fail \in BOOLEAN, SoWrite(c, fail) PROVE FailedOne'
  <2>1. [addr |-> c, kind |-> IF fail THEN "fail" ELSE "so"] \in NcqWr
    BY DEF NcqWr
  <2> QED
    BY <1>3, <1>5, <2>1 DEF SoWrite
<1>6. CASE NcqWoAwGrant
  <2>1. /\ waq # <<>> /\ waq' = Tail(waq) /\ UNCHANGED <<woq_ncq, so_ex_fail>>
        /\ waq[1].kind = "wo"
    BY <1>6, WoGrant
  <2> QED
    BY <1>1, <2>1, GrantedTake DEF FailedOne
<1>7. CASE NcqSoAwGrant
  <2> DEFINE c == waq[1].addr
             n == GrantedNcq
  <2>1. /\ c \in CORE /\ waq # <<>> /\ waq' = Tail(waq) /\ UNCHANGED woq_ncq
        /\ \/ /\ waq[1].kind = "fail" /\ so_ex_fail[c] = "IDLE"
              /\ so_ex_fail' = [so_ex_fail EXCEPT ![c] = "WFD"]
           \/ waq[1].kind = "so" /\ UNCHANGED so_ex_fail
    BY <1>7, SoGrant
  <2>2. /\ n' = n + 1 /\ n \in Nat /\ woq_ncq[n + 1] = waq[1]
        /\ \A i \in 1 .. n + 1 : i \in 1 .. n \/ i = n + 1
    BY <1>1, <2>1, GrantedTake
  <2>3. CASE waq[1].kind = "so" /\ UNCHANGED so_ex_fail
    BY <1>1, <2>1, <2>2, <2>3 DEF FailedOne
  <2>4. CASE waq[1].kind = "fail" /\ so_ex_fail[c] = "IDLE"
             /\ so_ex_fail' = [so_ex_fail EXCEPT ![c] = "WFD"]
    <3>1. \A d \in CORE : so_ex_fail'[d] = IF d = c THEN "WFD" ELSE so_ex_fail[d]
      BY <2>1, <2>4 DEF TableTypes
    <3>2. \A i \in 1 .. n : woq_ncq[i].kind = "fail" =>
            woq_ncq[i].addr # c /\ woq_ncq[i].addr \in CORE
      BY <1>1, <2>4, GrantedFacts DEF FailedOne
    <3>3. \A i \in 1 .. n : woq_ncq[i].kind = "fail" => woq_ncq[i] # woq_ncq[n + 1]
      BY <2>2, <3>2
    <3> HIDE DEF n, c
    <3>4. ASSUME NEW i \in 1 .. n + 1, woq_ncq[i].kind = "fail"
          PROVE  /\ so_ex_fail'[woq_ncq[i].addr] = "WFD"
                 /\ \A j \in 1 .. n + 1 : woq_ncq[j] = woq_ncq[i] => i = j
      <4>1. CASE i \in 1 .. n
        <5>1. so_ex_fail[woq_ncq[i].addr] = "WFD" /\ \A j \in 1 .. n : woq_ncq[j] = woq_ncq[i] => i = j
          BY <1>1, <3>4, <4>1 DEF FailedOne, n
        <5>2. so_ex_fail'[woq_ncq[i].addr] = "WFD"
          BY <3>1, <3>2, <3>4, <4>1, <5>1
        <5>3. \A j \in 1 .. n + 1 : woq_ncq[j] = woq_ncq[i] => i = j
          BY <2>2, <3>3, <3>4, <4>1, <5>1
        <5> QED
          BY <5>2, <5>3
      <4>2. CASE i = n + 1
        <5>1. woq_ncq[i].addr = c
          BY <2>2, <4>2 DEF c
        <5>2. so_ex_fail'[c] = "WFD"
          BY <2>1, <3>1
        <5>3. \A j \in 1 .. n + 1 : woq_ncq[j] = woq_ncq[i] => i = j
          BY <2>2, <3>3, <3>4, <4>2
        <5> QED
          BY <5>1, <5>2, <5>3
      <4> QED
        BY <2>2, <4>1, <4>2
    <3> QED
      BY <2>1, <2>2, <3>4 DEF FailedOne, n
  <2> QED
    BY <2>1, <2>3, <2>4
<1>8. CASE NcqWGrant
  <2> DEFINE n == GrantedNcq
  <2>1. /\ woq_ncq # <<>> /\ woq_ncq' = Tail(woq_ncq) /\ UNCHANGED waq /\ n > 0 /\ n \in Nat
        /\ woq_ncq[1].kind \in {"wo", "so"} => UNCHANGED so_ex_fail
        /\ woq_ncq[1].kind = "fail" =>
             /\ woq_ncq[1].addr \in CORE
             /\ so_ex_fail' = [so_ex_fail EXCEPT ![woq_ncq[1].addr] = "BVLD"]
        /\ woq_ncq[1].kind \in {"wo", "so", "fail"}
    BY <1>1, <1>8, NcqDataFacts, FailedHead
  <2>2. /\ Len(woq_ncq') = Len(woq_ncq) - 1 /\ Len(woq_ncq) = n + Len(waq) /\ Len(waq) \in Nat
        /\ \A i \in 1 .. Len(woq_ncq) - 1 : woq_ncq'[i] = woq_ncq[i + 1]
    BY <1>1, <2>1, SeqTail, GrantedFacts DEF CoreTypes
  <2>3. n' = n - 1
    BY <2>1, <2>2 DEF GrantedNcq
  <2>4. \A i \in 1 .. n - 1 : i + 1 \in 1 .. n /\ i + 1 # 1 /\ woq_ncq'[i] = woq_ncq[i + 1]
    BY <2>1, <2>2
  <2>5. 1 \in 1 .. n
    BY <2>1
  <2> HIDE DEF n
  <2>6. ASSUME NEW i \in 1 .. n - 1, woq_ncq'[i].kind = "fail"
        PROVE  /\ so_ex_fail'[woq_ncq'[i].addr] = "WFD"
               /\ \A j \in 1 .. n - 1 : woq_ncq'[j] = woq_ncq'[i] => i = j
    <3>1. /\ so_ex_fail[woq_ncq[i + 1].addr] = "WFD"
          /\ \A j \in 1 .. n : woq_ncq[j] = woq_ncq[i + 1] => i + 1 = j
      BY <1>1, <2>4, <2>6 DEF FailedOne, n
    <3>2. \A j \in 1 .. n - 1 : i + 1 = j + 1 => i = j
      BY <2>1
    <3>3. woq_ncq[1] # woq_ncq[i + 1]
      BY <2>4, <2>5, <3>1
    <3>4. woq_ncq[1] \in NcqWr /\ woq_ncq[i + 1] \in NcqWr /\ woq_ncq[i + 1].addr \in CORE
      BY <1>1, <2>4, <2>5, <2>6, GrantedFacts DEF n
    <3>5. woq_ncq[1].kind = "fail" => woq_ncq[1].addr # woq_ncq[i + 1].addr
      BY <1>1, <2>4, <2>6, <3>3, <3>4, GrantedFacts
    <3>6. so_ex_fail'[woq_ncq[i + 1].addr] = "WFD"
      BY <2>1, <3>1, <3>4, <3>5 DEF TableTypes
    <3> QED
      BY <2>4, <3>1, <3>2, <3>6
  <2> QED
    BY <2>3, <2>6 DEF FailedOne, n
<1>9. ASSUME NEW c \in CORE, NcqBExFail(c) PROVE FailedOne'
  <2>1. /\ so_ex_fail[c] = "BVLD" /\ so_ex_fail' = [so_ex_fail EXCEPT ![c] = "IDLE"]
        /\ UNCHANGED <<waq, woq_ncq>>
    BY <1>9 DEF NcqBExFail, ncq
  <2>2. \A d \in CORE : so_ex_fail[d] = "WFD" => so_ex_fail'[d] = "WFD"
    BY <2>1 DEF TableTypes
  <2> QED
    BY <1>2, <2>1, <2>2
<1>10. ASSUME NEW a \in WO, WoRead(a) PROVE FailedOne'
  BY <1>2, <1>10 DEF WoRead, NcqRead, ncq, sos
<1>11. ASSUME NEW c \in CORE, SoRead(c) PROVE FailedOne'
  BY <1>2, <1>11 DEF SoRead, NcqRead, ncq, sos
<1>12. ASSUME NEW give \in 0 .. Len(bus_wr), NEW grant \in BOOLEAN, BClock(give, grant)
       PROVE  FailedOne'
  BY <1>2, <1>12, PopFacts
<1>13. ASSUME NEW b \in BANK, EbiuifArGrant(b) PROVE FailedOne'
  BY <1>2, <1>13 DEF EbiuifArGrant, ncq, sos
<1>14. CASE NcqArGrant
  BY <1>2, <1>14 DEF NcqArGrant, ncq, sos
<1>15. ASSUME NEW r \in bus_rd, BusR(r) PROVE FailedOne'
  BY <1>2, <1>15 DEF BusR, ncq, sos
<1>16. CASE NcqBWo
  BY <1>2, <1>16, BWoFacts
<1>17. CASE UNCHANGED <<wo, so, waq, woq_ncq, raq, bus_rd, ncwt, so_bus_cnt, so_ex_fail>>
  BY <1>2, <1>17
<1> QED
  BY <1>4, <1>5, <1>6, <1>7, <1>8, <1>9, <1>10, <1>11, <1>12, <1>13, <1>14, <1>15, <1>16,
     <1>17, CoreSteps

-----------------------------------------------------------------------------
(***************************************************************************)
(* Reads of what is written, and the data of a write.                      *)
(***************************************************************************)

\* The kind of an address says what kind of id its writes have.
LEMMA IdOfAddress ==
  ASSUME BusTypes, TableTypes, IdInv, NEW y \in Ids
  PROVE  /\ y[2] \in LINE => \E k \in CawtIx : y[1] = <<"vb", k>> /\ cawt[k] = y[2]
         /\ y[2] \in WO => \E k \in NcwtIx : y[1] = <<"wo", k>> /\ ncwt[k].addr = y[2]
         /\ y[2] \in CORE => y[1] = <<"so", y[2]>> /\ so_bus_cnt[y[2]] > 0
<1>1. /\ y[1] \in Id /\ y[2] # NONE /\ Names(y[1], y[2]) /\ Open(y[1]) > 0
  BY OwnedFacts, IdsOpen
<1>2. CASE y[1][1] = "vb"
  <2>1. y[1][2] \in CawtIx /\ y[1] = <<"vb", y[1][2]>> /\ cawt[y[1][2]] = y[2]
    BY <1>1, <1>2, IdKinds DEF Names
  <2>2. y[2] \in LINE
    BY <1>1, <2>1 DEF TableTypes
  <2> QED
    BY <2>1, <2>2, AddressAssumption
<1>3. CASE y[1][1] = "wo"
  <2>1. y[1][2] \in NcwtIx /\ y[1] = <<"wo", y[1][2]>> /\ ncwt[y[1][2]].addr = y[2]
    BY <1>1, <1>3, IdKinds DEF Names
  <2>2. y[2] \in WO
    BY <1>1, <2>1 DEF TableTypes, NcwtEntry
  <2> QED
    BY <2>1, <2>2, AddressAssumption
<1>4. CASE y[1][1] = "so"
  <2>1. y[2] \in CORE /\ y[1] = <<"so", y[2]>>
    BY <1>1, <1>4, IdKinds DEF Names
  <2>2. so_bus_cnt[y[2]] > 0
    BY <1>1, <2>1 DEF IdInv, Opened
  <2> QED
    BY <2>1, <2>2, AddressAssumption
<1> QED
  BY <1>1, <1>2, <1>3, <1>4, IdKinds

LEMMA ReadKinds ==
  ASSUME ReadTypes, NEW r \in bus_rd
  PROVE  /\ r.addr \in LINE => r.kind = "line"
         /\ r.addr \in WO => r.kind = "wo"
         /\ r.addr \in CORE => r.kind = "so" /\ r = SoRd(r.addr)
BY BusRdTypes, AddressAssumption

Written(a) == (\E v \in VID : vb[v].aw = a) \/ (\E y \in Ids : y[2] = a)

LEMMA SecondOf ==
  ASSUME NEW S, NEW a
  PROVE  (\E y \in {<<w.id, w.addr>> : w \in S} : y[2] = a) <=> \E w \in S : w.addr = a
<1>1. ASSUME NEW y \in {<<w.id, w.addr>> : w \in S}, y[2] = a PROVE \E w \in S : w.addr = a
  BY <1>1
<1>2. ASSUME NEW w \in S, w.addr = a
      PROVE  \E y \in {<<x.id, x.addr>> : x \in S} : y[2] = a
  <2>1. <<w.id, w.addr>> \in {<<x.id, x.addr>> : x \in S} /\ <<w.id, w.addr>>[2] = a
    BY <1>2
  <2> QED
    BY <2>1
<1> QED
  BY <1>1, <1>2

LEMMA ReadsAre ==
  ReadsFollowWrites <=> \A r \in bus_rd : ~Written(r.addr)
<1>1. \A a : (\E y \in Ids : y[2] = a) <=> \E w \in OnBus : w.addr = a
  BY SecondOf DEF Ids
<1> QED
  BY <1>1 DEF ReadsFollowWrites, Written

LEMMA ReadsNext ==
  ASSUME \A r \in bus_rd' : ~Written(r.addr)'
  PROVE  ReadsFollowWrites'
<1>1. \A a : (\E y \in Ids' : y[2] = a) <=> \E w \in OnBus' : w.addr = a
  BY SecondOf DEF Ids
<1> QED
  BY <1>1 DEF ReadsFollowWrites, Written

\* A step that writes nothing that is read and reads nothing new.
LEMMA ReadsKeep ==
  ASSUME ReadsFollowWrites, bus_rd' \subseteq bus_rd,
         \A r \in bus_rd : Written(r.addr)' => Written(r.addr)
  PROVE  ReadsFollowWrites'
<1>1. \A r \in bus_rd' : ~Written(r.addr)'
  BY ReadsAre
<1> QED
  BY <1>1, ReadsNext

\* A read that finds nothing written is added to the others.
LEMMA ReadsAdd ==
  ASSUME ReadsFollowWrites, NEW r, bus_rd' = bus_rd \cup {r}, ~Written(r.addr),
         UNCHANGED <<vb, bus_aw, bus_wr>>
  PROVE  ReadsFollowWrites'
<1>1. \A a : Written(a)' <=> Written(a)
  BY DEF Written, Ids, OnBus
<1>2. \A x \in bus_rd' : ~Written(x.addr)'
  BY <1>1, ReadsAre
<1> QED
  BY <1>2, ReadsNext

LEMMA WrittenSteps ==
  ASSUME Next
  PROVE  \/ UNCHANGED <<vb, bus_aw, bus_wr>> /\ bus_rd' \subseteq bus_rd
         \/ \E l \in LINE : L2Victim(l)
         \/ \E b \in BANK : VbAwGrant(b) \/ VbWGrant(b) \/ EbiuifArGrant(b)
         \/ EbiuVbAwGrant \/ NcqWoAwGrant \/ NcqSoAwGrant \/ EbiuVbWGrant \/ NcqWGrant
         \/ NcqArGrant
         \/ \E give \in 0 .. Len(bus_wr), grant \in BOOLEAN : BClock(give, grant)
<1> USE DEF snb, ncq, nct, sos, cat, wbus, rds, bch
<1>1. CASE Ask
  BY <1>1 DEF Ask, SnbWrite, SnbRead, WoWrite, WoRead, SoWrite, SoRead, NcqWrite, NcqRead
<1>2. ASSUME NEW r \in bus_rd, BusR(r)
      PROVE  UNCHANGED <<vb, bus_aw, bus_wr>> /\ bus_rd' \subseteq bus_rd
  BY <1>2 DEF BusR
<1>3. CASE NcqBWo
  BY <1>3 DEF NcqBWo
<1>4. ASSUME NEW c \in CORE, NcqBExFail(c)
      PROVE  UNCHANGED <<vb, bus_aw, bus_wr>> /\ bus_rd' \subseteq bus_rd
  BY <1>4 DEF NcqBExFail
<1>5. CASE Serve
  BY <1>2, <1>3, <1>4, <1>5 DEF Serve
<1> QED
  BY <1>1, <1>5 DEF Next

\* Nothing reads a line that is being written, or that no access is under way to.
LEMMA LineNotRead ==
  ASSUME ReadTypes, LineReads, NEW l \in LINE, line[l] # "rd", NEW r \in bus_rd
  PROVE  r.addr # l
BY ReadKinds DEF LineReads

\* A read under way finds all earlier writes of its address in memory.
LEMMA ReadsStep ==
  ASSUME Types, VbRing, LineWrites, LineReads, Order, IdInv, WoOne, SoInv, ReadsFollowWrites,
         Next
  PROVE  ReadsFollowWrites'
<1> USE DEF Types
<1>0. vb \in [VID -> VbEntry]
  BY DEF LineTypes
<1>1. ASSUME NEW b \in BANK, VbAwGrant(b) PROVE ReadsFollowWrites'
  <2> DEFINE c == vb_ptr.create
             l == ebiu_aw_buf[b]
  <2>1. /\ l \in LINE /\ l # NONE /\ c \in VID
        /\ vb' = [vb EXCEPT ![c] = [aw |-> l, en |-> TRUE, w |-> vb[c].w]]
    BY <1>1, VbCreate
  <2>2. line[l] = "wr" /\ UNCHANGED <<bus_rd, bus_aw, bus_wr>>
    BY <1>1, <2>1 DEF LineWrites, VbAwGrant, rds, wbus
  <2>3. \A r \in bus_rd : r.addr # l
    BY <2>1, <2>2, LineNotRead
  <2> HIDE DEF c, l
  <2>4. \A v \in VID : vb'[v].aw = IF v = c THEN l ELSE vb[v].aw
    BY <1>0, <2>1
  <2>5. \A r \in bus_rd : Written(r.addr)' => Written(r.addr)
    BY <2>2, <2>3, <2>4 DEF Written, Ids, OnBus
  <2> QED
    BY <2>2, <2>5, ReadsKeep
<1>2. ASSUME NEW l \in LINE, L2Victim(l) PROVE ReadsFollowWrites'
  <2> DEFINE c == vb_ptr.create
  <2>1. /\ c \in VID /\ vb' = [vb EXCEPT ![c] = [aw |-> l, en |-> TRUE, w |-> l]]
        /\ line[l] = NONE /\ UNCHANGED <<bus_rd, bus_aw, bus_wr>>
    BY <1>2, VbVictim DEF L2Victim, rds, wbus
  <2>2. \A r \in bus_rd : r.addr # l
    BY <2>1, LineNotRead, SizeAssumption
  <2> HIDE DEF c
  <2>3. \A v \in VID : vb'[v].aw = IF v = c THEN l ELSE vb[v].aw
    BY <1>0, <2>1
  <2>4. \A r \in bus_rd : Written(r.addr)' => Written(r.addr)
    BY <2>1, <2>2, <2>3 DEF Written, Ids, OnBus
  <2> QED
    BY <2>1, <2>4, ReadsKeep
<1>3. ASSUME NEW b \in BANK, VbWGrant(b) PROVE ReadsFollowWrites'
  <2> DEFINE s == Head(ebiu_sel_fifo[b])
  <2>1. /\ s.vid \in VID /\ UNCHANGED <<bus_rd, bus_aw, bus_wr>>
        /\ vb' = [vb EXCEPT ![s.vid] = [aw |-> vb[s.vid].aw, en |-> vb[s.vid].en, w |-> s.line]]
    BY <1>3, VbData DEF VbWGrant, rds, wbus
  <2> HIDE DEF s
  <2>2. \A v \in VID : vb'[v].aw = vb[v].aw
    BY <1>0, <2>1
  <2>3. \A r \in bus_rd : Written(r.addr)' => Written(r.addr)
    BY <2>1, <2>2 DEF Written, Ids, OnBus
  <2> QED
    BY <2>1, <2>3, ReadsKeep
<1>4. CASE EbiuVbAwGrant
  <2> DEFINE v == vb_ptr.req
             id == <<"vb", cawt_create_ptr>>
  <2>1. /\ v \in VID
        /\ vb' = [vb EXCEPT ![v] = [aw |-> vb[v].aw, en |-> FALSE, w |-> vb[v].w]]
    BY <1>4, VbAsk
  <2>2. /\ bus_aw' = Append(bus_aw, [id |-> id, addr |-> vb[v].aw])
        /\ UNCHANGED <<bus_rd, bus_wr, bfifo>>
    BY <1>4 DEF EbiuVbAwGrant, CreateWr, rds, bch
  <2> HIDE DEF v, id
  <2>3. Ids' \subseteq Ids \cup {<<id, vb[v].aw>>}
    BY <2>2, OpenCreate
  <2>4. \A u \in VID : vb'[u].aw = vb[u].aw
    BY <1>0, <2>1
  <2>5. \A r \in bus_rd : Written(r.addr)' => Written(r.addr)
    BY <2>1, <2>3, <2>4 DEF Written
  <2> QED
    BY <2>2, <2>5, ReadsKeep
<1>5. CASE NcqWoAwGrant
  <2> DEFINE id == <<"wo", ncwt_ptr.create>>
             a == waq[1].addr
  <2>1. /\ a \in WO /\ waq # <<>> /\ waq[1].kind = "wo" /\ CreateWr("ncq", TRUE, id, a)
        /\ UNCHANGED <<vb, bus_rd, bus_wr, bfifo>>
    BY <1>5, WoGrant
  <2>2. wo[a] = "wr"
    BY <2>1, NcqHeads DEF WoOne, WoWrites
  <2>3. \A r \in bus_rd : r.addr # a
    BY <2>1, <2>2, ReadKinds DEF WoOne, WoReads
  <2>4. bus_aw' = Append(bus_aw, [id |-> id, addr |-> a])
    BY <2>1 DEF CreateWr
  <2> HIDE DEF id, a
  <2>5. Ids' \subseteq Ids \cup {<<id, a>>}
    BY <2>1, <2>4, OpenCreate
  <2>6. \A r \in bus_rd : Written(r.addr)' => Written(r.addr)
    BY <2>1, <2>3, <2>5 DEF Written
  <2> QED
    BY <2>1, <2>6, ReadsKeep
<1>6. CASE NcqSoAwGrant
  <2> DEFINE c == waq[1].addr
             id == <<"so", c>>
  <2>1. /\ c \in CORE /\ waq # <<>> /\ UNCHANGED <<vb, bus_rd, bus_wr, bfifo>>
        /\ CreateWr("ncq", TRUE, id, c) \/ CreateWr("ncq", FALSE, id, c)
    BY <1>6, SoGrant DEF rds, bch, CreateWr
  <2>2. \A r \in bus_rd : r.addr # c
    <3>1. ASSUME NEW r \in bus_rd, r.addr = c PROVE FALSE
      <4>1. r = SoRd(c)
        BY <2>1, <3>1, ReadKinds
      <4>2. so[c] = <<"rd">>
        BY <2>1, <4>1 DEF SoInv, SoOne, SoReads
      <4>3. WaitingSo(c) = {}
        BY <2>1, <4>2 DEF SoInv, SoOne, SoOrder
      <4> QED
        BY <2>1, <4>3, NcqHeads DEF WaitingSo
    <3> QED
      BY <3>1
  <2>3. bus_aw' = Append(bus_aw, [id |-> id, addr |-> c]) \/ bus_aw' = bus_aw
    BY <2>1 DEF CreateWr
  <2> HIDE DEF id, c
  <2>4. Ids' \subseteq Ids \cup {<<id, c>>}
    <3>1. CASE bus_aw' = bus_aw
      BY <2>1, <3>1 DEF Ids, OnBus
    <3>2. CASE bus_aw' = Append(bus_aw, [id |-> id, addr |-> c])
      BY <2>1, <3>2, OpenCreate
    <3> QED
      BY <2>3, <3>1, <3>2
  <2>5. \A r \in bus_rd : Written(r.addr)' => Written(r.addr)
    BY <2>1, <2>2, <2>4 DEF Written
  <2> QED
    BY <2>1, <2>5, ReadsKeep
<1>7. CASE EbiuVbWGrant
  <2> DEFINE v == vb_ptr.pop
  <2>1. /\ v \in VID /\ vb' = [vb EXCEPT ![v] = EmptyVB] /\ vb[v].w # NONE /\ vb[v].w = vb[v].aw
    BY <1>7, VbPop DEF VbRing
  <2>2. /\ w_source("vb") /\ woq # <<>> /\ TakeData(vb[v].w) /\ UNCHANGED <<bus_rd, bfifo>>
    BY <1>7 DEF EbiuVbWGrant, w_source, rds, bch
  <2>3. Ids' \subseteq Ids
    BY <2>2, HeadFromVb, OpenData
  <2> HIDE DEF v
  <2>4. \A u \in VID : vb'[u].aw = vb[u].aw \/ vb'[u].aw = NONE
    BY <1>0, <2>1 DEF EmptyVB
  <2>5. \A r \in bus_rd : r.addr # NONE
    BY BusRdTypes, SizeAssumption
  <2>6. \A r \in bus_rd : Written(r.addr)' => Written(r.addr)
    BY <2>3, <2>4, <2>5 DEF Written
  <2> QED
    BY <2>2, <2>6, ReadsKeep
<1>8. CASE NcqWGrant
  <2>1. /\ w_source("ncq") /\ woq # <<>> /\ TakeData(Head(woq_ncq).addr)
        /\ UNCHANGED <<vb, bus_rd, bfifo>>
    BY <1>8, NcqDataFacts
  <2>2. Ids' \subseteq Ids
    BY <2>1, HeadFromNcq, OpenData
  <2>3. \A r \in bus_rd : Written(r.addr)' => Written(r.addr)
    BY <2>1, <2>2 DEF Written
  <2> QED
    BY <2>1, <2>3, ReadsKeep
<1>9. ASSUME NEW give \in 0 .. Len(bus_wr), NEW grant \in BOOLEAN, BClock(give, grant)
      PROVE  ReadsFollowWrites'
  <2>1. Ids' \subseteq Ids /\ UNCHANGED <<vb, bus_rd>>
    BY <1>9, OpenClock, PopFacts
  <2>2. \A r \in bus_rd : Written(r.addr)' => Written(r.addr)
    BY <2>1 DEF Written
  <2> QED
    BY <2>1, <2>2, ReadsKeep
<1>10. ASSUME NEW b \in BANK, EbiuifArGrant(b) PROVE ReadsFollowWrites'
  <2> DEFINE l == ebiu_ar_buf[b]
  <2>1. /\ l \in LINE /\ l # NONE /\ UNCHANGED <<vb, bus_aw, bus_wr>>
        /\ bus_rd' = bus_rd \cup {[kind |-> "line", addr |-> l]}
        /\ ~vb_ebiuif_addr_depd(l) /\ ~ca_hit_cawt(l)
    BY <1>10 DEF EbiuifArGrant, ReadTypes, wbus
  <2>2. \A v \in VID : vb[v].aw # l
    BY <2>1 DEF vb_ebiuif_addr_depd, SameIndex
  <2>3. \A k \in CawtIx : cawt[k] # l
    BY <2>1 DEF ca_hit_cawt, SameIndex, TableTypes
  <2> HIDE DEF l
  <2>4. \A y \in Ids : y[2] # l
    BY <2>1, <2>3, IdOfAddress
  <2>5. PICK r : r = [kind |-> "line", addr |-> l]
    OBVIOUS
  <2>6. r.addr = l
    BY <2>5
  <2>7. ~Written(r.addr)
    BY <2>2, <2>4, <2>6 DEF Written
  <2> QED
    BY <2>1, <2>5, <2>7, ReadsAdd
<1>11. CASE NcqArGrant
  <2>1. /\ raq # <<>> /\ 1 \in DOMAIN raq /\ Head(raq) = raq[1] /\ raq' = Tail(raq)
        /\ bus_rd' = bus_rd \cup {raq[1]} /\ UNCHANGED <<vb, bus_aw, bus_wr>>
        /\ raq[1].kind = "wo" => ~nc_depd_ncwt(raq[1].addr)
        /\ raq[1].kind = "so" => ~ncq_so_vld(raq[1].addr)
    BY <1>11, RaqTail DEF NcqArGrant, wbus
  <2>2. PICK r : r = raq[1]
    OBVIOUS
  <2>3. \/ r.kind = "wo" /\ r.addr \in WO
        \/ r.kind = "so" /\ r.addr \in CORE
    BY <2>1, <2>2, RaqTypes DEF NcqRd
  <2>4. \A v \in VID : vb[v].aw # r.addr
    BY <1>0, <2>3, AddressAssumption, SizeAssumption DEF VbEntry
  <2>5. ASSUME NEW y \in Ids, y[2] = r.addr PROVE FALSE
    <3>1. CASE r.kind = "wo" /\ r.addr \in WO
      <4>1. \A k \in NcwtIx : ncwt[k].addr # r.addr
        BY <2>1, <2>2, <3>1, SizeAssumption DEF nc_depd_ncwt, SameIndex, TableTypes
      <4> QED
        BY <2>5, <3>1, <4>1, IdOfAddress
    <3>2. CASE r.kind = "so" /\ r.addr \in CORE
      <4>1. so_bus_cnt[r.addr] = 0
        BY <2>1, <2>2, <3>2 DEF ncq_so_vld
      <4> QED
        BY <2>5, <3>2, <4>1, IdOfAddress
    <3> QED
      BY <2>3, <3>1, <3>2
  <2>6. ~Written(r.addr)
    BY <2>4, <2>5 DEF Written
  <2> QED
    BY <2>1, <2>2, <2>6, ReadsAdd
<1>12. CASE UNCHANGED <<vb, bus_aw, bus_wr>> /\ bus_rd' \subseteq bus_rd
  <2>1. \A r \in bus_rd : Written(r.addr)' => Written(r.addr)
    BY <1>12 DEF Written, Ids, OnBus
  <2> QED
    BY <1>12, <2>1, ReadsKeep
<1> QED
  BY <1>1, <1>2, <1>3, <1>4, <1>5, <1>6, <1>7, <1>8, <1>9, <1>10, <1>11, <1>12, WrittenSteps

LEMMA DataTaken ==
  ASSUME BusTypes, DataMeetsAddress, NEW d, TakeData(d),
         Head(woq).issue => bus_aw # <<>> /\ bus_aw[1].addr = d
  PROVE  DataMeetsAddress'
<1>1. CASE ~Head(woq).issue
  BY <1>1 DEF TakeData, wbus, DataMeetsAddress
<1>2. CASE Head(woq).issue
  <2> DEFINE n == Len(bus_wr)
             r == [id |-> Head(bus_aw).id, addr |-> Head(bus_aw).addr, data |-> d]
  <2>1. Head(bus_aw) = bus_aw[1] /\ bus_aw[1].addr = d
    BY <1>2 DEF BusTypes
  <2>2. r.addr = d /\ r.data = d
    BY <2>1
  <2>3. bus_wr' = Append(bus_wr, r)
    BY <1>2 DEF TakeData
  <2> HIDE DEF r
  <2>4. /\ DOMAIN bus_wr' = 1 .. n + 1 /\ DOMAIN bus_wr = 1 .. n /\ n \in Nat
        /\ bus_wr'[n + 1] = r /\ \A i \in 1 .. n : bus_wr'[i] = bus_wr[i]
    BY <2>3 DEF BusTypes
  <2>5. \A i \in 1 .. n + 1 : i \in 1 .. n \/ i = n + 1
    BY <2>4
  <2> QED
    BY <2>2, <2>4, <2>5 DEF DataMeetsAddress
<1> QED
  BY <1>1, <1>2

\* The data of each write follow its own address onto the bus.
LEMMA DataMeetsStep ==
  ASSUME Types, VbRing, Order, DataMeetsAddress, Next
  PROVE  DataMeetsAddress'
<1> USE DEF Types
<1>1. CASE EbiuVbWGrant
  <2>1. /\ vb[vb_ptr.pop].w = vb[vb_ptr.pop].aw /\ w_source("vb")
        /\ TakeData(vb[vb_ptr.pop].w)
    BY <1>1, VbPop DEF VbRing, EbiuVbWGrant
  <2>2. bus_aw # <<>> /\ bus_aw[1].addr = vb[vb_ptr.pop].w
    BY <2>1, HeadFromVb
  <2> QED
    BY <2>1, <2>2, DataTaken
<1>2. CASE NcqWGrant
  <2>1. w_source("ncq") /\ TakeData(Head(woq_ncq).addr)
    BY <1>2, NcqDataFacts
  <2>2. Head(woq).issue => bus_aw # <<>> /\ bus_aw[1].addr = Head(woq_ncq).addr
    BY <2>1, HeadFromNcq
  <2> QED
    BY <2>1, <2>2, DataTaken
<1>3. ASSUME NEW give \in 0 .. Len(bus_wr), NEW grant \in BOOLEAN, BClock(give, grant)
      PROVE  DataMeetsAddress'
  <2>1. bus_wr' = IF give # 0 THEN Without(bus_wr, give) ELSE bus_wr
    BY <1>3 DEF BClock
  <2>2. CASE give = 0
    BY <2>1, <2>2 DEF DataMeetsAddress
  <2>3. CASE give # 0
    <3>1. give \in 1 .. Len(bus_wr) /\ bus_wr \in Seq([id : Id, addr : Address, data : Address])
      BY <2>3, BusIndices DEF BusTypes
    <3>2. /\ bus_wr' \in Seq([id : Id, addr : Address, data : Address])
          /\ Len(bus_wr') = Len(bus_wr) - 1
          /\ \A i \in 1 .. Len(bus_wr) - 1 :
               bus_wr'[i] = IF i < give THEN bus_wr[i] ELSE bus_wr[i + 1]
      BY <2>1, <2>3, <3>1, WithoutFacts
    <3>3. DOMAIN bus_wr' = 1 .. Len(bus_wr) - 1
      BY <3>2
    <3>4. \A i \in 1 .. Len(bus_wr) - 1 : i \in DOMAIN bus_wr /\ i + 1 \in DOMAIN bus_wr
      BY <3>1
    <3> QED
      BY <3>2, <3>3, <3>4 DEF DataMeetsAddress
  <2> QED
    BY <2>2, <2>3
<1>4. ASSUME UNCHANGED bus_wr PROVE DataMeetsAddress'
  BY <1>4 DEF DataMeetsAddress
<1>5. CASE EbiuVbAwGrant \/ NcqWoAwGrant \/ NcqSoAwGrant
  BY <1>4, <1>5 DEF EbiuVbAwGrant, NcqWoAwGrant, NcqSoAwGrant, CreateWr
<1>6. CASE NcqBWo \/ \E c \in CORE : NcqBExFail(c)
  BY <1>4, <1>6 DEF NcqBWo, NcqBExFail, wbus
<1> QED
  BY <1>1, <1>2, <1>3, <1>4, <1>5, <1>6, TableSteps

-----------------------------------------------------------------------------
(***************************************************************************)
(* The invariant.                                                          *)
(***************************************************************************)
LEMMA InitTypes ==
  ASSUME Init
  PROVE  Types
<1>1. \A S : <<>> \in Seq(S)
  OBVIOUS
<1>2. EmptyVB \in VbEntry
  BY DEF EmptyVB, VbEntry
<1>3. EmptyNCWT \in NcwtEntry
  BY DEF EmptyNCWT, NcwtEntry
<1>4. 0 \in CawtIx /\ 0 \in NcwtIx
  BY SizeAssumption DEF CawtIx, NcwtIx
<1>5. LineTypes
  BY <1>1, <1>2 DEF Init, LineTypes, VID
<1>6. CoreTypes
  BY <1>1 DEF Init, CoreTypes
<1>7. ReadTypes
  BY <1>1 DEF Init, ReadTypes
<1>8. TableTypes
  <2> HIDE DEF CawtIx, NcwtIx
  <2> QED
    BY <1>3, <1>4 DEF Init, TableTypes, CawtIx, NcwtIx
<1>9. BusTypes
  BY <1>1 DEF Init, BusTypes
<1> QED
  BY <1>5, <1>6, <1>7, <1>8, <1>9 DEF Types

LEMMA InitEmpty ==
  ASSUME Init
  PROVE  /\ DOMAIN waq = {} /\ DOMAIN woq_ncq = {} /\ DOMAIN raq = {} /\ DOMAIN woq = {}
         /\ DOMAIN bfifo = {} /\ DOMAIN bus_aw = {} /\ DOMAIN bus_wr = {} /\ bus_rd = {}
         /\ Len(waq) = 0 /\ Len(woq_ncq) = 0 /\ Len(bfifo) = 0 /\ Len(bus_aw) = 0
         /\ \A b \in BANK : DOMAIN ebiu_sel_fifo[b] = {} /\ Len(ebiu_sel_fifo[b]) = 0
                            /\ ebiu_aw_buf[b] = NONE /\ ebiu_ar_buf[b] = NONE
         /\ \A v \in VID : vb[v].aw = NONE /\ ~vb[v].en /\ vb[v].w = NONE
         /\ vb_ptr = [create |-> 0, req |-> 0, pop |-> 0]
         /\ \A k \in CawtIx : cawt[k] = NONE
         /\ \A k \in NcwtIx : ncwt[k].addr = NONE
         /\ \A c \in CORE : so[c] = <<>> /\ Len(so[c]) = 0 /\ so_bus_cnt[c] = 0
                            /\ so_ex_fail[c] = "IDLE"
         /\ Ids = {} /\ OnBus = {}
<1>1. DOMAIN <<>> = {} /\ Len(<<>>) = 0
  OBVIOUS
<1>2. /\ waq = <<>> /\ woq_ncq = <<>> /\ raq = <<>> /\ woq = <<>> /\ bfifo = <<>>
      /\ bus_aw = <<>> /\ bus_wr = <<>> /\ bus_rd = {}
      /\ vb_ptr = [create |-> 0, req |-> 0, pop |-> 0]
  BY DEF Init
<1>3. \A b \in BANK : ebiu_sel_fifo[b] = <<>> /\ ebiu_aw_buf[b] = NONE /\ ebiu_ar_buf[b] = NONE
  BY DEF Init
<1>4. \A v \in VID : vb[v].aw = NONE /\ ~vb[v].en /\ vb[v].w = NONE
  BY DEF Init, EmptyVB
<1>5. (\A k \in CawtIx : cawt[k] = NONE) /\ \A k \in NcwtIx : ncwt[k].addr = NONE
  BY DEF Init, EmptyNCWT, CawtIx, NcwtIx
<1>6. \A c \in CORE : so[c] = <<>> /\ so_bus_cnt[c] = 0 /\ so_ex_fail[c] = "IDLE"
  BY DEF Init
<1>7. OnBus = {} /\ Ids = {}
  BY <1>1, <1>2 DEF OnBus, Ids
<1> QED
  BY <1>1, <1>2, <1>3, <1>4, <1>5, <1>6, <1>7

LEMMA InitOrder ==
  ASSUME Init
  PROVE  Order
<1>1. AskedVb = 0 /\ GrantedNcq = 0 /\ NcqOrder
  BY InitEmpty DEF AskedVb, GrantedNcq, NcqOrder, Asked, VID
<1>2. FromVb = {} /\ FromNcq = {} /\ Issued = {}
  BY InitEmpty DEF FromVb, FromNcq, Issued
<1>3. PICK q : q = [i \in {} |-> i]
  OBVIOUS
<1>4. \A S : q \in [{} -> S]
  BY <1>3
<1>5. Ranks({}, 0, q)
  BY <1>3 DEF Ranks
<1>6. Merge(q, q, q)
  BY <1>1, <1>2, <1>5, InitEmpty DEF Merge
<1> QED
  BY <1>1, <1>2, <1>4, <1>6 DEF Order

LEMMA InitSo ==
  ASSUME Init, NEW c \in CORE
  PROVE  SoOrder(c) /\ SoReads(c)
<1>1. Past(c) = 0 /\ WaitingSo(c) = {} /\ Len(so[c]) = 0 /\ so_bus_cnt[c] = 0
      /\ so_ex_fail[c] = "IDLE"
  BY InitEmpty DEF Past, WaitingSo
<1>2. PICK q : q = [i \in {} |-> i]
  OBVIOUS
<1>3. Ranks({}, 0, q) /\ \A S : q \in [{} -> S]
  BY <1>2 DEF Ranks
<1>4. \E p \in [WaitingSo(c) -> 1 .. Len(so[c]) - Past(c)] :
        /\ Ranks(WaitingSo(c), Len(so[c]) - Past(c), p)
        /\ \A i \in WaitingSo(c) : waq[i].kind = WaqKind(so[c][Past(c) + p[i]])
  BY <1>1, <1>3
<1>5. SoWrites(c)
  <2>1. Past(c) <= Len(so[c]) /\ \A i \in 1 .. so_bus_cnt[c] : so[c][i] = "wr"
    BY <1>1
  <2>2. so_ex_fail[c] # "IDLE" => so_bus_cnt[c] = 0 /\ so[c][1] = "fail"
    BY <1>1
  <2> QED
    BY <1>4, <2>1, <2>2, Zenon DEF SoWrites
<1>6. SoReads(c)
  BY InitEmpty DEF SoReads
<1> QED
  BY <1>1, <1>5, <1>6 DEF SoOrder

LEMMA InitInv ==
  ASSUME Init
  PROVE  IInv
<1>1. VbRing
  BY InitEmpty, VidFacts DEF VbRing, Occupied, Asked
<1>2. Named
  BY InitEmpty DEF Named, NamedSome, NamedRight, NamedOnce, Waits
<1>3. LineWrites /\ LineReads
  BY InitEmpty DEF LineWrites, LineReads
<1>4. IdInv
  <2>1. \A x : Open(x) = 0
    <3>1. \A x : InAw(x) = {} /\ InWr(x) = {} /\ InB(x) = {}
      BY InitEmpty DEF InAw, InWr, InB
    <3> QED
      BY <3>1, FS_EmptySet DEF Open
  <2>2. Opened
    BY <2>1, InitEmpty DEF Opened
  <2>3. Owned /\ OneEntry
    BY InitEmpty DEF Owned, OneEntry
  <2> QED
    BY <2>2, <2>3 DEF IdInv
<1>5. BfifoInv
  BY InitEmpty DEF BfifoInv, BfifoRoom
<1>6. WoOne
  <2>1. \A a \in WO : ~Unanswered(a)
    BY InitEmpty, SizeAssumption DEF Unanswered
  <2> QED
    BY <2>1, InitEmpty DEF WoOne, WoWrites, WoReads
<1>7. SoInv
  <2>1. FailedOne
    BY InitEmpty DEF FailedOne, GrantedNcq
  <2> QED
    BY <2>1, InitSo DEF SoInv, SoOne
<1>8. ReadsFollowWrites /\ DataMeetsAddress
  BY InitEmpty DEF ReadsFollowWrites, DataMeetsAddress
<1> QED
  BY <1>1, <1>2, <1>3, <1>4, <1>5, <1>6, <1>7, <1>8, InitTypes, InitOrder DEF IInv

LEMMA TypesStep ==
  ASSUME IInv, Next
  PROVE  Types'
BY LineTypesStep, CoreTypesStep, ReadTypesStep, TableTypesStep, BusTypesStep
   DEF IInv, IdInv, SoInv, Types

LEMMA InvStep ==
  ASSUME IInv, Next
  PROVE  IInv'
<1>1. /\ Types /\ VbRing /\ Named /\ LineWrites /\ LineReads /\ Order /\ IdInv /\ BfifoInv
      /\ WoOne /\ SoInv /\ ReadsFollowWrites /\ DataMeetsAddress
  BY DEF IInv
<1>2. SoOne
  BY <1>1 DEF SoInv
<1>3. Types'
  BY TypesStep
<1>4. VbRing'
  <2>1. EbiuVbWGrant => Asked(vb_ptr.pop)
    BY <1>1, HeadFromVb DEF EbiuVbWGrant, Types
  <2> QED
    BY <1>1, <2>1, RingStep
<1>5. Named' /\ LineWrites' /\ LineReads'
  BY <1>1, NamedStep, LineWritesStep, LineReadsStep
<1>6. Order'
  BY <1>1, OrderStep
<1>7. IdInv'
  BY <1>1, IdStep
<1>8. BfifoInv'
  BY <1>1, BusTypesStep
<1>9. WoOne'
  <2>1. WoWrites' /\ WoReads'
    BY <1>1, <1>2, WoWritesStep, WoReadsStep
  <2> QED
    BY <2>1 DEF WoOne
<1>10. SoInv'
  <2>1. \A c \in CORE : SoOrder(c)' /\ SoReads(c)'
    BY <1>1, SoOrderStep, SoReadsStep
  <2>2. FailedOne'
    BY <1>1, FailedOneStep
  <2> QED
    BY <2>1, <2>2 DEF SoInv, SoOne
<1>11. ReadsFollowWrites'
  BY <1>1, ReadsStep
<1>12. DataMeetsAddress'
  BY <1>1, DataMeetsStep
<1> QED
  BY <1>3, <1>4, <1>5, <1>6, <1>7, <1>8, <1>9, <1>10, <1>11, <1>12 DEF IInv

LEMMA Stutter ==
  ASSUME IInv, UNCHANGED vars
  PROVE  IInv'
<1>1. /\ Types /\ VbRing /\ Named /\ LineWrites /\ LineReads /\ Order /\ IdInv /\ BfifoInv
      /\ WoOne /\ SoInv /\ ReadsFollowWrites /\ DataMeetsAddress
  BY DEF IInv
<1>2. UNCHANGED <<line, wo, so, ebiu_aw_buf, ebiu_sel_fifo, ebiu_ar_buf, vb, vb_ptr, waq,
                  woq_ncq, raq, woq, cawt, cawt_create_ptr, ncwt, ncwt_ptr, so_bus_cnt,
                  so_ex_fail, bfifo, bready, bus_aw, bus_wr, bus_rd>>
  BY DEF vars, snb, ncq, nct, sos, cat, wbus, rds, bch
<1>3. Types'
  BY <1>1, <1>2 DEF Types, LineTypes, CoreTypes, ReadTypes, TableTypes, BusTypes
<1>4. VbRing' /\ Named' /\ LineWrites' /\ LineReads'
  BY <1>1, <1>2 DEF VbRing, Occupied, Asked, Named, NamedSome, NamedRight, NamedOnce, Waits,
                    LineWrites, LineReads
<1>5. Order'
  BY <1>1, <1>2, OrderSame DEF Types, Asked
<1>6. IdInv'
  <2>1. Ids' \subseteq Ids /\ \A x : Open(x)' = Open(x)
    BY <1>2 DEF Ids, OnBus, Open, InAw, InWr, InB
  <2> QED
    BY <1>1, <1>2, <2>1, IdSame DEF Types
<1>7. BfifoInv' /\ DataMeetsAddress' /\ ReadsFollowWrites'
  BY <1>1, <1>2 DEF BfifoInv, BfifoRoom, DataMeetsAddress, ReadsFollowWrites, OnBus
<1>8. WoOne'
  BY <1>1, <1>2 DEF WoOne, WoWrites, WoReads, Unanswered
<1>9. SoInv'
  <2>1. ASSUME NEW c \in CORE PROVE SoOrder(c)' /\ SoReads(c)'
    <3>1. SoOrder(c) /\ SoReads(c)
      BY <1>1 DEF SoInv, SoOne
    <3>2. SoOrder(c)'
      BY <1>1, <1>2, <3>1, SoOrderSame DEF Types
    <3> QED
      BY <1>2, <3>1, <3>2 DEF SoReads
  <2>2. FailedOne'
    BY <1>1, <1>2 DEF SoInv, FailedOne, GrantedNcq
  <2> QED
    BY <2>1, <2>2 DEF SoInv, SoOne
<1> QED
  BY <1>3, <1>4, <1>5, <1>6, <1>7, <1>8, <1>9 DEF IInv

\* Every reachable state satisfies the inductive invariant.
THEOREM ExternalBusInvariant == Spec => []IInv
<1>1. IInv /\ [Next]_vars => IInv'
  BY InvStep, Stutter
<1> QED
  BY <1>1, InitInv, PTL DEF Spec

-----------------------------------------------------------------------------
(***************************************************************************)
(* What the invariant means for the properties.                            *)
(***************************************************************************)
\* A read the bus may answer finds every earlier write of its address in memory:
\* the comparisons with the VB, cawt and ncwt and the counters of the SO writes,
\* made when the read is sent, hold until it is answered.
THEOREM ReadsFindWrites == Spec => []ReadsFollowWrites
<1>1. IInv => ReadsFollowWrites
  BY DEF IInv
<1> QED
  BY <1>1, ExternalBusInvariant, PTL

\* The data on the bus are those of the write whose address they follow.
THEOREM DataFollowAddress == Spec => []DataMeetsAddress
<1>1. IInv => DataMeetsAddress
  BY DEF IInv
<1> QED
  BY <1>1, ExternalBusInvariant, PTL

\* A response never meets a full bfifo.
THEOREM ResponseHasRoom == Spec => []BfifoRoom
<1>1. IInv => BfifoRoom
  BY DEF IInv, BfifoInv
<1> QED
  BY <1>1, ExternalBusInvariant, PTL

LEMMA OneIdInv ==
  ASSUME IInv
  PROVE  WritesKeepOrder
<1>1. BusTypes /\ TableTypes /\ IdInv
  BY DEF IInv, Types
<1>2. ASSUME NEW w \in OnBus, NEW x \in OnBus, w.addr = x.addr PROVE w.id = x.id
  <2>1. PICK y \in Ids : y = <<w.id, w.addr>>
    BY DEF Ids
  <2>2. PICK z \in Ids : z = <<x.id, x.addr>>
    BY DEF Ids
  <2>3. y[1] = w.id /\ z[1] = x.id /\ y[2] = z[2]
    BY <1>2, <2>1, <2>2
  <2>4. y[2] \in LINE \cup WO \cup CORE /\ y[2] # NONE
    BY <1>1, OwnedFacts DEF Address
  <2>5. CASE y[2] \in LINE
    <3>1. PICK j \in CawtIx : y[1] = <<"vb", j>> /\ cawt[j] = y[2]
      BY <1>1, <2>5, IdOfAddress
    <3>2. PICK k \in CawtIx : z[1] = <<"vb", k>> /\ cawt[k] = z[2]
      BY <1>1, <2>3, <2>5, IdOfAddress
    <3>3. j = k
      BY <1>1, <2>3, <2>4, <3>1, <3>2 DEF IdInv, OneEntry
    <3> QED
      BY <2>3, <3>1, <3>2, <3>3
  <2>6. CASE y[2] \in WO
    <3>1. PICK j \in NcwtIx : y[1] = <<"wo", j>> /\ ncwt[j].addr = y[2]
      BY <1>1, <2>6, IdOfAddress
    <3>2. PICK k \in NcwtIx : z[1] = <<"wo", k>> /\ ncwt[k].addr = z[2]
      BY <1>1, <2>3, <2>6, IdOfAddress
    <3>3. j = k
      BY <1>1, <2>3, <2>4, <3>1, <3>2 DEF IdInv, OneEntry
    <3> QED
      BY <2>3, <3>1, <3>2, <3>3
  <2>7. CASE y[2] \in CORE
    BY <1>1, <2>3, <2>7, IdOfAddress
  <2> QED
    BY <2>4, <2>5, <2>6, <2>7
<1> QED
  BY <1>2 DEF WritesKeepOrder

\* Two writes of one address are on the bus together only under one id.
THEOREM OneIdPerAddress == Spec => []WritesKeepOrder
BY OneIdInv, ExternalBusInvariant, PTL

LEMMA VbDueInv ==
  ASSUME IInv
  PROVE  VbDataComes
<1> DEFINE sel == ebiu_sel_fifo
<1>1. /\ NamedSome /\ NamedRight /\ NamedOnce /\ \A b \in BANK : Len(sel[b]) <= 2
      /\ \A b \in BANK : sel[b] \in Seq(Select)
  BY DEF IInv, Named, LineWrites, Types, LineTypes
<1>2. ASSUME NEW b \in BANK, NEW i \in DOMAIN sel[b]
      PROVE  i \in {1, 2} /\ sel[b][i].vid \in VID /\ sel[b][i].line # NONE
  <2>1. sel[b] \in Seq(Select) /\ Len(sel[b]) <= 2 /\ DOMAIN sel[b] = 1 .. Len(sel[b])
    BY <1>1
  <2>2. Len(sel[b]) \in Nat
    BY <2>1
  <2>3. i \in {1, 2}
    <3>1. \A n \in Nat : n <= 2 => 1 .. n \subseteq {1, 2}
      OBVIOUS
    <3> QED
      BY <2>1, <2>2, <3>1
  <2>4. sel[b][i] \in Select
    BY <2>1, ElementOfSeq
  <2> QED
    BY <2>3, <2>4, SizeAssumption DEF Select
<1>3. ASSUME NEW v \in VID, NEW x \in Due(v)
      PROVE  /\ x[1] \in BANK /\ x[2] \in DOMAIN sel[x[1]] /\ x = <<x[1], x[2]>>
             /\ sel[x[1]][x[2]].vid = v /\ Waits(v)
             /\ sel[x[1]][x[2]].line = vb[v].aw
  <2>1. /\ x[1] \in BANK /\ x[2] \in DOMAIN sel[x[1]] /\ x = <<x[1], x[2]>>
        /\ sel[x[1]][x[2]].vid = v
    BY DEF Due
  <2>2. vb[v].w = NONE /\ sel[x[1]][x[2]].line = vb[v].aw
    BY <1>1, <2>1 DEF NamedRight
  <2>3. sel[x[1]][x[2]].line # NONE
    BY <1>2, <2>1
  <2> QED
    BY <2>1, <2>2, <2>3 DEF Waits
<1>4. ASSUME NEW v \in VID
      PROVE  Cardinality(Due(v)) = IF vb[v].aw # NONE /\ vb[v].w = NONE THEN 1 ELSE 0
  <2>1. CASE ~Waits(v)
    <3>1. Due(v) = {}
      BY <1>3, <2>1
    <3> QED
      BY <2>1, <3>1, FS_EmptySet DEF Waits
  <2>2. CASE Waits(v)
    <3>1. PICK b \in BANK : \E i \in DOMAIN sel[b] : sel[b][i].vid = v
      BY <1>1, <2>2 DEF NamedSome
    <3>2. PICK i \in DOMAIN sel[b] : sel[b][i].vid = v
      BY <3>1
    <3>3. PICK e : e = <<b, i>>
      OBVIOUS
    <3>4. e \in Due(v)
      BY <1>2, <3>2, <3>3 DEF Due
    <3>5. ASSUME NEW x \in Due(v) PROVE x = e
      <4>1. x[1] = b /\ x[2] = i
        BY <1>1, <1>3, <3>2 DEF NamedOnce
      <4> QED
        BY <1>3, <3>3, <4>1
    <3>6. Due(v) = {e}
      BY <3>4, <3>5
    <3> QED
      BY <2>2, <3>6, FS_Singleton DEF Waits
  <2> QED
    BY <2>1, <2>2
<1> QED
  BY <1>3, <1>4 DEF VbDataComes

\* An entry of the VB that waits for data is named by exactly one write whose
\* data a bank has to send, and an entry with its data, or without a line, by none.
THEOREM VbDataNamed == Spec => []VbDataComes
BY VbDueInv, ExternalBusInvariant, PTL

LEMMA OnBusOnce ==
  ASSUME BusTypes, NEW id, Cardinality(InAw(id)) + Cardinality(InWr(id)) <= 1
  PROVE  Cardinality({w \in OnBus : w.id = id}) = Cardinality(InAw(id)) + Cardinality(InWr(id))
<1> DEFINE S == {w \in OnBus : w.id = id}
<1>1. /\ IsFiniteSet(InAw(id)) /\ Cardinality(InAw(id)) \in Nat
      /\ IsFiniteSet(InWr(id)) /\ Cardinality(InWr(id)) \in Nat
  BY OpenType
<1>2. S = {bus_wr[i] : i \in InWr(id)} \cup {bus_aw[i] : i \in InAw(id)}
  BY DEF OnBus, InAw, InWr
<1>3. CASE InAw(id) = {} /\ InWr(id) = {}
  <2>1. S = {}
    BY <1>2, <1>3
  <2> QED
    BY <1>3, <2>1, FS_EmptySet
<1>4. CASE InAw(id) # {}
  <2>1. Cardinality(InAw(id)) = 1 /\ Cardinality(InWr(id)) = 0
    <3>1. Cardinality(InAw(id)) # 0
      BY <1>1, <1>4, FS_EmptySet
    <3> QED
      BY <1>1, <3>1
  <2>2. InWr(id) = {}
    BY <1>1, <2>1, FS_EmptySet
  <2>3. PICK i : InAw(id) = {i}
    BY <1>1, <2>1, FS_Singleton
  <2>4. S = {bus_aw[i]}
    BY <1>2, <2>2, <2>3
  <2>5. Cardinality({bus_aw[i]}) = 1
    BY FS_Singleton
  <2>6. Cardinality(S) = 1
    BY <2>4, <2>5, Zenon
  <2> QED
    BY <2>1, <2>6
<1>5. CASE InWr(id) # {}
  <2>1. Cardinality(InWr(id)) = 1 /\ Cardinality(InAw(id)) = 0
    <3>1. Cardinality(InWr(id)) # 0
      BY <1>1, <1>5, FS_EmptySet
    <3> QED
      BY <1>1, <3>1
  <2>2. InAw(id) = {}
    BY <1>1, <2>1, FS_EmptySet
  <2>3. PICK i : InWr(id) = {i}
    BY <1>1, <2>1, FS_Singleton
  <2>4. S = {bus_wr[i]}
    BY <1>2, <2>2, <2>3
  <2>5. Cardinality({bus_wr[i]}) = 1
    BY FS_Singleton
  <2>6. Cardinality(S) = 1
    BY <2>4, <2>5, Zenon
  <2> QED
    BY <2>1, <2>6
<1> QED
  BY <1>3, <1>4, <1>5

LEMMA OwnIdInv ==
  ASSUME IInv
  PROVE  IdIsOwn
<1>1. BusTypes /\ TableTypes /\ IdInv /\ Opened
  BY DEF IInv, Types, IdInv
<1>2. ASSUME NEW w \in OnBus
      PROVE  /\ w.id[1] = "vb" => cawt[w.id[2]] = w.addr
             /\ w.id[1] = "wo" => ncwt[w.id[2]].addr = w.addr
  <2>1. PICK y \in Ids : y = <<w.id, w.addr>>
    BY DEF Ids
  <2>2. Names(y[1], y[2])
    BY <1>1, OwnedFacts
  <2>3. y[1] = w.id /\ y[2] = w.addr
    BY <2>1
  <2> QED
    BY <2>2, <2>3 DEF Names
<1>3. ASSUME NEW k \in DOMAIN cawt, cawt[k] # NONE
      PROVE  Cardinality({w \in OnBus : w.id = <<"vb", k>>})
               + Cardinality({i \in DOMAIN bfifo : bfifo[i] = <<"vb", k>>}) = 1
  <2>1. PICK id : id = <<"vb", k>>
    OBVIOUS
  <2>2. Open(id) = 1
    BY <1>1, <1>3, <2>1 DEF Opened, TableTypes
  <2>3. /\ Cardinality(InAw(id)) + Cardinality(InWr(id)) + Cardinality(InB(id)) = 1
        /\ Cardinality(InAw(id)) \in Nat /\ Cardinality(InWr(id)) \in Nat
        /\ Cardinality(InB(id)) \in Nat
    BY <1>1, <2>2, OpenType DEF Open
  <2>4. Cardinality(InAw(id)) + Cardinality(InWr(id)) <= 1
    BY <2>3
  <2>5. Cardinality({w \in OnBus : w.id = id}) = Cardinality(InAw(id)) + Cardinality(InWr(id))
    BY <1>1, <2>4, OnBusOnce
  <2>6. InB(id) = {i \in DOMAIN bfifo : bfifo[i] = <<"vb", k>>}
    BY <2>1 DEF InB
  <2> QED
    BY <2>1, <2>3, <2>5, <2>6
<1> QED
  BY <1>2, <1>3 DEF IdIsOwn

\* An id on the bus names the entry of its own write, and every entry of cawt has
\* exactly one write or response under way.
THEOREM IdNamesItsWrite == Spec => []IdIsOwn
BY OwnIdInv, ExternalBusInvariant, PTL

LEMMA SoAnswersInv ==
  ASSUME IInv
  PROVE  SoAnswersInOrder
<1>1. BusTypes /\ CoreTypes /\ TableTypes /\ Opened /\ SoOne
  BY DEF IInv, Types, IdInv, SoInv
<1>2. ASSUME NEW c \in CORE, so_ex_fail[c] = "BVLD"
      PROVE  so[c] # <<>> /\ Head(so[c]) = "fail"
  <2>1. /\ so[c] \in Seq({"wr", "fail", "rd"}) /\ so[c] # <<>> /\ so[c][1] = "fail"
    BY <1>1, <1>2, SoFailed
  <2> QED
    BY <2>1
<1>3. ASSUME NEW c \in CORE, <<"so", c>> \in {bfifo[i] : i \in DOMAIN bfifo}
      PROVE  so[c] # <<>> /\ Head(so[c]) = "wr"
  <2>1. PICK i \in DOMAIN bfifo : bfifo[i] = <<"so", c>>
    BY <1>3
  <2>2. InB(<<"so", c>>) # {}
    BY <2>1 DEF InB
  <2>3. Open(<<"so", c>>) > 0
    BY <1>1, <2>2, OpenType
  <2>4. so_bus_cnt[c] > 0
    BY <1>1, <2>3 DEF Opened
  <2>5. so[c] \in Seq({"wr", "fail", "rd"}) /\ so[c] # <<>> /\ so[c][1] = "wr"
    BY <1>1, <2>4, SoOnBus
  <2> QED
    BY <2>5
<1> QED
  BY <1>2, <1>3 DEF SoAnswersInOrder

\* An SO answer is for the oldest request of its core, whether the bus gives it or
\* the EBIU for an exclusive write that failed.
THEOREM SoAnswersOrdered == Spec => []SoAnswersInOrder
BY SoAnswersInv, ExternalBusInvariant, PTL
=============================================================================
