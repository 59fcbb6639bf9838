------------------------- MODULE SnoopBuffer_proofs -------------------------
(***************************************************************************)
(* Proofs about SnoopBuffer for any number of cores, lines, entries and    *)
(* ways: its types, that no entries of the SAB wait for each other, which  *)
(* entries act at a time, and what the cores and their requests may rely   *)
(* on.  What this is worth for the copies and their data is the subject of *)
(* Coherence_proofs.                                                       *)
(***************************************************************************)
EXTENDS SnoopBuffer, OrderFacts, TLAPS

(***************************************************************************)
(* What the entries, the ways, the victim buffers and the requests hold    *)
(* when they are in use.  The types are inductive only together with this. *)
(***************************************************************************)
EntryShape(e) ==
  /\ e.st = "IDLE" => e.kind = "none" /\ e.depd = {} /\ e.older = {}
  /\ e.st # "IDLE" => e.kind # "none" /\ e.line \in LINE
  /\ e.kind \in ReadKind \cup WriteKind => e.mid \in CORE
  /\ ~e.snpl2_done => e.st = "IDLE" \/ rd_alct(e)

Entries == sab \in [SID -> EntryType] /\ \A s \in SID : EntryShape(sab[s])

Ways ==
  /\ l2 \in [WAY -> WayType]
  /\ \A w \in WAY : l2[w].vld => l2[w].tag \in LINE

LineInL1 == [st : {"I", "S", "E", "M"}, new : BOOLEAN]
Level1 == l1 \in [CORE -> [LINE -> LineInL1]]

VBType == [st : {"none", "hold", "sent", "sab"}, kind : WriteKind \cup {"none"},
           line : LINE \cup {NONE}, new : BOOLEAN]
VictimBuffers ==
  /\ vb \in [CORE -> VBType]
  /\ \A c \in CORE :
       vb[c].st # "none" => vb[c].kind \in WriteKind /\ vb[c].line \in LINE

ReqType == [kind : ReadKind \cup {"none"}, line : LINE \cup {NONE},
            sent : BOOLEAN, stored : BOOLEAN]
Requests ==
  /\ req \in [CORE -> ReqType]
  /\ \A c \in CORE : req[c].kind # "none" => req[c].line \in LINE

Rest ==
  /\ Ways /\ rplc \in WAY /\ mem \in [LINE -> BOOLEAN]
  /\ Level1 /\ VictimBuffers /\ Requests

TypeInv == Entries /\ Rest

(***************************************************************************)
(* The order of the entries.  Their ages are a strict total order; writes  *)
(* wait for older writes, snoops of the L2 for writes, and reads for older *)
(* entries and for writes of any age.                                      *)
(***************************************************************************)
AgeOrder ==
  /\ \A s \in Valid : sab[s].older \subseteq Valid \ {s}
  /\ \A s, t \in Valid : s # t => (s \in sab[t].older \/ t \in sab[s].older)
  /\ \A s, t, u \in Valid : s \in sab[t].older /\ t \in sab[u].older
                              => s \in sab[u].older

WaitOrder ==
  \A s \in Valid :
    /\ sab[s].depd \subseteq WnsEntries \cup sab[s].older
    /\ sab[s].kind \in WriteKind => sab[s].depd \subseteq WnsEntries \cap sab[s].older
    /\ snpl2(sab[s]) => sab[s].depd \subseteq WnsEntries

OrderInv == TypeInv /\ AgeOrder /\ WaitOrder

(***************************************************************************)
(* Most steps keep what the order is made of: an entry goes on, but keeps  *)
(* its request, the entries it waits for and those that are older.         *)
(***************************************************************************)
Keeps(e, f) ==
  /\ f \in EntryType
  /\ f.kind = e.kind /\ f.line = e.line /\ f.mid = e.mid
  /\ f.depd = e.depd /\ f.older = e.older
  /\ f.st = "IDLE" <=> e.st = "IDLE"
  /\ f.snpl2_done \/ ~e.snpl2_done \/ rd_alct(e)

Quiet == sab' \in [SID -> EntryType] /\ \A s \in SID : Keeps(sab[s], sab'[s])

-----------------------------------------------------------------------------
(***************************************************************************)
(* Constants and the operators on entries.                                 *)
(***************************************************************************)

LEMMA Sizes ==
  /\ 0 \in SID /\ 0 \in WAY
  /\ SID \subseteq Nat /\ WAY \subseteq Nat
  /\ RSID \subseteq SID /\ WSID \subseteq SID /\ PiuSid \subseteq RSID
BY SizeAssumption DEF SID, RSID, WSID, WAY, PiuSid

\* A priority encoder picks one of the set.
LEMMA LowestIn ==
  ASSUME NEW S, S \subseteq Nat, S # {}
  PROVE  Lowest(S) \in S
BY LeastNat, Zenon DEF Lowest

LEMMA NextWayType ==
  ASSUME NEW w \in WAY
  PROVE  NextWay(w) \in WAY
BY SizeAssumption DEF NextWay, WAY

LEMMA KeepsRefl ==
  ASSUME NEW e \in EntryType
  PROVE  Keeps(e, e)
BY DEF Keeps

LEMMA GotoType ==
  ASSUME NEW e \in EntryType, NEW to \in MainState
  PROVE  Goto(e, to) \in EntryType
<1> DEFINE l2c_req == \/ to \in {"L2C", "L2CR", "L2CA", "L2CT"}
                      \/ to = "L2CW" /\ e.kind # "ro"
           memr == IF to = "MEMR" THEN "req" ELSE e.memr
           snpl2_done == e.snpl2_done /\ to # "L2CA"
           snp == IF to = "SNOP" THEN e.cp ELSE e.snp
           resp == IF rresp_rdy(e, to) THEN "rdy" ELSE e.resp
<1>1. l2c_req \in BOOLEAN /\ snpl2_done \in BOOLEAN
  OBVIOUS
<1>2. /\ memr \in {"idle", "req", "cmplt"} /\ snp \in SUBSET CORE
      /\ resp \in {"no", "rdy", "sent"}
  BY DEF EntryType
<1>3. Goto(e, to) = [e EXCEPT !.st = to, !.l2c_req = l2c_req, !.memr = memr,
                       !.snpl2_done = snpl2_done, !.snp = snp, !.cp = {},
                       !.resp = resp]
  BY Zenon DEF Goto
<1> HIDE DEF l2c_req, memr, snpl2_done, snp, resp
<1> QED
  BY <1>1, <1>2, <1>3, ZenonT(60) DEF EntryType

LEMMA GotoFields ==
  ASSUME NEW e \in EntryType, NEW to \in MainState
  PROVE  /\ Goto(e, to).kind = e.kind /\ Goto(e, to).line = e.line
         /\ Goto(e, to).mid = e.mid /\ Goto(e, to).depd = e.depd
         /\ Goto(e, to).older = e.older /\ Goto(e, to).st = to
         /\ Goto(e, to).snpl2_done <=> e.snpl2_done /\ to # "L2CA"
BY DEF Goto, EntryType

LEMMA GotoKeeps ==
  ASSUME NEW e \in EntryType, e.st # "IDLE",
         NEW to \in MainState, to # "IDLE", to = "L2CA" => rd_alct(e)
  PROVE  Keeps(e, Goto(e, to))
<1> DEFINE f == Goto(e, to)
<1>1. f \in EntryType
  BY GotoType
<1>2. /\ f.kind = e.kind /\ f.line = e.line /\ f.mid = e.mid
      /\ f.depd = e.depd /\ f.older = e.older /\ f.st = to
  BY GotoFields, Zenon
<1>3. f.snpl2_done \/ ~e.snpl2_done \/ to = "L2CA"
  BY GotoFields, Zenon
<1> HIDE DEF f
<1>4. Keeps(e, f)
  BY <1>1, <1>2, <1>3 DEF Keeps
<1> QED
  BY <1>4 DEF f

LEMMA NewEntryType ==
  ASSUME NEW k \in Kind, NEW l \in LINE, NEW m \in CORE \cup {NONE},
         NEW D \in SUBSET SID, NEW i \in SID
  PROVE  /\ NewEntry(k, l, m, D, i) \in EntryType
         /\ NewEntry(k, l, m, D, i).kind = k /\ NewEntry(k, l, m, D, i).line = l
         /\ NewEntry(k, l, m, D, i).mid = m /\ NewEntry(k, l, m, D, i).depd = D
         /\ NewEntry(k, l, m, D, i).older = Valid
         /\ NewEntry(k, l, m, D, i).snpl2_done
         /\ NewEntry(k, l, m, D, i).st # "IDLE"
<1> DEFINE resp == IF k = "evict" THEN "rdy" ELSE "no"
           e == [IdleEntry EXCEPT
              !.kind = k, !.line = l, !.mid = m, !.depd = D,
              !.older = Valid, !.ini = i, !.snpl2_done = TRUE, !.resp = resp]
           to == IF D # {} \/ k \in WriteKind THEN "DEPD" ELSE "L2C"
<1>1. /\ resp \in {"no", "rdy", "sent"} /\ Valid \in SUBSET SID
      /\ to \in MainState /\ to # "IDLE" /\ to # "L2CA"
  BY DEF Valid, MainState
<1>2. NewEntry(k, l, m, D, i) = Goto(e, to)
  BY Zenon DEF NewEntry
<1> HIDE DEF resp, to
<1>3. IdleEntry \in EntryType
  BY Sizes DEF IdleEntry, EntryType, MainState, Kind
<1>4. /\ e \in EntryType
      /\ e.kind = k /\ e.line = l /\ e.mid = m /\ e.depd = D
      /\ e.older = Valid /\ e.snpl2_done = TRUE
  BY <1>1, <1>3 DEF EntryType
<1> HIDE DEF e
<1>5. Goto(e, to) \in EntryType
  BY <1>1, <1>4, GotoType
<1>6. /\ Goto(e, to).kind = e.kind /\ Goto(e, to).line = e.line
      /\ Goto(e, to).mid = e.mid /\ Goto(e, to).depd = e.depd
      /\ Goto(e, to).older = e.older /\ Goto(e, to).st = to
      /\ Goto(e, to).snpl2_done <=> e.snpl2_done /\ to # "L2CA"
  BY <1>1, <1>4, GotoFields, Zenon
<1> QED
  BY <1>1, <1>2, <1>4, <1>5, <1>6

LEMMA OneEntry ==
  ASSUME Entries, NEW s \in SID, NEW f, Keeps(sab[s], f),
         sab' = [sab EXCEPT ![s] = f]
  PROVE  Quiet
BY KeepsRefl DEF Entries, Quiet, Keeps

LEMMA SameEntries ==
  ASSUME Entries, UNCHANGED sab
  PROVE  Quiet
BY KeepsRefl DEF Entries, Quiet

-----------------------------------------------------------------------------
(***************************************************************************)
(* The steps of the cores.                                                 *)
(***************************************************************************)

LEMMA IssueReadStep ==
  ASSUME TypeInv, NEW c \in CORE, NEW k \in READS, NEW l \in LINE,
         IssueRead(c, k, l)
  PROVE  Quiet /\ Rest'
<1>1. Quiet
  BY SameEntries DEF TypeInv, IssueRead
<1>2. k \in ReadKind
  BY SizeAssumption
<1>3. Requests'
  BY <1>2 DEF TypeInv, Rest, Requests, ReqType, IssueRead
<1>4. UNCHANGED <<l2, rplc, mem, l1, vb>>
  BY DEF IssueRead
<1> QED
  BY <1>1, <1>3, <1>4 DEF TypeInv, Rest, Ways, Level1, VictimBuffers

LEMMA StoreStep ==
  ASSUME TypeInv, NEW c \in CORE, NEW l \in LINE, Store(c, l)
  PROVE  Quiet /\ Rest'
<1> USE DEF TypeInv, Rest
<1>1. Quiet
  <2>1. sab' = [s \in SID |-> [sab[s] EXCEPT !.new = @ /\ sab[s].line # l]]
    BY DEF Store
  <2>2. ASSUME NEW s \in SID, NEW n \in BOOLEAN
        PROVE  Keeps(sab[s], [sab[s] EXCEPT !.new = n])
    BY SMTT(30) DEF Entries, EntryType, Keeps
  <2>3. ASSUME NEW s \in SID
        PROVE  Keeps(sab[s], [sab[s] EXCEPT !.new = @ /\ sab[s].line # l])
    <3>1. (sab[s].new /\ sab[s].line # l) \in BOOLEAN
      OBVIOUS
    <3> QED
      BY <2>2, <3>1, Zenon
  <2> QED
    BY <2>1, <2>3 DEF Quiet, Keeps
<1>2. Ways'
  <2>1. l2' = [w \in WAY |-> [l2[w] EXCEPT !.new = @ /\ l2[w].tag # l]]
    BY DEF Store
  <2> QED
    BY <2>1, ZenonT(60) DEF Ways, WayType
<1>3. Level1'
  <2>1. l1' = [d \in CORE |-> [l1[d] EXCEPT ![l] =
                 IF d = c THEN [st |-> "M", new |-> TRUE]
                 ELSE [@ EXCEPT !.new = FALSE]]]
    BY DEF Store
  <2>2. ASSUME NEW d \in CORE
        PROVE  (IF d = c THEN [st |-> "M", new |-> TRUE]
                ELSE [l1[d][l] EXCEPT !.new = FALSE]) \in LineInL1
    <3>1. l1[d][l] \in LineInL1
      BY DEF Level1
    <3> QED
      BY <3>1 DEF LineInL1
  <2>3. ASSUME NEW d \in CORE
        PROVE  l1'[d] \in [LINE -> LineInL1]
    BY <2>1, <2>2 DEF Level1
  <2> QED
    BY <2>1, <2>3 DEF Level1
<1>4. VictimBuffers'
  <2>1. vb' = [d \in CORE |-> [vb[d] EXCEPT !.new = @ /\ vb[d].line # l]]
    BY DEF Store
  <2> QED
    BY <2>1, ZenonT(60) DEF VictimBuffers, VBType
<1>5. Requests'
  <2>1. req' = [d \in CORE |-> [req[d] EXCEPT !.stored = @ \/ req[d].line = l]]
    BY DEF Store
  <2>2. ASSUME NEW r \in ReqType, NEW b \in BOOLEAN
        PROVE  LET f == [r EXCEPT !.stored = b] IN
               f \in ReqType /\ f.kind = r.kind /\ f.line = r.line
    BY DEF ReqType
  <2>3. \A d \in CORE : /\ req'[d] \in ReqType
                        /\ req'[d].kind = req[d].kind /\ req'[d].line = req[d].line
    <3> TAKE d \in CORE
    <3> DEFINE b == req[d].stored \/ req[d].line = l
    <3>1. req'[d] = [req[d] EXCEPT !.stored = b]
      BY <2>1, Zenon
    <3>2. req[d] \in ReqType /\ b \in BOOLEAN
      BY DEF Requests, ReqType
    <3> HIDE DEF b
    <3>3. LET f == [req[d] EXCEPT !.stored = b] IN
          f \in ReqType /\ f.kind = req[d].kind /\ f.line = req[d].line
      BY <2>2, <3>2
    <3> QED
      BY <3>1, <3>3, Zenon
  <2>4. req' \in [CORE -> ReqType]
    BY <2>1, <2>3
  <2> QED
    BY <2>3, <2>4 DEF Requests
<1>6. mem' \in [LINE -> BOOLEAN] /\ rplc' \in WAY
  BY DEF Store
<1> QED
  BY <1>1, <1>2, <1>3, <1>4, <1>5, <1>6

LEMMA ToVictimBufferStep ==
  ASSUME TypeInv, NEW c \in CORE, NEW l \in LINE, NEW k \in WriteKind,
         NEW copy \in LineInL1, ToVictimBuffer(c, l, k, copy)
  PROVE  Quiet /\ Rest'
<1>1. Quiet
  BY SameEntries DEF TypeInv, ToVictimBuffer
<1>2. Level1' /\ VictimBuffers'
  BY DEF TypeInv, Rest, ToVictimBuffer, Level1, LineInL1, VictimBuffers, VBType
<1>3. UNCHANGED <<l2, rplc, mem, req>>
  BY DEF ToVictimBuffer
<1> QED
  BY <1>1, <1>2, <1>3 DEF TypeInv, Rest, Ways, Requests

LEMMA CoreQuiet ==
  ASSUME TypeInv, NEW c \in CORE, CoreStep(c)
  PROVE  Quiet /\ Rest'
<1>1. ASSUME NEW l \in LINE, Replace(c, l)
      PROVE  Quiet /\ Rest'
  BY <1>1, ToVictimBufferStep DEF Replace, Invalid, LineInL1, WriteKind
<1>2. ASSUME NEW l \in LINE, CleanOwn(c, l)
      PROVE  Quiet /\ Rest'
  <2>1. [l1[c][l] EXCEPT !.st = "E"] \in LineInL1
    BY DEF TypeInv, Rest, Level1, LineInL1
  <2> QED
    BY <1>2, <2>1, ToVictimBufferStep DEF CleanOwn, WriteKind
<1>3. ASSUME NEW l \in LINE, CleanInvOwn(c, l)
      PROVE  Quiet /\ Rest'
  <2>1. Quiet
    BY <1>3, SameEntries DEF TypeInv, CleanInvOwn
  <2>2. Level1'
    BY <1>3 DEF TypeInv, Rest, CleanInvOwn, Level1, LineInL1, Invalid
  <2>3. UNCHANGED <<l2, rplc, mem, vb, req>>
    BY <1>3 DEF CleanInvOwn
  <2> QED
    BY <2>1, <2>2, <2>3 DEF TypeInv, Rest, Ways, VictimBuffers, Requests
<1>4. CASE SendAw(c)
  <2>1. Quiet
    BY <1>4, SameEntries DEF TypeInv, SendAw
  <2>2. VictimBuffers'
    BY <1>4 DEF TypeInv, Rest, SendAw, VictimBuffers, VBType
  <2>3. UNCHANGED <<l2, rplc, mem, l1, req>>
    BY <1>4 DEF SendAw
  <2> QED
    BY <2>1, <2>2, <2>3 DEF TypeInv, Rest, Ways, Level1, Requests
<1> QED
  BY <1>1, <1>2, <1>3, <1>4, IssueReadStep, StoreStep DEF CoreStep

-----------------------------------------------------------------------------
(***************************************************************************)
(* The steps of an entry that goes on.                                     *)
(***************************************************************************)

\* The entry takes its next main state, and nothing else changes.
LEMMA GotoStep ==
  ASSUME TypeInv, NEW s \in SID, NEW to \in MainState,
         sab[s].st # "IDLE", to # "IDLE", to = "L2CA" => rd_alct(sab[s]),
         sab' = [sab EXCEPT ![s] = Goto(sab[s], to)]
  PROVE  Quiet
<1>1. sab[s] \in EntryType
  BY DEF TypeInv, Entries
<1>2. Keeps(sab[s], Goto(sab[s], to))
  BY <1>1, GotoKeeps
<1> QED
  BY <1>2, OneEntry DEF TypeInv

LEMMA RestSame ==
  ASSUME TypeInv, UNCHANGED <<l2, rplc, mem, l1, vb, req>>
  PROVE  Rest'
BY DEF TypeInv, Rest, Ways, Level1, VictimBuffers, Requests

\* An entry that is in use serves a line, and a core if a core asked for it.
LEMMA InUse ==
  ASSUME TypeInv, NEW s \in SID
  PROVE  /\ sab[s] \in EntryType
         /\ sab[s].st # "IDLE" \/ sab[s].kind # "none" =>
              sab[s].st # "IDLE" /\ sab[s].kind # "none" /\ sab[s].line \in LINE
         /\ sab[s].kind \in ReadKind \cup WriteKind => sab[s].mid \in CORE
BY DEF TypeInv, Entries, EntryShape

LEMMA WriteDataStep ==
  ASSUME TypeInv, NEW s \in SID, WriteData(s)
  PROVE  Quiet /\ Rest'
<1>1. sab[s].mid \in CORE /\ sab[s] \in EntryType
  BY InUse DEF WriteData, wns, WriteKind
<1>2. vb[sab[s].mid].new \in BOOLEAN
  BY <1>1 DEF TypeInv, Rest, VictimBuffers, VBType
<1>3. sab' = [sab EXCEPT ![s] = [sab[s] EXCEPT !.wt = TRUE,
                !.new = vb[sab[s].mid].new, !.resp = "rdy"]]
  BY <1>1 DEF WriteData, TypeInv, Entries, EntryType
<1>4. Keeps(sab[s], [sab[s] EXCEPT !.wt = TRUE,
              !.new = vb[sab[s].mid].new, !.resp = "rdy"])
  BY <1>1, <1>2 DEF Keeps, EntryType
<1> QED
  BY <1>3, <1>4, OneEntry, RestSame DEF WriteData, TypeInv

LEMMA LeaveDepdStep ==
  ASSUME TypeInv, NEW s \in SID, LeaveDepd(s)
  PROVE  Quiet /\ Rest'
BY GotoStep, RestSame DEF LeaveDepd, MainState

LEMMA HitWayIn ==
  ASSUME NEW l, Hit(l) # {}
  PROVE  HitWay(l) \in WAY /\ HitWay(l) \in Hit(l)
BY DEF HitWay, Hit

LEMMA L2LookupStep ==
  ASSUME TypeInv, NEW s \in SID, L2Lookup(s)
  PROVE  Quiet /\ Rest'
<1> DEFINE e == sab[s]
           hit == Hit(e.line) # {}
           way == l2[HitWay(e.line)]
           reads == e.st = "L2CR" \/ (e.st = "L2C" /\ rd(e))
           pd == hit /\ way.dirty
           cp == IF e.st = "L2C" /\ hit THEN cp_after_mask(e, way.cp) ELSE {}
           new == IF reads /\ hit /\ ~e.l1_pd THEN way.new ELSE e.new
           f == [e EXCEPT !.l2c_req = FALSE, !.l2_hit = hit, !.l2_pd = pd,
                          !.cp = cp, !.new = new]
<1>1. e \in EntryType /\ e.st # "IDLE"
  BY DEF L2Lookup, TypeInv, Entries
<1>2. hit => way \in WayType /\ HitWay(e.line) \in WAY
  BY HitWayIn DEF TypeInv, Rest, Ways
<1>3. hit \in BOOLEAN /\ pd \in BOOLEAN /\ cp \in SUBSET CORE /\ new \in BOOLEAN
  BY <1>1, <1>2 DEF EntryType, WayType, cp_after_mask
<1>4. sab' = [sab EXCEPT ![s] = f]
  BY Zenon DEF L2Lookup
<1>5. l2' = IF e.st = "L2C" /\ hit
            THEN [l2 EXCEPT ![HitWay(e.line)].cp = @ \ clr_cp(e)] ELSE l2
  BY DEF L2Lookup
<1>6. Quiet
  <2> HIDE DEF hit, pd, cp, new, e
  <2>1. f \in EntryType
    BY <1>1, <1>3 DEF EntryType
  <2>2. /\ f.kind = e.kind /\ f.line = e.line /\ f.mid = e.mid
        /\ f.depd = e.depd /\ f.older = e.older /\ f.st = e.st
        /\ f.snpl2_done = e.snpl2_done
    BY <1>1 DEF EntryType
  <2> HIDE DEF f
  <2>3. Keeps(e, f)
    BY <2>1, <2>2 DEF Keeps
  <2> QED
    BY <1>4, <2>3, OneEntry DEF TypeInv, e
<1>7. Ways'
  <2> HIDE DEF e
  <2> QED
    BY <1>2, <1>5 DEF TypeInv, Rest, Ways, WayType
<1>8. UNCHANGED <<rplc, mem, l1, vb, req>>
  BY DEF L2Lookup
<1> QED
  BY <1>6, <1>7, <1>8 DEF TypeInv, Rest, Level1, VictimBuffers, Requests

\* What L2Write leaves in a way.
LEMMA SetCpType ==
  ASSUME NEW e, e.kind \in ReadKind \cup WriteKind => e.mid \in CORE
  PROVE  set_cp(e) \subseteq CORE
BY DEF set_cp, rd_alct, rs, ReadKind

LEMMA RefilledType ==
  ASSUME NEW e \in EntryType, e.line \in LINE,
         e.kind \in ReadKind \cup WriteKind => e.mid \in CORE
  PROVE  /\ Refilled(e) \in WayType
         /\ Refilled(e).vld => Refilled(e).tag \in LINE
<1>1. wtud(e) \in BOOLEAN /\ set_cp(e) \subseteq CORE
  BY SetCpType DEF wtud
<1>2. e.new \in BOOLEAN
  BY DEF EntryType
<1> QED
  BY <1>1, <1>2 DEF Refilled, WayType

LEMMA EmptiedType ==
  ASSUME NEW way \in WayType
  PROVE  Emptied(way) \in WayType /\ ~Emptied(way).vld
BY DEF Emptied, InvalidWay, WayType

LEMMA UpdatedType ==
  ASSUME NEW e \in EntryType, NEW way \in WayType,
         e.kind \in ReadKind \cup WriteKind => e.mid \in CORE
  PROVE  /\ Updated(e, way) \in WayType
         /\ Updated(e, way).vld = way.vld /\ Updated(e, way).tag = way.tag
<1> DEFINE d == (way.dirty \/ wtud(e)) /\ ~wtuc(e) /\ ~clean(e)
           cp == way.cp \cup set_cp(e)
           n == IF wtud(e) \/ wtuc(e) THEN e.new ELSE way.new
<1>1. d \in BOOLEAN /\ n \in BOOLEAN /\ cp \subseteq CORE
  BY SetCpType DEF EntryType, WayType
<1>2. Updated(e, way) = [way EXCEPT !.dirty = d, !.cp = cp, !.new = n]
  BY Zenon DEF Updated
<1> HIDE DEF d, cp, n
<1> QED
  BY <1>1, <1>2 DEF WayType

LEMMA L2WriteStep ==
  ASSUME TypeInv, NEW s \in SID, L2Write(s)
  PROVE  Quiet /\ Rest'
<1> DEFINE e == sab[s]
           hit == Hit(e.line) # {}
           w == IF hit THEN HitWay(e.line) ELSE Lowest(RefillWays)
           write == wtud(e) \/ wtuc(e)
           pd == hit /\ l2[w].dirty
           new == IF (clean(e) \/ (inv(e) /\ ~e.l1_pd)) /\ hit /\ l2[w].dirty
                  THEN l2[w].new ELSE e.new
<1>1. /\ e \in EntryType /\ e.st # "IDLE" /\ e.line \in LINE
      /\ e.kind \in ReadKind \cup WriteKind => e.mid \in CORE
  BY InUse, Zenon DEF L2Write
<1>2. hit \/ write => w \in WAY
  <2>1. hit => HitWay(e.line) \in WAY
    BY HitWayIn
  <2>2. RefillWays \subseteq WAY /\ RefillWays \subseteq Nat
    BY Sizes DEF RefillWays
  <2>3. ~hit /\ write => RefillWays # {}
    BY DEF L2Write
  <2> QED
    BY <2>1, <2>2, <2>3, LowestIn
<1>3. hit => l2[w] \in WayType
  BY <1>2 DEF TypeInv, Rest, Ways
<1>4. hit \in BOOLEAN /\ pd \in BOOLEAN /\ new \in BOOLEAN
  BY <1>1, <1>3 DEF EntryType, WayType
<1>6. Quiet
  <2> DEFINE f == [e EXCEPT !.l2c_req = FALSE, !.l2_hit = hit, !.l2_pd = pd, !.new = new]
             g == [e EXCEPT !.l2c_req = FALSE]
  <2>1. sab' = [sab EXCEPT ![s] = IF cml2(e) \/ snpl2(e) THEN f ELSE g]
    BY Zenon DEF L2Write
  <2> HIDE DEF hit, pd, new, e
  <2>2. f \in EntryType
    BY <1>1, <1>4 DEF EntryType
  <2>3. /\ f.kind = e.kind /\ f.line = e.line /\ f.mid = e.mid
        /\ f.depd = e.depd /\ f.older = e.older /\ f.st = e.st
        /\ f.snpl2_done = e.snpl2_done
    BY <1>1 DEF EntryType
  <2>4. Keeps(e, g)
    BY <1>1 DEF EntryType, Keeps
  <2> HIDE DEF f, g
  <2>5. Keeps(e, f)
    BY <2>2, <2>3 DEF Keeps
  <2> QED
    BY <2>1, <2>4, <2>5, OneEntry DEF TypeInv, e
<1>7. Ways'
  <2> SUFFICES ASSUME hit \/ write
               PROVE  Ways'
    BY Zenon DEF L2Write, TypeInv, Rest, Ways
  <2>1. PICK way \in WayType : /\ l2' = [l2 EXCEPT ![w] = way]
                               /\ way.vld => way.tag \in LINE
    <3>1. CASE ~hit /\ write
      <4>1. l2' = [l2 EXCEPT ![w] = Refilled(e)]
        BY <3>1, Zenon DEF L2Write
      <4> QED
        BY <1>1, <4>1, RefilledType
    <3>2. CASE hit /\ inv(e)
      <4>1. l2' = [l2 EXCEPT ![w] = Emptied(l2[w])]
        BY <3>2, Zenon DEF L2Write
      <4> QED
        BY <1>3, <3>2, <4>1, EmptiedType
    <3>3. CASE hit /\ ~inv(e)
      <4>1. l2' = [l2 EXCEPT ![w] = Updated(e, l2[w])]
        BY <3>3, Zenon DEF L2Write
      <4>2. l2[w].vld => l2[w].tag \in LINE
        BY <1>2, <3>3 DEF TypeInv, Rest, Ways
      <4>3. /\ Updated(e, l2[w]) \in WayType
            /\ Updated(e, l2[w]).vld = l2[w].vld
            /\ Updated(e, l2[w]).tag = l2[w].tag
        BY <1>1, <1>3, <3>3, UpdatedType, Zenon
      <4> HIDE DEF e, w, hit, write
      <4> QED
        BY <4>1, <4>2, <4>3, Zenon
    <3> QED
      BY <3>1, <3>2, <3>3
  <2> HIDE DEF e, w, hit, write
  <2> QED
    BY <1>2, <2>1 DEF TypeInv, Rest, Ways
<1>8. UNCHANGED <<rplc, mem, l1, vb, req>>
  BY DEF L2Write
<1> QED
  BY <1>6, <1>7, <1>8 DEF TypeInv, Rest, Level1, VictimBuffers, Requests

LEMMA LeaveL2Step ==
  ASSUME TypeInv, NEW s \in SID, LeaveL2(s)
  PROVE  Quiet /\ Rest'
<1>1. sab[s].kind \in Kind \ {"none"} /\ sab[s].st # "IDLE"
  BY InUse DEF LeaveL2, EntryType
<1>2. CASE sab[s].st = "L2C" /\ Step(s, AfterL2C(sab[s]))
  <2>1. /\ AfterL2C(sab[s]) \in MainState \ {"IDLE"}
        /\ AfterL2C(sab[s]) = "L2CA" => rd_alct(sab[s])
    BY <1>1 DEF AfterL2C, MainState, Kind, ReadKind, WriteKind, evict, cml2,
                snpl2, rd_alct, rs, wns
  <2> QED
    BY <1>1, <1>2, <2>1, GotoStep, RestSame DEF Step
<1>3. CASE \/ Step(s, "L2CW") \/ Step(s, AfterL2CW(sab[s]))
  BY <1>1, <1>3, GotoStep, RestSame DEF Step, AfterL2CW, MainState
<1> QED
  BY <1>2, <1>3 DEF LeaveL2

LEMMA LeaveSnopStep ==
  ASSUME TypeInv, NEW s \in SID, LeaveSnop(s)
  PROVE  Quiet /\ Rest'
<1>1. /\ AfterSnop(sab[s]) \in MainState \ {"IDLE"}
      /\ AfterSnop(sab[s]) # "L2CA"
  BY DEF AfterSnop, MainState
<1> QED
  BY <1>1, GotoStep, RestSame DEF LeaveSnop, Step

LEMMA MemReadStep ==
  ASSUME TypeInv, NEW s \in SID, MemRead(s)
  PROVE  Quiet /\ Rest'
<1> DEFINE new == IF rd(sab[s]) /\ ~sab[s].l2_hit THEN mem[sab[s].line] ELSE sab[s].new
           f == [sab[s] EXCEPT !.memr = "cmplt", !.new = new]
<1>1. sab[s] \in EntryType /\ sab[s].line \in LINE
  BY InUse DEF MemRead
<1>2. new \in BOOLEAN
  BY <1>1 DEF TypeInv, Rest, EntryType
<1>3. sab' = [sab EXCEPT ![s] = f]
  BY DEF MemRead, TypeInv, Entries, EntryType
<1> HIDE DEF new
<1>4. Keeps(sab[s], f)
  BY <1>1, <1>2 DEF Keeps, EntryType
<1> QED
  BY <1>3, <1>4, OneEntry, RestSame DEF MemRead, TypeInv

LEMMA LeaveMemrStep ==
  ASSUME TypeInv, NEW s \in SID, LeaveMemr(s)
  PROVE  Quiet /\ Rest'
BY GotoStep, RestSame DEF LeaveMemr, Step, MainState

LEMMA MemWriteStep ==
  ASSUME TypeInv, NEW s \in SID, MemWrite(s)
  PROVE  Quiet /\ Rest'
<1>1. sab[s].line \in LINE /\ sab[s].new \in BOOLEAN
  BY InUse DEF MemWrite, EntryType
<1>2. Quiet
  BY GotoStep DEF MemWrite, MainState
<1>3. mem' \in [LINE -> BOOLEAN]
  BY <1>1 DEF MemWrite, TypeInv, Rest
<1>4. UNCHANGED <<l2, rplc, l1, vb, req>>
  BY DEF MemWrite
<1> QED
  BY <1>2, <1>3, <1>4 DEF TypeInv, Rest, Ways, Level1, VictimBuffers, Requests

-----------------------------------------------------------------------------
(***************************************************************************)
(* Snoops and responses.                                                   *)
(***************************************************************************)

LEMMA LineUpdate ==
  ASSUME Level1, NEW c \in CORE, NEW l \in LINE, NEW r \in LineInL1,
         l1' = [l1 EXCEPT ![c] = [l1[c] EXCEPT ![l] = r]]
  PROVE  Level1'
<1>1. [l1[c] EXCEPT ![l] = r] \in [LINE -> LineInL1]
  BY DEF Level1
<1> QED
  BY <1>1 DEF Level1

LEMMA VBFree ==
  ASSUME VictimBuffers, NEW c, vb' = [vb EXCEPT ![c] = NoVB]
  PROVE  VictimBuffers'
<1>1. NoVB \in VBType /\ NoVB.st = "none"
  BY DEF NoVB, VBType
<1> QED
  BY <1>1 DEF VictimBuffers

LEMMA SnpRespStep ==
  ASSUME TypeInv, NEW s \in SID, NEW c \in CORE, SnpResp(s, c)
  PROVE  Quiet /\ Rest'
<1> DEFINE e == sab[s]
           l == e.line
           k == acsnoop(e)
           mine == vb[c].line = l
           bypass == mine /\ vb[c].st = "hold" /\ vb[c].kind # "evict"
           cancel == mine /\ vb[c].st = "hold" /\ vb[c].kind = "evict"
           st == l1[c][l].st
           dirty == bypass \/ st = "M"
           snp == e.snp \ {c}
           l1_dt == e.l1_dt \/ dirty
           l1_pd == e.l1_pd \/ (dirty /\ k # "RO")
           l1_sh == e.l1_sh \/ ((bypass \/ st # "I") /\ k # "CI")
           new == CASE bypass -> vb[c].new
                    [] ~bypass /\ dirty -> l1[c][l].new
                    [] OTHER -> e.new
           f == [e EXCEPT !.snp = snp, !.l1_dt = l1_dt, !.l1_pd = l1_pd,
                          !.l1_sh = l1_sh, !.new = new]
<1>1. e \in EntryType /\ l \in LINE
  BY InUse DEF SnpResp
<1>2. vb[c] \in VBType /\ l1[c][l] \in LineInL1
  BY <1>1 DEF TypeInv, Rest, VictimBuffers, Level1
<1>3. /\ snp \in SUBSET CORE /\ l1_dt \in BOOLEAN /\ l1_pd \in BOOLEAN
      /\ l1_sh \in BOOLEAN
  BY <1>1 DEF EntryType
<1>4. new \in BOOLEAN
  BY <1>1, <1>2 DEF EntryType, VBType, LineInL1
<1>5. Quiet
  <2>1. sab' = [sab EXCEPT ![s] = f]
    BY ZenonT(30) DEF SnpResp
  <2> HIDE DEF e, snp, l1_dt, l1_pd, l1_sh, new
  <2>2. f \in EntryType
    BY <1>1, <1>3, <1>4 DEF EntryType
  <2>3. /\ f.kind = e.kind /\ f.line = e.line /\ f.mid = e.mid
        /\ f.depd = e.depd /\ f.older = e.older /\ f.st = e.st
        /\ f.snpl2_done = e.snpl2_done
    BY <1>1 DEF EntryType
  <2> HIDE DEF f
  <2>4. Keeps(e, f)
    BY <2>2, <2>3 DEF Keeps
  <2> QED
    BY <2>1, <2>4, OneEntry DEF TypeInv, e
<1>6. VictimBuffers'
  <2>1. vb' = vb \/ vb' = [vb EXCEPT ![c] = NoVB]
    BY DEF SnpResp
  <2> QED
    BY <2>1, VBFree DEF TypeInv, Rest, VictimBuffers
<1>7. Level1'
  <2>1. \/ l1' = [l1 EXCEPT ![c][l] = Invalid]
        \/ l1' = [l1 EXCEPT ![c][l].st = "S"]
        \/ l1' = l1
    BY DEF SnpResp
  <2>2. Invalid \in LineInL1 /\ [l1[c][l] EXCEPT !.st = "S"] \in LineInL1
    BY <1>2 DEF Invalid, LineInL1
  <2> HIDE DEF e
  <2> QED
    BY <1>1, <2>1, <2>2, LineUpdate DEF TypeInv, Rest, Level1
<1>8. UNCHANGED <<l2, rplc, mem, req>>
  BY DEF SnpResp
<1> QED
  BY <1>5, <1>6, <1>7, <1>8 DEF TypeInv, Rest, Ways, Requests

LEMMA SendBStep ==
  ASSUME TypeInv, NEW s \in SID, SendB(s)
  PROVE  Quiet /\ Rest'
<1> DEFINE f == [sab[s] EXCEPT !.resp = "sent", !.ack = TRUE]
<1>1. sab[s] \in EntryType
  BY InUse
<1>2. Keeps(sab[s], f)
  BY <1>1 DEF Keeps, EntryType
<1>3. sab' = [sab EXCEPT ![s] = f]
  BY DEF SendB, TypeInv, Entries, EntryType
<1>4. VictimBuffers'
  BY VBFree DEF SendB, TypeInv, Rest
<1>5. UNCHANGED <<l2, rplc, mem, l1, req>>
  BY DEF SendB
<1> QED
  BY <1>2, <1>3, <1>4, <1>5, OneEntry DEF TypeInv, Rest, Ways, Level1, Requests

LEMMA SendRStep ==
  ASSUME TypeInv, NEW s \in SID, SendR(s)
  PROVE  Quiet /\ Rest'
<1> DEFINE f == [sab[s] EXCEPT !.resp = "sent", !.ack = TRUE]
           c == sab[s].mid
           l == sab[s].line
<1>1. sab[s] \in EntryType /\ l \in LINE /\ sab[s].new \in BOOLEAN
  BY InUse DEF SendR, ReadKind, EntryType
<1>2. Keeps(sab[s], f)
  BY <1>1 DEF Keeps, EntryType
<1>3. sab' = [sab EXCEPT ![s] = f]
  BY DEF SendR, TypeInv, Entries, EntryType
<1>4. Requests'
  BY DEF SendR, TypeInv, Rest, Requests, ReqType, NoReq
<1>5. Level1'
  <2>1. \/ \E st \in {"S", "E"} :
             l1' = [l1 EXCEPT ![c][l] = [st |-> st, new |-> sab[s].new]]
        \/ l1' = [l1 EXCEPT ![c][l].st = "E"]
        \/ l1' = l1
    BY DEF SendR
  <2>2. c \in CORE
    BY InUse DEF SendR
  <2>3. l1[c][l] \in LineInL1
    BY <1>1, <2>2 DEF TypeInv, Rest, Level1
  <2>4. /\ \A st \in {"S", "E"} : [st |-> st, new |-> sab[s].new] \in LineInL1
        /\ [l1[c][l] EXCEPT !.st = "E"] \in LineInL1
    BY <1>1, <2>3 DEF LineInL1
  <2> HIDE DEF c, l
  <2> QED
    BY <1>1, <2>1, <2>2, <2>4, LineUpdate DEF TypeInv, Rest, Level1
<1>6. UNCHANGED <<l2, rplc, mem, vb>>
  BY DEF SendR
<1> QED
  BY <1>2, <1>3, <1>4, <1>5, <1>6, OneEntry DEF TypeInv, Rest, Ways, VictimBuffers

LEMMA EntryQuiet ==
  ASSUME TypeInv, NEW s \in SID, EntryStep(s), ~L2Allocate(s), ~Pop(s)
  PROVE  Quiet /\ Rest'
BY WriteDataStep, LeaveDepdStep, L2LookupStep, L2WriteStep, LeaveL2Step,
   LeaveSnopStep, MemReadStep, LeaveMemrStep, MemWriteStep, SendBStep, SendRStep,
   SnpRespStep DEF EntryStep

\* A quiet step keeps the order.
LEMMA QuietOrder ==
  ASSUME OrderInv, Quiet
  PROVE  Entries' /\ AgeOrder' /\ WaitOrder'
<1>1. Entries'
  BY DEF OrderInv, TypeInv, Entries, Quiet, Keeps, EntryShape, rd_alct, rs
<1>2. Valid' = Valid /\ WnsEntries' = WnsEntries
  BY DEF Quiet, Keeps, Valid, WnsEntries, wns, evict
<1>3. \A s \in SID : /\ sab'[s].older = sab[s].older /\ sab'[s].depd = sab[s].depd
                     /\ sab'[s].kind = sab[s].kind
  BY DEF Quiet, Keeps
<1>4. Valid \subseteq SID
  BY DEF Valid
<1>5. AgeOrder'
  BY <1>2, <1>3, <1>4 DEF OrderInv, AgeOrder
<1>6. WaitOrder'
  BY <1>2, <1>3, <1>4 DEF OrderInv, WaitOrder, snpl2
<1> QED
  BY <1>1, <1>5, <1>6

-----------------------------------------------------------------------------
(***************************************************************************)
(* The creation of an entry: it is younger than all others, waits for some *)
(* of them, and may be waited for by older reads if it is a write.         *)
(***************************************************************************)
Marks(e, f, n) ==
  /\ f \in EntryType
  /\ f.kind = e.kind /\ f.line = e.line /\ f.mid = e.mid /\ f.older = e.older
  /\ f.st = "IDLE" <=> e.st = "IDLE"
  /\ f.snpl2_done \/ ~e.snpl2_done \/ rd_alct(e)
  /\ \/ f.depd = e.depd
     \/ /\ f.depd = e.depd \cup {n}
        /\ e.st # "IDLE" /\ e.kind \notin WriteKind

Created(n, f) ==
  /\ n \in SID \ Valid
  /\ f \in EntryType /\ EntryShape(f) /\ f.st # "IDLE"
  /\ f.older = Valid /\ f.depd \subseteq Valid
  /\ f.kind \in WriteKind \cup {"snpl2"} => f.depd \subseteq WnsEntries
  /\ sab' \in [SID -> EntryType] /\ sab'[n] = f
  /\ \A s \in SID \ {n} :
       \/ Keeps(sab[s], sab'[s])
       \/ f.kind \in WriteKind /\ Marks(sab[s], sab'[s], n)

LEMMA CreatedOrder ==
  ASSUME OrderInv, NEW n, NEW f, Created(n, f)
  PROVE  Entries' /\ AgeOrder' /\ WaitOrder'
<1>1. Entries'
  BY DEF OrderInv, TypeInv, Entries, Created, Keeps, Marks, EntryShape, rd_alct, rs
<1>2. /\ n \in SID /\ n \notin Valid /\ Valid \subseteq SID
      /\ WnsEntries \subseteq Valid
      /\ sab'[n].older = Valid /\ sab'[n].depd \subseteq Valid
      /\ sab'[n].kind = f.kind /\ sab'[n].st # "IDLE"
  BY DEF Created, Valid, WnsEntries
<1>3. \A s \in SID \ {n} :
        /\ sab'[s].older = sab[s].older /\ sab'[s].kind = sab[s].kind
        /\ sab'[s].st = "IDLE" <=> sab[s].st = "IDLE"
        /\ \/ sab'[s].depd = sab[s].depd
           \/ /\ sab'[s].depd = sab[s].depd \cup {n}
              /\ sab[s].kind \notin WriteKind /\ f.kind \in WriteKind
  BY DEF Created, Keeps, Marks
<1>4. Valid' = Valid \cup {n}
  BY <1>2, <1>3 DEF Valid
<1>5. AgeOrder'
  BY <1>2, <1>3, <1>4 DEF OrderInv, AgeOrder
<1>6. /\ WnsEntries' = IF f.kind \in WriteKind THEN WnsEntries \cup {n} ELSE WnsEntries
  <2>1. \A e : wns(e) \/ evict(e) <=> e.kind \in WriteKind
    BY DEF wns, evict, WriteKind
  <2> QED
    BY <1>2, <1>3, <1>4, <2>1 DEF WnsEntries
<1>7. f.kind \in WriteKind \cup {"snpl2"} => sab'[n].depd \subseteq WnsEntries
  BY DEF Created
<1>8. WaitOrder'
  BY <1>2, <1>3, <1>4, <1>6, <1>7 DEF OrderInv, WaitOrder, snpl2, WriteKind
<1> QED
  BY <1>1, <1>5, <1>8

LEMMA CreateReadStep ==
  ASSUME TypeInv, NEW c \in CORE, CreateRead(c)
  PROVE  (\E n, f : Created(n, f)) /\ Rest'
<1> DEFINE n == Lowest(FreeEntries(PiuSid))
           f == NewEntry(req[c].kind, req[c].line, c, Valid, 0)
<1>1. n \in SID \ Valid
  <2>1. FreeEntries(PiuSid) \subseteq SID /\ FreeEntries(PiuSid) \subseteq Nat
    BY Sizes DEF FreeEntries
  <2>2. n \in FreeEntries(PiuSid)
    BY <2>1, LowestIn DEF CreateRead
  <2> QED
    BY <2>1, <2>2 DEF FreeEntries
<1>2. req[c].kind \in ReadKind /\ req[c].line \in LINE
  BY DEF CreateRead, TypeInv, Rest, Requests, ReqType
<1>3. /\ req[c].kind \in Kind /\ Valid \in SUBSET SID /\ 0 \in SID
      /\ c \in CORE \cup {NONE}
  BY <1>2, Sizes DEF Kind, Valid
<1>4. /\ f \in EntryType /\ f.kind = req[c].kind /\ f.line = req[c].line
      /\ f.mid = c /\ f.depd = Valid /\ f.older = Valid /\ f.snpl2_done
      /\ f.st # "IDLE"
  BY <1>2, <1>3, NewEntryType
<1>5. sab' = [sab EXCEPT ![n] = f]
  BY DEF CreateRead
<1> HIDE DEF n, f
<1>6. EntryShape(f)
  BY <1>2, <1>4 DEF EntryShape, ReadKind
<1>7. f.kind \notin WriteKind \cup {"snpl2"}
  BY <1>2, <1>4 DEF ReadKind, WriteKind
<1>8. Created(n, f)
  BY <1>1, <1>4, <1>5, <1>6, <1>7, KeepsRefl DEF Created, TypeInv, Entries
<1>9. Requests'
  BY <1>2 DEF CreateRead, TypeInv, Rest, Requests, ReqType
<1>10. UNCHANGED <<l2, rplc, mem, l1, vb>>
  BY DEF CreateRead
<1> QED
  BY <1>8, <1>9, <1>10 DEF TypeInv, Rest, Ways, Level1, VictimBuffers

LEMMA CreateWriteStep ==
  ASSUME TypeInv, NEW c \in CORE, CreateWrite(c)
  PROVE  (\E n, f : Created(n, f)) /\ Rest'
<1> DEFINE n == Lowest(FreeEntries(WSID))
           f == NewEntry(vb[c].kind, vb[c].line, c, WriteDepd, 0)
           m(s) == [sab[s] EXCEPT !.depd = @ \cup {n}, !.wns_pend = TRUE]
<1>1. n \in SID \ Valid
  <2>1. FreeEntries(WSID) \subseteq SID /\ FreeEntries(WSID) \subseteq Nat
    BY Sizes DEF FreeEntries
  <2>2. n \in FreeEntries(WSID)
    BY <2>1, LowestIn DEF CreateWrite
  <2> QED
    BY <2>1, <2>2 DEF FreeEntries
<1>2. vb[c].kind \in WriteKind /\ vb[c].line \in LINE
  BY DEF CreateWrite, TypeInv, Rest, VictimBuffers
<1>3. /\ vb[c].kind \in Kind /\ WriteDepd \in SUBSET SID /\ 0 \in SID
      /\ WriteDepd = WnsEntries /\ WriteDepd \subseteq Valid
      /\ c \in CORE \cup {NONE}
  BY <1>2, Sizes DEF Kind, Valid, WnsEntries, WriteDepd
<1>4. /\ f \in EntryType /\ f.kind = vb[c].kind /\ f.line = vb[c].line
      /\ f.mid = c /\ f.depd = WriteDepd /\ f.older = Valid /\ f.snpl2_done
      /\ f.st # "IDLE"
  BY <1>2, <1>3, NewEntryType
<1>5. sab' = [s \in SID |-> IF s = n THEN f
                           ELSE IF back_mark(sab[s]) THEN m(s) ELSE sab[s]]
  BY Zenon DEF CreateWrite
<1> HIDE DEF n, f
<1>6. EntryShape(f)
  BY <1>2, <1>4 DEF EntryShape, WriteKind
<1>7. ASSUME NEW s \in SID, back_mark(sab[s])
      PROVE  Marks(sab[s], m(s), n)
  <2>1. sab[s] \in EntryType /\ sab[s].depd \cup {n} \in SUBSET SID
    BY <1>1 DEF TypeInv, Entries, EntryType
  <2>2. m(s) \in EntryType
    BY <2>1 DEF EntryType
  <2>3. /\ m(s).kind = sab[s].kind /\ m(s).line = sab[s].line /\ m(s).mid = sab[s].mid
        /\ m(s).older = sab[s].older /\ m(s).st = sab[s].st
        /\ m(s).snpl2_done = sab[s].snpl2_done /\ m(s).depd = sab[s].depd \cup {n}
    BY <2>1 DEF EntryType
  <2>4. sab[s].kind \notin WriteKind /\ sab[s].st # "IDLE"
    BY <1>7 DEF back_mark
  <2> HIDE DEF m
  <2> QED
    BY <2>2, <2>3, <2>4 DEF Marks
<1>8. ASSUME NEW s \in SID
      PROVE  Keeps(sab[s], sab[s]) /\ sab[s] \in EntryType
  BY KeepsRefl DEF TypeInv, Entries
<1> HIDE DEF m
<1>9. /\ sab'[n] = f
      /\ \A s \in SID \ {n} :
           Keeps(sab[s], sab'[s]) \/ Marks(sab[s], sab'[s], n)
  BY <1>1, <1>5, <1>7, <1>8
<1>10. sab' \in [SID -> EntryType]
  BY <1>4, <1>5, <1>9 DEF Keeps, Marks
<1>11. Created(n, f)
  BY <1>1, <1>2, <1>3, <1>4, <1>6, <1>9, <1>10 DEF Created
<1>12. VictimBuffers'
  BY <1>2 DEF CreateWrite, TypeInv, Rest, VictimBuffers, VBType
<1>13. UNCHANGED <<l2, rplc, mem, l1, req>>
  BY DEF CreateWrite
<1> QED
  BY <1>11, <1>12, <1>13 DEF TypeInv, Rest, Ways, Level1, Requests

LEMMA WayFifoIn ==
  ASSUME NotPending # {}
  PROVE  way_fifo \in WAY
<1>1. NotPending \subseteq WAY /\ NotPending \subseteq Nat
  BY Sizes DEF NotPending
<1>2. Lowest(NotPending) \in NotPending
  BY <1>1, LowestIn
<1> QED
  BY <1>1, <1>2 DEF way_fifo

\* An access to allocate creates the snoop of the line it replaces, if any.
LEMMA L2AllocateStep ==
  ASSUME TypeInv, NEW s \in SID, L2Allocate(s)
  PROVE  (Quiet \/ \E n, f : Created(n, f)) /\ Rest'
<1> DEFINE w == way_fifo
           g == Goto(sab[s], "MEMR")
<1>1. w \in WAY /\ sab[s].st = "L2CA"
  BY WayFifoIn DEF L2Allocate
<1>2. sab[s] \in EntryType /\ "MEMR" \in MainState
  BY InUse DEF MainState
<1>3. Keeps(sab[s], g) /\ g \in EntryType
  BY <1>1, <1>2, GotoKeeps, GotoType
<1>4. Quiet \/ \E n, f : Created(n, f)
  <2>1. CASE sab' = [sab EXCEPT ![s] = [g EXCEPT !.snpl2_done = TRUE]]
    <3> DEFINE f == [g EXCEPT !.snpl2_done = TRUE]
    <3> HIDE DEF g
    <3>1. f \in EntryType
      BY <1>3 DEF EntryType
    <3>2. /\ f.kind = g.kind /\ f.line = g.line /\ f.mid = g.mid
          /\ f.depd = g.depd /\ f.older = g.older /\ f.st = g.st
          /\ f.snpl2_done
      BY <1>3 DEF EntryType
    <3> HIDE DEF f
    <3>3. Keeps(sab[s], f)
      BY <1>3, <3>1, <3>2 DEF Keeps
    <3> QED
      BY <2>1, <3>3, OneEntry DEF TypeInv, f
  <2>2. CASE /\ l2[w].vld
             /\ FreeEntries(RSID) # {}
             /\ sab' = [sab EXCEPT ![s] = g, ![Lowest(FreeEntries(RSID))] =
                           NewEntry("snpl2", l2[w].tag, NONE, SnpL2Depd, s)]
    <3> DEFINE n == Lowest(FreeEntries(RSID))
               f == NewEntry("snpl2", l2[w].tag, NONE, SnpL2Depd, s)
    <3>1. n \in SID \ Valid
      <4>1. FreeEntries(RSID) \subseteq SID /\ FreeEntries(RSID) \subseteq Nat
        BY Sizes DEF FreeEntries
      <4>2. n \in FreeEntries(RSID)
        BY <2>2, <4>1, LowestIn
      <4> QED
        BY <4>1, <4>2 DEF FreeEntries
    <3>2. /\ l2[w].tag \in LINE /\ "snpl2" \in Kind /\ SnpL2Depd \in SUBSET SID
          /\ NONE \in CORE \cup {NONE}
          /\ SnpL2Depd = WnsEntries /\ SnpL2Depd \subseteq Valid
      BY <1>1, <2>2 DEF TypeInv, Rest, Ways, Kind, SnpL2Depd, WnsEntries, Valid
    <3>3. /\ f \in EntryType /\ f.kind = "snpl2" /\ f.line = l2[w].tag
          /\ f.mid = NONE /\ f.depd = SnpL2Depd /\ f.older = Valid
          /\ f.snpl2_done /\ f.st # "IDLE"
      <4>1. ASSUME NEW l \in LINE, NEW D \in SUBSET SID, NEW e,
                   e = NewEntry("snpl2", l, NONE, D, s)
            PROVE  /\ e \in EntryType /\ e.kind = "snpl2" /\ e.line = l
                   /\ e.mid = NONE /\ e.depd = D /\ e.older = Valid
                   /\ e.snpl2_done /\ e.st # "IDLE"
        BY <3>2, <4>1, NewEntryType
      <4>2. f = NewEntry("snpl2", l2[w].tag, NONE, SnpL2Depd, s)
        OBVIOUS
      <4> HIDE DEF f, w
      <4> QED
        BY <3>2, <4>1, <4>2
    <3>4. s \in Valid
      BY <1>1 DEF Valid
    <3> HIDE DEF n, f, g
    <3>5. sab' = [sab EXCEPT ![s] = g, ![n] = f]
      BY <2>2 DEF n, f
    <3>6. EntryShape(f)
      BY <3>2, <3>3 DEF EntryShape, ReadKind, WriteKind
    <3>7. /\ sab' \in [SID -> EntryType] /\ sab'[n] = f
          /\ \A t \in SID \ {n} : Keeps(sab[t], sab'[t])
      BY <1>3, <3>1, <3>3, <3>4, <3>5, KeepsRefl DEF TypeInv, Entries
    <3>8. Created(n, f)
      BY <3>1, <3>2, <3>3, <3>6, <3>7 DEF Created
    <3> QED
      BY <3>8
  <2> QED
    BY <2>1, <2>2 DEF L2Allocate
<1>5. Ways'
  <2>1. l2' = [l2 EXCEPT ![w].pend = TRUE]
    BY DEF L2Allocate
  <2> HIDE DEF w
  <2> QED
    BY ZenonT(60), <1>1, <2>1 DEF TypeInv, Rest, Ways, WayType
<1>6. rplc' \in WAY
  BY <1>1, NextWayType DEF L2Allocate
<1>7. UNCHANGED <<mem, l1, vb, req>>
  BY DEF L2Allocate
<1> QED
  BY <1>4, <1>5, <1>6, <1>7 DEF TypeInv, Rest, Level1, VictimBuffers, Requests

-----------------------------------------------------------------------------
(***************************************************************************)
(* An entry that pops leaves the order.                                    *)
(***************************************************************************)
Popped(s) ==
  /\ s \in SID
  /\ sab' \in [SID -> EntryType] /\ sab'[s] = IdleEntry
  /\ \A t \in SID \ {s} :
       /\ sab'[t].kind = sab[t].kind /\ sab'[t].line = sab[t].line
       /\ sab'[t].mid = sab[t].mid /\ sab'[t].st = sab[t].st
       /\ sab'[t].depd = sab[t].depd \ {s} /\ sab'[t].older = sab[t].older \ {s}
       /\ sab[t].snpl2_done => sab'[t].snpl2_done

LEMMA PopStep ==
  ASSUME TypeInv, NEW s \in SID, Pop(s)
  PROVE  Popped(s) /\ Rest'
<1> DEFINE m(t) == [sab[t] EXCEPT !.depd = @ \ {s}, !.older = @ \ {s},
                      !.snpl2_done = @ \/ (snpl2(sab[s]) /\ sab[s].ini = t)]
<1>1. sab' = [t \in SID |-> IF t = s THEN IdleEntry ELSE m(t)]
  BY Zenon DEF Pop
<1>2. IdleEntry \in EntryType
  BY Sizes DEF IdleEntry, EntryType, MainState, Kind
<1>3. ASSUME NEW t \in SID
      PROVE  /\ m(t) \in EntryType
             /\ m(t).kind = sab[t].kind /\ m(t).line = sab[t].line
             /\ m(t).mid = sab[t].mid /\ m(t).st = sab[t].st
             /\ m(t).depd = sab[t].depd \ {s} /\ m(t).older = sab[t].older \ {s}
             /\ sab[t].snpl2_done => m(t).snpl2_done
  <2> DEFINE e == sab[t]
             dep == e.depd \ {s}
             old == e.older \ {s}
             don == e.snpl2_done \/ (snpl2(sab[s]) /\ sab[s].ini = t)
  <2>1. e \in EntryType
    BY InUse
  <2>2. dep \in SUBSET SID /\ old \in SUBSET SID /\ don \in BOOLEAN
        /\ (e.snpl2_done => don)
    BY <2>1 DEF EntryType
  <2>3. m(t) = [e EXCEPT !.depd = dep, !.older = old, !.snpl2_done = don]
    BY Zenon
  <2>4. dep = sab[t].depd \ {s} /\ old = sab[t].older \ {s} /\ e = sab[t]
    OBVIOUS
  <2> HIDE DEF m, e, dep, old, don
  <2>5. [e EXCEPT !.depd = dep, !.older = old, !.snpl2_done = don] \in EntryType
    BY <2>1, <2>2 DEF EntryType
  <2> QED
    BY <2>1, <2>2, <2>3, <2>4, <2>5 DEF EntryType
<1> HIDE DEF m
<1>4. Popped(s)
  BY <1>1, <1>2, <1>3 DEF Popped
<1> QED
  BY <1>4, RestSame DEF Pop

LEMMA PoppedOrder ==
  ASSUME OrderInv, NEW s, Popped(s)
  PROVE  Entries' /\ AgeOrder' /\ WaitOrder'
<1>1. Entries'
  BY DEF OrderInv, TypeInv, Entries, Popped, IdleEntry, EntryShape, rd_alct, rs,
         ReadKind, WriteKind
<1>2. /\ Valid' = Valid \ {s} /\ WnsEntries' = WnsEntries \ {s}
  BY DEF Popped, IdleEntry, Valid, WnsEntries, wns, evict
<1>3. \A t \in Valid \ {s} :
        /\ sab'[t].depd = sab[t].depd \ {s} /\ sab'[t].older = sab[t].older \ {s}
        /\ sab'[t].kind = sab[t].kind
  BY DEF Popped, Valid
<1>4. AgeOrder'
  BY <1>2, <1>3 DEF OrderInv, AgeOrder
<1>5. WaitOrder'
  BY <1>2, <1>3 DEF OrderInv, WaitOrder, snpl2
<1> QED
  BY <1>1, <1>4, <1>5

-----------------------------------------------------------------------------
(***************************************************************************)
(* The invariant.                                                          *)
(***************************************************************************)

LEMMA InitOrder == Init => OrderInv
<1> SUFFICES ASSUME Init
             PROVE  OrderInv
  OBVIOUS
<1>1. IdleEntry \in EntryType /\ EntryShape(IdleEntry)
  BY Sizes DEF IdleEntry, EntryType, MainState, Kind, EntryShape, ReadKind, WriteKind
<1>2. Entries /\ Valid = {}
  BY <1>1 DEF Init, Entries, Valid, IdleEntry
<1>3. Ways
  BY DEF Init, Ways, WayType, InvalidWay
<1>4. VictimBuffers /\ Requests
  BY DEF Init, VictimBuffers, VBType, NoVB, Requests, ReqType, NoReq
<1>5. Level1 /\ rplc \in WAY /\ mem \in [LINE -> BOOLEAN]
  BY Sizes DEF Init, Level1, LineInL1
<1>6. AgeOrder /\ WaitOrder
  BY <1>2 DEF AgeOrder, WaitOrder
<1> QED
  BY <1>2, <1>3, <1>4, <1>5, <1>6 DEF OrderInv, TypeInv, Rest

LEMMA StepOrder == OrderInv /\ [Next]_vars => OrderInv'
<1> SUFFICES ASSUME OrderInv, [Next]_vars
             PROVE  OrderInv'
  OBVIOUS
<1>1. TypeInv
  BY DEF OrderInv
<1>2. ASSUME Quiet \/ (\E n, f : Created(n, f)) \/ (\E s : Popped(s)), Rest'
      PROVE  OrderInv'
  BY <1>2, QuietOrder, CreatedOrder, PoppedOrder DEF OrderInv, TypeInv
<1>3. CASE \E c \in CORE : CoreStep(c)
  BY <1>1, <1>2, <1>3, CoreQuiet
<1>4. CASE \E c \in CORE : CreateStep(c)
  BY <1>1, <1>2, <1>4, CreateReadStep, CreateWriteStep DEF CreateStep
<1>5. CASE \E s \in SID : EntryStep(s)
  <2>1. PICK s \in SID : EntryStep(s)
    BY <1>5
  <2>2. CASE L2Allocate(s)
    BY <1>1, <1>2, <2>2, L2AllocateStep
  <2>3. CASE Pop(s)
    BY <1>1, <1>2, <2>3, PopStep
  <2>4. CASE ~L2Allocate(s) /\ ~Pop(s)
    BY <1>1, <1>2, <2>1, <2>4, EntryQuiet
  <2> QED
    BY <2>2, <2>3, <2>4
<1>6. CASE UNCHANGED vars
  <2>1. Quiet /\ Rest'
    BY <1>1, <1>6, SameEntries, RestSame DEF vars, TypeInv
  <2> QED
    BY <1>2, <2>1
<1> QED
  BY <1>3, <1>4, <1>5, <1>6 DEF Next

\* Ages and waits are in order at all times: an entry waits for valid entries
\* only, and never for one that may still come to wait for it.
THEOREM OrderInvariant == Spec => []OrderInv
BY InitOrder, StepOrder, PTL DEF Spec

\* The state keeps its types, for every number of entries, ways and cores.
THEOREM TypeCorrect == Spec => []TypeOK
<1>1. OrderInv => TypeOK
  BY DEF OrderInv, TypeInv, Entries, Rest, Ways, Level1, LineInL1, VictimBuffers,
         VBType, Requests, ReqType, TypeOK
<1> QED
  BY <1>1, OrderInvariant, PTL

-----------------------------------------------------------------------------
(***************************************************************************)
(* No circular wait.  In a set of entries, the oldest write waits for none *)
(* of the set; without a write, a snoop of the L2 does; without both, the  *)
(* oldest read.                                                            *)
(***************************************************************************)

LEMMA ValidFinite == IsFiniteSet(Valid)
<1>1. IsFiniteSet(SID)
  <2>1. 0 \in Int /\ RDEPTH - 1 \in Int /\ RDEPTH \in Int /\ RDEPTH + WDEPTH - 1 \in Int
    BY SizeAssumption
  <2>2. IsFiniteSet(RSID) /\ IsFiniteSet(WSID)
    BY <2>1, FS_Interval, Zenon DEF RSID, WSID
  <2> QED
    BY <2>2, FS_Union DEF SID
<1> QED
  BY <1>1, FS_Subset DEF Valid

\* Every set of entries in use has one with no older entry in the set.
LEMMA Oldest ==
  ASSUME AgeOrder, NEW S, S \subseteq Valid, S # {}
  PROVE  \E s \in S : sab[s].older \cap S = {}
<1> DEFINE before == [s \in Valid |-> sab[s].older]
<1>1. /\ before \in [Valid -> SUBSET Valid]
      /\ \A s \in Valid : s \notin before[s]
      /\ \A s, t, u \in Valid : s \in before[t] /\ t \in before[u] => s \in before[u]
      /\ \A s \in S : before[s] = sab[s].older
  BY DEF AgeOrder
<1> HIDE DEF before
<1>2. \E s \in S : before[s] \cap S = {}
  BY <1>1, ValidFinite, FirstElement
<1> QED
  BY <1>1, <1>2

LEMMA OrderNoCircularWait == OrderInv => NoCircularWait
<1> SUFFICES ASSUME OrderInv, NEW S \in (SUBSET Valid) \ {{}}
             PROVE  \E s \in S : WaitsFor(s) \cap S = {}
  BY DEF NoCircularWait
<1>1. \A s \in Valid : sab[s].snpl2_done \/ rd_alct(sab[s])
  BY DEF OrderInv, TypeInv, Entries, EntryShape, Valid
<1>2. CASE S \cap WnsEntries # {}
  <2>1. PICK s \in S \cap WnsEntries : sab[s].older \cap (S \cap WnsEntries) = {}
    <3>1. AgeOrder /\ S \cap WnsEntries \subseteq Valid
      BY DEF OrderInv
    <3> QED
      BY <1>2, <3>1, Oldest, Zenon
  <2>2. sab[s].kind \in WriteKind /\ ~rd_alct(sab[s])
    BY <2>1 DEF WnsEntries, wns, evict, WriteKind, rd_alct, rs
  <2>3. sab[s].depd \cap S = {}
    BY <2>1, <2>2 DEF OrderInv, WaitOrder
  <2> QED
    BY <1>1, <2>1, <2>2, <2>3 DEF WaitsFor
<1>3. CASE S \cap WnsEntries = {} /\ \E s \in S : snpl2(sab[s])
  <2>1. PICK s \in S : snpl2(sab[s])
    BY <1>3
  <2>2. sab[s].depd \cap S = {} /\ ~rd_alct(sab[s])
    BY <1>3, <2>1 DEF OrderInv, WaitOrder, snpl2, rd_alct, rs
  <2> QED
    BY <1>1, <2>1, <2>2 DEF WaitsFor
<1>4. CASE S \cap WnsEntries = {} /\ \A s \in S : ~snpl2(sab[s])
  <2>1. PICK s \in S : sab[s].older \cap S = {}
    <3>1. AgeOrder /\ S \subseteq Valid /\ S # {}
      BY DEF OrderInv
    <3> QED
      BY <3>1, Oldest, Zenon
  <2>2. sab[s].depd \cap S = {}
    BY <1>4, <2>1 DEF OrderInv, WaitOrder
  <2> QED
    BY <1>4, <2>1, <2>2 DEF WaitsFor
<1> QED
  BY <1>2, <1>3, <1>4

\* The entries never wait for each other in a circle, however many there are.
THEOREM NoDeadlockOfEntries == Spec => []NoCircularWait
BY OrderInvariant, OrderNoCircularWait, PTL

-----------------------------------------------------------------------------
(***************************************************************************)
(* Which entries act.  An entry acts when it has left DEPD, and has looked *)
(* its line up when the access it makes in L2C is done.                    *)
(***************************************************************************)
Acting(e) == e.st \notin {"IDLE", "DEPD"}
Looked(e) == Acting(e) /\ ~(e.st = "L2C" /\ e.l2c_req)

\* What an entry may hold in which state.
StateShape(e) ==
  /\ e.st = "IDLE" => e.cp = {} /\ e.snp = {} /\ ~e.l2c_req /\ e.resp = "no"
  /\ e.l2c_req => e.st \in {"L2C", "L2CR", "L2CA", "L2CT", "L2CW"}
  /\ e.st \in {"SNOP", "L2CR", "L2CA", "L2CT"} => e.kind \notin WriteKind
  /\ e.cp # {} => e.st = "L2C" /\ ~e.l2c_req /\ e.kind \notin WriteKind
  /\ e.snp # {} => e.st = "SNOP"
  /\ e.kind \in ReadKind /\ e.resp # "no" => e.st \in {"L2CW", "POP"}
  /\ cml2(e) /\ e.resp # "no" => e.st = "POP"
  /\ rd_alct(e) /\ e.st \in {"L2CA", "MEMR"} => ~e.l2_hit
  /\ e.st = "L2CA" => rd_alct(e) /\ ~e.snpl2_done
  /\ rd_alct(e) => e.st # "MEMW"
  /\ snpl2(e) => e.mid = NONE
  /\ wns(e) /\ ~e.wt => e.resp = "no"
StateShapes == \A s \in SID : StateShape(sab[s])

\* A read waits for all that is older, so that only the oldest entry is a read
\* that acts.
ReadsInTurn == \A s \in SID : sab[s].kind \in ReadKind =>
  /\ sab[s].older \subseteq sab[s].depd
  /\ Acting(sab[s]) => sab[s].older = {}

\* The snoop of the L2 for a line to replace is part of the read that acts.
OneSnpL2 ==
  /\ \A s \in SID : snpl2(sab[s]) =>
       LET i == sab[sab[s].ini]
       IN  rd_alct(i) /\ i.st = "MEMR" /\ ~i.snpl2_done
  /\ \A s, t \in SID : snpl2(sab[s]) /\ snpl2(sab[t]) => s = t

\* The entries of the cores, of the snoops of the L2, and of the writes.
EntryUse ==
  /\ \A s \in RSID \ PiuSid : sab[s].kind \in {"snpl2", "none"}
  /\ \A s \in SID \ RSID : sab[s].kind \in WriteKind \cup {"none"}

TurnInv == StateShapes /\ ReadsInTurn /\ OneSnpL2 /\ EntryUse

(***************************************************************************)
(* What the cores and their requests may rely on.                          *)
(***************************************************************************)

\* A core that waits for a line, or for it to be gone everywhere, has no copy of
\* it and none on its way out.
FillKind == {"rs", "ru", "ci"}
Asking == \A c \in CORE : req[c].kind \in FillKind =>
  /\ l1[c][req[c].line].st = "I"
  /\ vb[c].st = "none" \/ vb[c].line # req[c].line

\* A read that is not answered is the one its core waits for.
Open(e) == e.kind \in ReadKind /\ e.resp # "sent"
Answering ==
  /\ \A s \in SID : Open(sab[s]) =>
       LET r == req[sab[s].mid]
       IN  r.kind = sab[s].kind /\ r.line = sab[s].line /\ r.sent
  /\ \A s, t \in SID :
       Open(sab[s]) /\ Open(sab[t]) /\ sab[s].mid = sab[t].mid => s = t

\* A write that is not answered is the one of its core's victim buffer.
WriteOpen(e) == e.kind \in WriteKind /\ e.resp # "sent"
Victims ==
  /\ \A s \in SID : WriteOpen(sab[s]) =>
       LET v == vb[sab[s].mid]
       IN  v.st = "sab" /\ v.kind = sab[s].kind /\ v.line = sab[s].line
  /\ \A s, t \in SID :
       WriteOpen(sab[s]) /\ WriteOpen(sab[t]) /\ sab[s].mid = sab[t].mid => s = t

\* A line that was replaced is not in the L1 until the L2 knows, because a read
\* that would bring it back waits.
Goes(kind) == kind \in {"wb", "evict"}
Leaving == \A c \in CORE : vb[c].st \in {"hold", "sent"} /\ Goes(vb[c].kind)
                            => l1[c][vb[c].line].st = "I"
ToLeave(e) == Goes(e.kind) /\ ~Looked(e)
Left == \A s \in SID : ToLeave(sab[s]) => l1[sab[s].mid][sab[s].line].st = "I"
WriteFirst == \A s, t \in SID :
  /\ ToLeave(sab[s]) /\ Open(sab[t]) /\ sab[t].kind \in {"rs", "ru"}
  /\ sab[s].mid = sab[t].mid /\ sab[s].line = sab[t].line
  => s \in sab[t].older

ClaimInv == Asking /\ Answering /\ Victims /\ Leaving /\ Left /\ WriteFirst

-----------------------------------------------------------------------------
(***************************************************************************)
(* What the steps do to an entry, field by field.                          *)
(***************************************************************************)

SameRequest(e, f) ==
  /\ f.kind = e.kind /\ f.line = e.line /\ f.mid = e.mid
  /\ f.depd = e.depd /\ f.older = e.older /\ f.ini = e.ini

SameSnoops(e, f) ==
  /\ f.cp = e.cp /\ f.snp = e.snp /\ f.l1_dt = e.l1_dt /\ f.l1_pd = e.l1_pd
  /\ f.l1_sh = e.l1_sh /\ f.wns_pend = e.wns_pend

SameAccess(e, f) ==
  /\ f.st = e.st /\ f.snpl2_done = e.snpl2_done /\ f.memr = e.memr
  /\ f.l2c_req = e.l2c_req /\ f.l2_hit = e.l2_hit /\ f.l2_pd = e.l2_pd

SameAnswer(e, f) == f.resp = e.resp /\ f.ack = e.ack /\ f.wt = e.wt

\* The entry takes its next main state.
GoesTo(e, f, to) ==
  /\ SameRequest(e, f)
  /\ f.st = to
  /\ f.wns_pend = e.wns_pend /\ f.l2_hit = e.l2_hit /\ f.l2_pd = e.l2_pd
  /\ f.l1_dt = e.l1_dt /\ f.l1_pd = e.l1_pd /\ f.l1_sh = e.l1_sh
  /\ f.new = e.new /\ f.wt = e.wt /\ f.ack = e.ack
  /\ f.l2c_req <=> \/ to \in {"L2C", "L2CR", "L2CA", "L2CT"}
                   \/ to = "L2CW" /\ e.kind # "ro"
  /\ f.memr = IF to = "MEMR" THEN "req" ELSE e.memr
  /\ f.snpl2_done <=> e.snpl2_done /\ to # "L2CA"
  /\ f.snp = IF to = "SNOP" THEN e.cp ELSE e.snp
  /\ f.cp = {}
  /\ f.resp = IF rresp_rdy(e, to) THEN "rdy" ELSE e.resp

\* All other entries stay as they are.
Only(s) ==
  /\ sab' \in [SID -> EntryType]
  /\ \A t \in SID \ {s} : sab'[t] = sab[t]

LEMMA GotoFull ==
  ASSUME NEW e \in EntryType, NEW to \in MainState
  PROVE  GoesTo(e, Goto(e, to), to)
<1> DEFINE l2c_req == \/ to \in {"L2C", "L2CR", "L2CA", "L2CT"}
                      \/ to = "L2CW" /\ e.kind # "ro"
           memr == IF to = "MEMR" THEN "req" ELSE e.memr
           snpl2_done == e.snpl2_done /\ to # "L2CA"
           snp == IF to = "SNOP" THEN e.cp ELSE e.snp
           resp == IF rresp_rdy(e, to) THEN "rdy" ELSE e.resp
           f == [e EXCEPT !.st = to, !.l2c_req = l2c_req, !.memr = memr,
                       !.snpl2_done = snpl2_done, !.snp = snp, !.cp = {},
                       !.resp = resp]
<1>1. f = Goto(e, to)
  BY Zenon DEF Goto
<1>2. /\ l2c_req <=> \/ to \in {"L2C", "L2CR", "L2CA", "L2CT"}
                     \/ to = "L2CW" /\ e.kind # "ro"
      /\ memr = IF to = "MEMR" THEN "req" ELSE e.memr
      /\ snpl2_done <=> e.snpl2_done /\ to # "L2CA"
      /\ snp = IF to = "SNOP" THEN e.cp ELSE e.snp
      /\ resp = IF rresp_rdy(e, to) THEN "rdy" ELSE e.resp
  OBVIOUS
<1> HIDE DEF l2c_req, memr, snpl2_done, snp, resp
<1>3. /\ SameRequest(e, f) /\ f.st = to
      /\ f.wns_pend = e.wns_pend /\ f.l2_hit = e.l2_hit /\ f.l2_pd = e.l2_pd
      /\ f.l1_dt = e.l1_dt /\ f.l1_pd = e.l1_pd /\ f.l1_sh = e.l1_sh
      /\ f.new = e.new /\ f.wt = e.wt /\ f.ack = e.ack
      /\ f.l2c_req = l2c_req /\ f.memr = memr /\ f.snpl2_done = snpl2_done
      /\ f.snp = snp /\ f.cp = {} /\ f.resp = resp
  BY DEF EntryType, SameRequest
<1> HIDE DEF f
<1> QED
  BY <1>1, <1>2, <1>3, Zenon DEF GoesTo

\* A step that does no more than move an entry on.
LEMMA Moved ==
  ASSUME TypeInv, NEW s \in SID, NEW to \in MainState,
         sab' = [sab EXCEPT ![s] = Goto(sab[s], to)]
  PROVE  Only(s) /\ GoesTo(sab[s], sab'[s], to)
<1> DEFINE f == Goto(sab[s], to)
<1>1. sab \in [SID -> EntryType] /\ sab[s] \in EntryType
  BY DEF TypeInv, Entries
<1>2. f \in EntryType /\ GoesTo(sab[s], f, to)
  BY <1>1, GotoType, GotoFull
<1> HIDE DEF f
<1>3. sab' = [sab EXCEPT ![s] = f]
  BY DEF f
<1>4. sab'[s] = f
  BY <1>1, <1>3
<1>5. Only(s)
  BY <1>1, <1>2, <1>3 DEF Only
<1> QED
  BY <1>2, <1>4, <1>5

\* A new entry.
IsNew(f, kind, line, mid, depd, ini) ==
  /\ f.kind = kind /\ f.line = line /\ f.mid = mid /\ f.depd = depd /\ f.ini = ini
  /\ f.older = Valid
  /\ f.st = IF depd # {} \/ kind \in WriteKind THEN "DEPD" ELSE "L2C"
  /\ f.l2c_req <=> f.st = "L2C"
  /\ f.resp = IF kind = "evict" THEN "rdy" ELSE "no"
  /\ f.snpl2_done /\ ~f.wns_pend /\ ~f.l2_hit /\ ~f.l2_pd /\ ~f.wt /\ ~f.ack
  /\ f.cp = {} /\ f.snp = {} /\ ~f.l1_dt /\ ~f.l1_pd /\ ~f.l1_sh /\ ~f.new
  /\ f.memr = "idle"

LEMMA NewEntryFull ==
  ASSUME NEW k \in Kind, NEW l \in LINE, NEW m \in CORE \cup {NONE},
         NEW D \in SUBSET SID, NEW i \in SID
  PROVE  IsNew(NewEntry(k, l, m, D, i), k, l, m, D, i)
<1> DEFINE resp == IF k = "evict" THEN "rdy" ELSE "no"
           e == [IdleEntry EXCEPT
              !.kind = k, !.line = l, !.mid = m, !.depd = D,
              !.older = Valid, !.ini = i, !.snpl2_done = TRUE, !.resp = resp]
           to == IF D # {} \/ k \in WriteKind THEN "DEPD" ELSE "L2C"
           f == Goto(e, to)
<1>1. /\ resp \in {"no", "rdy", "sent"} /\ Valid \in SUBSET SID
      /\ to \in MainState /\ to \in {"DEPD", "L2C"}
  BY DEF Valid, MainState
<1>2. NewEntry(k, l, m, D, i) = f
  BY Zenon DEF NewEntry
<1>3. /\ resp = (IF k = "evict" THEN "rdy" ELSE "no")
      /\ to = (IF D # {} \/ k \in WriteKind THEN "DEPD" ELSE "L2C")
  OBVIOUS
<1> HIDE DEF resp, to
<1>4. IdleEntry \in EntryType
  BY Sizes DEF IdleEntry, EntryType, MainState, Kind
<1>5. /\ e \in EntryType
      /\ e.kind = k /\ e.line = l /\ e.mid = m /\ e.depd = D /\ e.ini = i
      /\ e.older = Valid /\ e.snpl2_done = TRUE /\ e.resp = resp
  BY <1>1, <1>4 DEF EntryType
<1>6. /\ ~e.wns_pend /\ ~e.l2_hit /\ ~e.l2_pd /\ ~e.wt /\ ~e.ack
      /\ e.cp = {} /\ e.snp = {} /\ ~e.l1_dt /\ ~e.l1_pd /\ ~e.l1_sh /\ ~e.new
      /\ e.memr = "idle"
  BY DEF IdleEntry
<1> HIDE DEF e
<1>7. GoesTo(e, f, to)
  BY <1>1, <1>5, GotoFull
<1>8. ~rresp_rdy(e, to)
  BY <1>1 DEF rresp_rdy
<1> HIDE DEF f
<1>9. IsNew(f, k, l, m, D, i)
  BY <1>1, <1>3, <1>5, <1>6, <1>7, <1>8 DEF GoesTo, SameRequest, IsNew
<1> QED
  BY <1>2, <1>9

LEMMA OnlyOne ==
  ASSUME TypeInv, NEW s \in SID, NEW f \in EntryType, sab' = [sab EXCEPT ![s] = f]
  PROVE  Only(s) /\ sab'[s] = f
BY DEF TypeInv, Entries, Only

\* WriteData.
LEMMA WriteDataFull ==
  ASSUME TypeInv, NEW s \in SID, WriteData(s)
  PROVE  /\ Only(s)
         /\ SameRequest(sab[s], sab'[s]) /\ SameSnoops(sab[s], sab'[s])
         /\ SameAccess(sab[s], sab'[s])
         /\ sab'[s].wt /\ sab'[s].resp = "rdy" /\ sab'[s].ack = sab[s].ack
         /\ sab'[s].new = vb[sab[s].mid].new
<1> DEFINE f == [sab[s] EXCEPT !.wt = TRUE, !.new = vb[sab[s].mid].new, !.resp = "rdy"]
<1>1. sab[s].mid \in CORE /\ sab[s] \in EntryType
  BY InUse DEF WriteData, wns, WriteKind
<1>2. vb[sab[s].mid].new \in BOOLEAN
  BY <1>1 DEF TypeInv, Rest, VictimBuffers, VBType
<1>3. sab' = [sab EXCEPT ![s] = f]
  BY <1>1 DEF WriteData, TypeInv, Entries, EntryType
<1>4. f \in EntryType
  BY <1>1, <1>2 DEF EntryType
<1>5. /\ SameRequest(sab[s], f) /\ SameSnoops(sab[s], f) /\ SameAccess(sab[s], f)
      /\ f.wt /\ f.resp = "rdy" /\ f.ack = sab[s].ack /\ f.new = vb[sab[s].mid].new
  BY <1>1 DEF EntryType, SameRequest, SameSnoops, SameAccess
<1> HIDE DEF f
<1>6. Only(s) /\ sab'[s] = f
  BY <1>3, <1>4, OnlyOne
<1> QED
  BY <1>5, <1>6, Zenon

\* MemRead.
LEMMA MemReadFull ==
  ASSUME TypeInv, NEW s \in SID, MemRead(s)
  PROVE  /\ Only(s)
         /\ SameRequest(sab[s], sab'[s]) /\ SameSnoops(sab[s], sab'[s])
         /\ SameAnswer(sab[s], sab'[s])
         /\ sab'[s].st = sab[s].st /\ sab'[s].snpl2_done = sab[s].snpl2_done
         /\ sab'[s].l2c_req = sab[s].l2c_req /\ sab'[s].l2_hit = sab[s].l2_hit
         /\ sab'[s].l2_pd = sab[s].l2_pd /\ sab'[s].memr = "cmplt"
         /\ sab'[s].new = IF rd(sab[s]) /\ ~sab[s].l2_hit
                          THEN mem[sab[s].line] ELSE sab[s].new
<1> DEFINE new == IF rd(sab[s]) /\ ~sab[s].l2_hit THEN mem[sab[s].line] ELSE sab[s].new
           f == [sab[s] EXCEPT !.memr = "cmplt", !.new = new]
<1>1. sab[s] \in EntryType /\ sab[s].line \in LINE
  BY InUse DEF MemRead
<1>2. new \in BOOLEAN /\ new = IF rd(sab[s]) /\ ~sab[s].l2_hit
                              THEN mem[sab[s].line] ELSE sab[s].new
  BY <1>1 DEF TypeInv, Rest, EntryType
<1>3. sab' = [sab EXCEPT ![s] = f]
  BY DEF MemRead, TypeInv, Entries, EntryType
<1> HIDE DEF new
<1>4. f \in EntryType
  BY <1>1, <1>2 DEF EntryType
<1>5. /\ SameRequest(sab[s], f) /\ SameSnoops(sab[s], f) /\ SameAnswer(sab[s], f)
      /\ f.st = sab[s].st /\ f.snpl2_done = sab[s].snpl2_done
      /\ f.l2c_req = sab[s].l2c_req /\ f.l2_hit = sab[s].l2_hit
      /\ f.l2_pd = sab[s].l2_pd /\ f.memr = "cmplt" /\ f.new = new
  BY <1>1 DEF EntryType, SameRequest, SameSnoops, SameAnswer
<1> HIDE DEF f
<1>6. Only(s) /\ sab'[s] = f
  BY <1>3, <1>4, OnlyOne
<1> QED
  BY <1>2, <1>5, <1>6, Zenon

\* L2Lookup: the way that is hit loses some of its CP bits.
ClearsCp(e, w) == e.st = "L2C" /\ Hit(e.line) # {} /\ w = HitWay(e.line)
SameTags == \A w \in WAY :
  /\ l2'[w].vld = l2[w].vld /\ l2'[w].tag = l2[w].tag /\ l2'[w].pend = l2[w].pend
  /\ l2'[w].dirty = l2[w].dirty /\ l2'[w].new = l2[w].new
LooksUp(e, f) ==
  /\ SameRequest(e, f) /\ SameAnswer(e, f)
  /\ f.st = e.st /\ f.snpl2_done = e.snpl2_done /\ f.memr = e.memr
  /\ f.snp = e.snp /\ f.l1_dt = e.l1_dt /\ f.l1_pd = e.l1_pd
  /\ f.l1_sh = e.l1_sh /\ f.wns_pend = e.wns_pend
  /\ ~f.l2c_req
  /\ f.l2_hit <=> Hit(e.line) # {}
  /\ f.l2_pd <=> Hit(e.line) # {} /\ l2[HitWay(e.line)].dirty
  /\ f.cp = IF e.st = "L2C" /\ Hit(e.line) # {}
            THEN cp_after_mask(e, l2[HitWay(e.line)].cp) ELSE {}
  /\ f.new = IF (e.st = "L2CR" \/ (e.st = "L2C" /\ rd(e))) /\ Hit(e.line) # {} /\ ~e.l1_pd
             THEN l2[HitWay(e.line)].new ELSE e.new

LEMMA L2LookupFull ==
  ASSUME TypeInv, NEW s \in SID, L2Lookup(s)
  PROVE  /\ Only(s) /\ LooksUp(sab[s], sab'[s])
         /\ SameTags
         /\ \A w \in WAY : l2'[w].cp = IF ClearsCp(sab[s], w)
                                       THEN l2[w].cp \ clr_cp(sab[s]) ELSE l2[w].cp
<1> DEFINE e == sab[s]
           hit == Hit(e.line) # {}
           way == l2[HitWay(e.line)]
           reads == e.st = "L2CR" \/ (e.st = "L2C" /\ rd(e))
           pd == hit /\ way.dirty
           cp == IF e.st = "L2C" /\ hit THEN cp_after_mask(e, way.cp) ELSE {}
           new == IF reads /\ hit /\ ~e.l1_pd THEN way.new ELSE e.new
           f == [e EXCEPT !.l2c_req = FALSE, !.l2_hit = hit, !.l2_pd = pd,
                          !.cp = cp, !.new = new]
<1>1. e \in EntryType
  BY DEF TypeInv, Entries
<1>2. hit => way \in WayType /\ HitWay(e.line) \in WAY
  BY HitWayIn DEF TypeInv, Rest, Ways
<1>3. hit \in BOOLEAN /\ pd \in BOOLEAN /\ cp \in SUBSET CORE /\ new \in BOOLEAN
  BY <1>1, <1>2 DEF EntryType, WayType, cp_after_mask
<1>4. sab' = [sab EXCEPT ![s] = f]
  BY Zenon DEF L2Lookup
<1>5. l2' = IF e.st = "L2C" /\ hit
            THEN [l2 EXCEPT ![HitWay(e.line)].cp = @ \ clr_cp(e)] ELSE l2
  BY DEF L2Lookup
<1>6. Only(s) /\ LooksUp(e, sab'[s])
  <2>1. /\ pd <=> Hit(e.line) # {} /\ l2[HitWay(e.line)].dirty
        /\ cp = IF e.st = "L2C" /\ Hit(e.line) # {}
                THEN cp_after_mask(e, l2[HitWay(e.line)].cp) ELSE {}
        /\ new = IF (e.st = "L2CR" \/ (e.st = "L2C" /\ rd(e))) /\ Hit(e.line) # {} /\ ~e.l1_pd
                 THEN l2[HitWay(e.line)].new ELSE e.new
        /\ hit <=> Hit(e.line) # {}
    BY Zenon
  <2> HIDE DEF hit, pd, cp, new, e
  <2>2. f \in EntryType
    BY <1>1, <1>3 DEF EntryType
  <2>3. /\ SameRequest(e, f) /\ SameAnswer(e, f)
        /\ f.st = e.st /\ f.snpl2_done = e.snpl2_done /\ f.memr = e.memr
        /\ f.snp = e.snp /\ f.l1_dt = e.l1_dt /\ f.l1_pd = e.l1_pd
        /\ f.l1_sh = e.l1_sh /\ f.wns_pend = e.wns_pend
        /\ ~f.l2c_req /\ f.l2_hit = hit /\ f.l2_pd = pd /\ f.cp = cp /\ f.new = new
    BY <1>1 DEF EntryType, SameRequest, SameAnswer
  <2> HIDE DEF f
  <2>4. Only(s) /\ sab'[s] = f
    BY <1>4, <2>2, OnlyOne
  <2>5. LooksUp(e, f)
    BY <2>1, <2>3, Zenon DEF LooksUp
  <2> QED
    BY <2>4, <2>5
<1>7. /\ SameTags
      /\ \A w \in WAY : l2'[w].cp = IF ClearsCp(e, w) THEN l2[w].cp \ clr_cp(e) ELSE l2[w].cp
  <2>1. l2 \in [WAY -> WayType]
    BY DEF TypeInv, Rest, Ways
  <2> HIDE DEF e
  <2> QED
    BY <1>2, <1>5, <2>1 DEF SameTags, ClearsCp, WayType
<1> QED
  BY <1>6, <1>7

\* L2Write: the way it writes, and what it leaves there.
WayOf(e) == IF Hit(e.line) # {} THEN HitWay(e.line) ELSE Lowest(RefillWays)
Writes(e) == wtud(e) \/ wtuc(e)
Written(e, f) ==
  /\ SameRequest(e, f) /\ SameAnswer(e, f) /\ SameSnoops(e, f)
  /\ f.st = e.st /\ f.snpl2_done = e.snpl2_done /\ f.memr = e.memr
  /\ ~f.l2c_req
  /\ ~cml2(e) /\ ~snpl2(e) => f.l2_hit = e.l2_hit /\ f.l2_pd = e.l2_pd /\ f.new = e.new
  /\ cml2(e) \/ snpl2(e) =>
       /\ f.l2_hit <=> Hit(e.line) # {}
       /\ f.l2_pd <=> Hit(e.line) # {} /\ l2[HitWay(e.line)].dirty
       /\ f.new = IF (clean(e) \/ (inv(e) /\ ~e.l1_pd)) /\ Hit(e.line) # {} /\ l2[HitWay(e.line)].dirty
                  THEN l2[HitWay(e.line)].new ELSE e.new

LEMMA UpdatedFields ==
  ASSUME NEW e \in EntryType, NEW way \in WayType
  PROVE  /\ Updated(e, way).vld = way.vld /\ Updated(e, way).tag = way.tag
         /\ Updated(e, way).pend = way.pend
         /\ Updated(e, way).dirty <=> (way.dirty \/ wtud(e)) /\ ~wtuc(e) /\ ~clean(e)
         /\ Updated(e, way).cp = way.cp \cup set_cp(e)
         /\ Updated(e, way).new = IF Writes(e) THEN e.new ELSE way.new
<1> DEFINE d == (way.dirty \/ wtud(e)) /\ ~wtuc(e) /\ ~clean(e)
           cp == way.cp \cup set_cp(e)
           n == IF wtud(e) \/ wtuc(e) THEN e.new ELSE way.new
           f == [way EXCEPT !.dirty = d, !.cp = cp, !.new = n]
<1>2. Updated(e, way) = f
  BY Zenon DEF Updated
<1>3. /\ d <=> (way.dirty \/ wtud(e)) /\ ~wtuc(e) /\ ~clean(e)
      /\ n = IF Writes(e) THEN e.new ELSE way.new
  BY DEF Writes
<1>5. cp = way.cp \cup set_cp(e)
  OBVIOUS
<1> HIDE DEF d, cp, n
<1>4. /\ f.vld = way.vld /\ f.tag = way.tag /\ f.pend = way.pend
      /\ f.dirty = d /\ f.cp = cp /\ f.new = n
  BY DEF WayType
<1> HIDE DEF f
<1> QED
  BY <1>2, <1>3, <1>4, <1>5, Zenon

LEMMA EmptiedFields ==
  ASSUME NEW way \in WayType
  PROVE  /\ ~Emptied(way).vld /\ Emptied(way).tag = NONE
         /\ Emptied(way).pend = way.pend /\ ~Emptied(way).dirty
         /\ Emptied(way).cp = {} /\ ~Emptied(way).new
BY DEF Emptied, InvalidWay, WayType

LEMMA L2WriteFull ==
  ASSUME TypeInv, NEW s \in SID, L2Write(s)
  PROVE  LET e == sab[s]
             hit == Hit(e.line) # {}
             w == WayOf(e)
         IN  /\ Only(s) /\ Written(e, sab'[s])
             /\ hit \/ Writes(e) => w \in WAY
             /\ \A v \in WAY : v # w \/ (~hit /\ ~Writes(e)) => l2'[v] = l2[v]
             /\ ~hit /\ Writes(e) => w \in RefillWays /\ l2'[w] = Refilled(e)
             /\ hit /\ inv(e) => l2'[w] = Emptied(l2[w])
             /\ hit /\ ~inv(e) => l2'[w] = Updated(e, l2[w])
<1> DEFINE e == sab[s]
           hit == Hit(e.line) # {}
           w == IF hit THEN HitWay(e.line) ELSE Lowest(RefillWays)
           write == wtud(e) \/ wtuc(e)
           pd == hit /\ l2[w].dirty
           new == IF (clean(e) \/ (inv(e) /\ ~e.l1_pd)) /\ hit /\ l2[w].dirty
                  THEN l2[w].new ELSE e.new
<1>1. e \in EntryType
  BY InUse
<1>2. /\ hit => w \in WAY
      /\ ~hit /\ write => w \in RefillWays /\ w \in WAY
  <2>1. hit => HitWay(e.line) \in WAY
    BY HitWayIn
  <2>2. RefillWays \subseteq WAY /\ RefillWays \subseteq Nat
    BY Sizes DEF RefillWays
  <2>3. ~hit /\ write => RefillWays # {}
    BY DEF L2Write
  <2> QED
    BY <2>1, <2>2, <2>3, LowestIn
<1>3. hit => l2[w] \in WayType
  BY <1>2 DEF TypeInv, Rest, Ways
<1>4. hit \in BOOLEAN /\ pd \in BOOLEAN /\ new \in BOOLEAN
  BY <1>1, <1>3 DEF EntryType, WayType
<1>5. /\ pd <=> Hit(e.line) # {} /\ l2[HitWay(e.line)].dirty
      /\ new = IF (clean(e) \/ (inv(e) /\ ~e.l1_pd)) /\ Hit(e.line) # {} /\ l2[HitWay(e.line)].dirty
               THEN l2[HitWay(e.line)].new ELSE e.new
      /\ hit <=> Hit(e.line) # {}
  OBVIOUS
<1>6. Only(s) /\ Written(e, sab'[s])
  <2> DEFINE f == [e EXCEPT !.l2c_req = FALSE, !.l2_hit = hit, !.l2_pd = pd, !.new = new]
             g == [e EXCEPT !.l2c_req = FALSE]
  <2>1. sab' = [sab EXCEPT ![s] = IF cml2(e) \/ snpl2(e) THEN f ELSE g]
    BY Zenon DEF L2Write
  <2> HIDE DEF hit, pd, new, e
  <2>2. f \in EntryType /\ g \in EntryType
    <3>1. f \in EntryType
      BY <1>1, <1>4 DEF EntryType
    <3>2. g \in EntryType
      BY <1>1 DEF EntryType
    <3> QED
      BY <3>1, <3>2
  <2>3. /\ SameRequest(e, f) /\ SameAnswer(e, f) /\ SameSnoops(e, f)
        /\ f.st = e.st /\ f.snpl2_done = e.snpl2_done /\ f.memr = e.memr
        /\ ~f.l2c_req /\ f.l2_hit = hit /\ f.l2_pd = pd /\ f.new = new
    BY <1>1 DEF EntryType, SameRequest, SameAnswer, SameSnoops
  <2>4. /\ SameRequest(e, g) /\ SameAnswer(e, g) /\ SameSnoops(e, g)
        /\ g.st = e.st /\ g.snpl2_done = e.snpl2_done /\ g.memr = e.memr
        /\ ~g.l2c_req /\ g.l2_hit = e.l2_hit /\ g.l2_pd = e.l2_pd /\ g.new = e.new
    BY <1>1 DEF EntryType, SameRequest, SameAnswer, SameSnoops
  <2> HIDE DEF f, g
  <2> DEFINE h == IF cml2(e) \/ snpl2(e) THEN f ELSE g
  <2>5. h \in EntryType
    BY <2>2
  <2>6. Written(e, h)
    BY <1>5, <2>3, <2>4 DEF Written
  <2> HIDE DEF h
  <2>7. sab' = [sab EXCEPT ![s] = h]
    BY <2>1 DEF h
  <2>8. Only(s) /\ sab'[s] = h
    BY <2>5, <2>7, OnlyOne
  <2> QED
    BY <2>6, <2>8
<1>7. l2 \in [WAY -> WayType]
  BY DEF TypeInv, Rest, Ways
<1>8. /\ ~hit /\ write => l2' = [l2 EXCEPT ![w] = Refilled(e)]
      /\ hit /\ inv(e) => l2' = [l2 EXCEPT ![w] = Emptied(l2[w])]
      /\ hit /\ ~inv(e) => l2' = [l2 EXCEPT ![w] = Updated(e, l2[w])]
      /\ ~hit /\ ~write => l2' = l2
  <2>1. /\ ~hit /\ write => l2' = [l2 EXCEPT ![w] = Refilled(e)]
        /\ ~hit /\ ~write => l2' = l2
    BY Zenon DEF L2Write
  <2>2. hit /\ inv(e) => l2' = [l2 EXCEPT ![w] = Emptied(l2[w])]
    BY Zenon DEF L2Write
  <2>3. hit /\ ~inv(e) => l2' = [l2 EXCEPT ![w] = Updated(e, l2[w])]
    BY Zenon DEF L2Write
  <2> QED
    BY <2>1, <2>2, <2>3
<1>9. w = WayOf(e) /\ (write <=> Writes(e))
  BY Zenon DEF WayOf, Writes
<1> HIDE DEF e, w, hit, write
<1>10. /\ \A v \in WAY : v # w \/ (~hit /\ ~write) => l2'[v] = l2[v]
       /\ ~hit /\ write => l2'[w] = Refilled(e)
       /\ hit /\ inv(e) => l2'[w] = Emptied(l2[w])
       /\ hit /\ ~inv(e) => l2'[w] = Updated(e, l2[w])
  BY <1>2, <1>7, <1>8
<1> QED
  BY <1>2, <1>5, <1>6, <1>9, <1>10, Zenon DEF e

\* L2Allocate: the entry goes to MEMR, and if its way is in use a snoop of the
\* L2 is created.
Fetches(e, f) ==
  /\ SameRequest(e, f) /\ SameAnswer(e, f)
  /\ f.st = "MEMR" /\ ~f.l2c_req /\ f.memr = "req"
  /\ f.wns_pend = e.wns_pend /\ f.l2_hit = e.l2_hit /\ f.l2_pd = e.l2_pd
  /\ f.l1_dt = e.l1_dt /\ f.l1_pd = e.l1_pd /\ f.l1_sh = e.l1_sh
  /\ f.new = e.new /\ f.snp = e.snp /\ f.cp = {}

LEMMA WayFifoFree ==
  ASSUME NotPending # {}
  PROVE  way_fifo \in NotPending
<1>1. NotPending \subseteq Nat
  BY Sizes DEF NotPending
<1>2. Lowest(NotPending) \in NotPending
  BY <1>1, LowestIn
<1> QED
  BY <1>2 DEF way_fifo

LEMMA L2AllocateFull ==
  ASSUME TypeInv, NEW s \in SID, L2Allocate(s)
  PROVE  LET w == way_fifo
             n == Lowest(FreeEntries(RSID))
         IN  /\ w \in WAY /\ ~l2[w].pend
             /\ sab' \in [SID -> EntryType]
             /\ Fetches(sab[s], sab'[s])
             /\ ~l2[w].vld => sab'[s].snpl2_done /\ Only(s)
             /\ l2[w].vld =>
                  /\ sab'[s].snpl2_done = sab[s].snpl2_done
                  /\ n \in RSID /\ n \notin Valid /\ n # s
                  /\ IsNew(sab'[n], "snpl2", l2[w].tag, NONE, SnpL2Depd, s)
                  /\ \A t \in SID \ {s, n} : sab'[t] = sab[t]
             /\ \A v \in WAY : v # w => l2'[v] = l2[v]
             /\ l2'[w].vld = l2[w].vld /\ l2'[w].tag = l2[w].tag /\ l2'[w].pend
             /\ l2'[w].dirty = l2[w].dirty /\ l2'[w].cp = l2[w].cp
             /\ l2'[w].new = l2[w].new
<1> DEFINE w == way_fifo
           g == Goto(sab[s], "MEMR")
           n == Lowest(FreeEntries(RSID))
           f == NewEntry("snpl2", l2[w].tag, NONE, SnpL2Depd, s)
           h == [g EXCEPT !.snpl2_done = TRUE]
<1>1. w \in WAY /\ ~l2[w].pend /\ sab[s].st = "L2CA"
  BY WayFifoFree DEF L2Allocate, NotPending
<1>2. sab[s] \in EntryType /\ "MEMR" \in MainState /\ sab \in [SID -> EntryType]
  BY InUse DEF MainState, TypeInv, Entries
<1>3. g \in EntryType /\ GoesTo(sab[s], g, "MEMR")
  BY <1>2, GotoFull, GotoType
<1>4. Fetches(sab[s], g) /\ g.snpl2_done = sab[s].snpl2_done
  <2>1. ~rresp_rdy(sab[s], "MEMR")
    BY DEF rresp_rdy
  <2>2. g.snpl2_done \in BOOLEAN /\ sab[s].snpl2_done \in BOOLEAN
    BY <1>2, <1>3 DEF EntryType
  <2> HIDE DEF g
  <2> QED
    BY <1>3, <2>1, <2>2 DEF GoesTo, Fetches, SameAnswer
<1>5. /\ h \in EntryType /\ Fetches(sab[s], h) /\ h.snpl2_done
  <2> HIDE DEF g
  <2>1. h \in EntryType
    BY <1>3 DEF EntryType
  <2>2. /\ SameRequest(g, h) /\ SameAnswer(g, h) /\ h.st = g.st /\ h.l2c_req = g.l2c_req
        /\ h.memr = g.memr
        /\ h.wns_pend = g.wns_pend /\ h.l2_hit = g.l2_hit /\ h.l2_pd = g.l2_pd
        /\ h.l1_dt = g.l1_dt /\ h.l1_pd = g.l1_pd /\ h.l1_sh = g.l1_sh
        /\ h.new = g.new /\ h.snp = g.snp /\ h.cp = g.cp
        /\ h.snpl2_done
    BY <1>3 DEF EntryType, SameRequest, SameAnswer
  <2> HIDE DEF h
  <2>3. Fetches(sab[s], h)
    BY <1>4, <2>2 DEF Fetches, SameRequest, SameAnswer
  <2> QED
    BY <2>1, <2>2, <2>3
<1>6. l2[w].vld => /\ n \in RSID /\ n \notin Valid /\ n # s
                   /\ f \in EntryType
                   /\ IsNew(f, "snpl2", l2[w].tag, NONE, SnpL2Depd, s)
  <2> SUFFICES ASSUME l2[w].vld
               PROVE  /\ n \in RSID /\ n \notin Valid /\ n # s
                      /\ f \in EntryType
                      /\ IsNew(f, "snpl2", l2[w].tag, NONE, SnpL2Depd, s)
    OBVIOUS
  <2>1. n \in RSID /\ n \notin Valid /\ n # s
    <3>1. FreeEntries(RSID) \subseteq Nat /\ FreeEntries(RSID) # {}
      BY Sizes DEF FreeEntries, L2Allocate
    <3>2. n \in FreeEntries(RSID)
      BY <3>1, LowestIn
    <3>3. s \in Valid
      BY <1>1 DEF Valid
    <3> QED
      BY <3>2, <3>3 DEF FreeEntries
  <2>2. /\ l2[w].tag \in LINE /\ "snpl2" \in Kind /\ SnpL2Depd \in SUBSET SID
        /\ NONE \in CORE \cup {NONE}
    BY <1>1 DEF TypeInv, Rest, Ways, Kind, SnpL2Depd, WnsEntries, Valid
  <2>3. ASSUME NEW l \in LINE, NEW D \in SUBSET SID, NEW e,
               e = NewEntry("snpl2", l, NONE, D, s)
        PROVE  e \in EntryType /\ IsNew(e, "snpl2", l, NONE, D, s)
    BY <2>2, <2>3, NewEntryFull, NewEntryType
  <2>4. f = NewEntry("snpl2", l2[w].tag, NONE, SnpL2Depd, s)
    OBVIOUS
  <2> HIDE DEF f, w, n
  <2> QED
    BY <2>1, <2>2, <2>3, <2>4
<1>7. /\ ~l2[w].vld => sab' = [sab EXCEPT ![s] = h]
      /\ l2[w].vld => sab' = [sab EXCEPT ![s] = g, ![n] = f]
  BY Zenon DEF L2Allocate
<1>8. l2' = [l2 EXCEPT ![w].pend = TRUE]
  BY DEF L2Allocate
<1> HIDE DEF w, n, g, f, h
<1>9. /\ sab' \in [SID -> EntryType]
      /\ ~l2[w].vld => sab'[s] = h /\ Only(s)
      /\ l2[w].vld => /\ sab'[s] = g /\ sab'[n] = f
                      /\ \A t \in SID \ {s, n} : sab'[t] = sab[t]
  <2>1. CASE ~l2[w].vld
    BY <1>2, <1>5, <1>7, <2>1 DEF Only
  <2>2. CASE l2[w].vld
    <3>1. n \in SID /\ n # s
      BY <1>6, <2>2, Sizes
    <3> QED
      BY <1>2, <1>3, <1>6, <1>7, <2>2, <3>1
  <2> QED
    BY <2>1, <2>2
<1>10. /\ \A v \in WAY : v # w => l2'[v] = l2[v]
       /\ l2'[w].vld = l2[w].vld /\ l2'[w].tag = l2[w].tag /\ l2'[w].pend
       /\ l2'[w].dirty = l2[w].dirty /\ l2'[w].cp = l2[w].cp
       /\ l2'[w].new = l2[w].new
  BY <1>1, <1>8 DEF TypeInv, Rest, Ways, WayType
<1>11. /\ Fetches(sab[s], sab'[s])
       /\ ~l2[w].vld => sab'[s].snpl2_done
       /\ l2[w].vld => sab'[s].snpl2_done = sab[s].snpl2_done
  BY <1>4, <1>5, <1>9
<1> QED
  BY <1>1, <1>6, <1>9, <1>10, <1>11, Zenon DEF w, n

\* SnpResp: what the core finds, and what it leaves.
Bypass(c, l) == vb[c].line = l /\ vb[c].st = "hold" /\ vb[c].kind # "evict"
Cancel(c, l) == vb[c].line = l /\ vb[c].st = "hold" /\ vb[c].kind = "evict"
Dirty(c, l) == Bypass(c, l) \/ l1[c][l].st = "M"
Snooped(e, f, c) ==
  /\ SameRequest(e, f) /\ SameAccess(e, f) /\ SameAnswer(e, f)
  /\ f.cp = e.cp /\ f.wns_pend = e.wns_pend
  /\ f.snp = e.snp \ {c}
  /\ f.l1_dt <=> e.l1_dt \/ Dirty(c, e.line)
  /\ f.l1_pd <=> e.l1_pd \/ (Dirty(c, e.line) /\ acsnoop(e) # "RO")
  /\ f.l1_sh <=> e.l1_sh \/ (/\ Bypass(c, e.line) \/ l1[c][e.line].st # "I"
                             /\ acsnoop(e) # "CI")
  /\ f.new = IF Bypass(c, e.line) THEN vb[c].new
             ELSE IF l1[c][e.line].st = "M" THEN l1[c][e.line].new ELSE e.new

\* What an update of one line of one core leaves in the L1 caches.
OtherLines(c, l) == \A d \in CORE, m \in LINE : d # c \/ m # l => l1'[d][m] = l1[d][m]

LEMMA OneLine ==
  ASSUME Level1, NEW c \in CORE, NEW l \in LINE, NEW r,
         l1' = [l1 EXCEPT ![c] = [l1[c] EXCEPT ![l] = r]]
  PROVE  OtherLines(c, l) /\ l1'[c][l] = r
BY DEF Level1, OtherLines

LEMMA SnpRespFull ==
  ASSUME TypeInv, NEW s \in SID, NEW c \in CORE, SnpResp(s, c)
  PROVE  LET e == sab[s]
             l == e.line
             k == acsnoop(e)
         IN  /\ l \in LINE
             /\ Only(s) /\ Snooped(e, sab'[s], c)
             /\ \A d \in CORE : d # c => vb'[d] = vb[d]
             /\ vb'[c] = IF Cancel(c, l) \/ (Bypass(c, l) /\ k # "RO") THEN NoVB ELSE vb[c]
             /\ OtherLines(c, l)
             /\ k = "CI" => l1'[c][l] = Invalid
             /\ k = "CS" => l1'[c][l].st = IF l1[c][l].st = "I" THEN "I" ELSE "S"
             /\ k # "CI" => l1'[c][l].new = l1[c][l].new
             /\ k \notin {"CI", "CS"} => l1'[c][l].st = l1[c][l].st
<1> DEFINE e == sab[s]
           l == e.line
           k == acsnoop(e)
           mine == vb[c].line = l
           bypass == mine /\ vb[c].st = "hold" /\ vb[c].kind # "evict"
           cancel == mine /\ vb[c].st = "hold" /\ vb[c].kind = "evict"
           st == l1[c][l].st
           dirty == bypass \/ st = "M"
           snp == e.snp \ {c}
           l1_dt == e.l1_dt \/ dirty
           l1_pd == e.l1_pd \/ (dirty /\ k # "RO")
           l1_sh == e.l1_sh \/ ((bypass \/ st # "I") /\ k # "CI")
           new == CASE bypass -> vb[c].new
                    [] ~bypass /\ dirty -> l1[c][l].new
                    [] OTHER -> e.new
           f == [e EXCEPT !.snp = snp, !.l1_dt = l1_dt, !.l1_pd = l1_pd,
                          !.l1_sh = l1_sh, !.new = new]
<1>1. e \in EntryType /\ l \in LINE
  BY InUse DEF SnpResp
<1>2. vb[c] \in VBType /\ l1[c][l] \in LineInL1
  BY <1>1 DEF TypeInv, Rest, VictimBuffers, Level1
<1>3. /\ snp \in SUBSET CORE /\ l1_dt \in BOOLEAN /\ l1_pd \in BOOLEAN
      /\ l1_sh \in BOOLEAN
  BY <1>1 DEF EntryType
<1>4. new \in BOOLEAN
  BY <1>1, <1>2 DEF EntryType, VBType, LineInL1
<1>5. /\ bypass <=> Bypass(c, l)
      /\ cancel <=> Cancel(c, l)
      /\ dirty <=> Dirty(c, l)
  BY DEF Bypass, Cancel, Dirty
<1>6. new = IF Bypass(c, l) THEN vb[c].new
            ELSE IF l1[c][l].st = "M" THEN l1[c][l].new ELSE e.new
  BY DEF Bypass
<1>7. Only(s) /\ Snooped(e, sab'[s], c)
  <2>1. sab' = [sab EXCEPT ![s] = f]
    BY ZenonT(30) DEF SnpResp
  <2>2. /\ l1_dt <=> e.l1_dt \/ Dirty(c, l)
        /\ l1_pd <=> e.l1_pd \/ (Dirty(c, l) /\ k # "RO")
        /\ l1_sh <=> e.l1_sh \/ ((Bypass(c, l) \/ l1[c][l].st # "I") /\ k # "CI")
        /\ snp = e.snp \ {c}
    BY <1>5
  <2> HIDE DEF e, snp, l1_dt, l1_pd, l1_sh, new
  <2>3. f \in EntryType
    BY <1>1, <1>3, <1>4 DEF EntryType
  <2>4. /\ SameRequest(e, f) /\ SameAccess(e, f) /\ SameAnswer(e, f)
        /\ f.cp = e.cp /\ f.wns_pend = e.wns_pend
        /\ f.snp = snp /\ f.l1_dt = l1_dt /\ f.l1_pd = l1_pd /\ f.l1_sh = l1_sh
        /\ f.new = new
    BY <1>1 DEF EntryType, SameRequest, SameAccess, SameAnswer
  <2> HIDE DEF f
  <2>5. Snooped(e, f, c)
    BY <1>6, <2>2, <2>4, Zenon DEF Snooped
  <2>6. Only(s) /\ sab'[s] = f
    BY <2>1, <2>3, OnlyOne DEF e
  <2> QED
    BY <2>5, <2>6
<1>8. /\ \A d \in CORE : d # c => vb'[d] = vb[d]
      /\ vb'[c] = IF Cancel(c, l) \/ (Bypass(c, l) /\ k # "RO") THEN NoVB ELSE vb[c]
  <2>1. vb' = IF cancel \/ (bypass /\ k # "RO") THEN [vb EXCEPT ![c] = NoVB] ELSE vb
    BY Zenon DEF SnpResp
  <2>2. vb \in [CORE -> VBType]
    BY DEF TypeInv, Rest, VictimBuffers
  <2> HIDE DEF e, cancel, bypass
  <2> QED
    BY <1>5, <2>1, <2>2
<1>9. k \in {"CI", "CS", "RO"} \/ k \notin {"CI", "CS"}
  OBVIOUS
<1>10. /\ k = "CI" => l1' = [l1 EXCEPT ![c] = [l1[c] EXCEPT ![l] = Invalid]]
       /\ k = "CS" /\ st # "I" =>
            l1' = [l1 EXCEPT ![c] = [l1[c] EXCEPT ![l] = [l1[c][l] EXCEPT !.st = "S"]]]
       /\ k # "CI" /\ ~(k = "CS" /\ st # "I") => l1' = l1
  <2>1. l1' = CASE k = "CI" -> [l1 EXCEPT ![c][l] = Invalid]
                [] k = "CS" /\ st # "I" -> [l1 EXCEPT ![c][l].st = "S"]
                [] OTHER -> l1
    BY Zenon DEF SnpResp
  <2> HIDE DEF e, k, st
  <2> QED
    BY <2>1
<1>11. /\ OtherLines(c, l)
       /\ k = "CI" => l1'[c][l] = Invalid
       /\ k = "CS" => l1'[c][l].st = IF l1[c][l].st = "I" THEN "I" ELSE "S"
       /\ k # "CI" => l1'[c][l].new = l1[c][l].new
       /\ k \notin {"CI", "CS"} => l1'[c][l].st = l1[c][l].st
  <2>1. Level1
    BY DEF TypeInv, Rest
  <2>2. [l1[c][l] EXCEPT !.st = "S"].st = "S" /\ [l1[c][l] EXCEPT !.st = "S"].new = l1[c][l].new
    BY <1>2 DEF LineInL1
  <2>3. CASE k = "CI"
    BY <1>1, <1>10, <2>1, <2>3, OneLine
  <2>4. CASE k = "CS" /\ st # "I"
    <3>1. OtherLines(c, l) /\ l1'[c][l] = [l1[c][l] EXCEPT !.st = "S"]
      BY SMTT(30), <1>1, <1>10, <2>1, <2>4, OneLine
    <3> QED
      BY <2>2, <2>4, <3>1
  <2>5. CASE k # "CI" /\ ~(k = "CS" /\ st # "I")
    BY <1>10, <2>5 DEF OtherLines
  <2> QED
    BY <2>3, <2>4, <2>5
<1> QED
  BY <1>1, <1>7, <1>8, <1>11, Zenon

\* SendB and SendR.
Answered(e, f) ==
  /\ SameRequest(e, f) /\ SameSnoops(e, f) /\ SameAccess(e, f)
  /\ f.new = e.new /\ f.wt = e.wt /\ f.resp = "sent" /\ f.ack

LEMMA AnswerFull ==
  ASSUME TypeInv, NEW s \in SID,
         sab' = [sab EXCEPT ![s].resp = "sent", ![s].ack = TRUE]
  PROVE  Only(s) /\ Answered(sab[s], sab'[s])
<1> DEFINE f == [sab[s] EXCEPT !.resp = "sent", !.ack = TRUE]
<1>1. sab[s] \in EntryType
  BY InUse
<1>2. sab' = [sab EXCEPT ![s] = f]
  BY DEF TypeInv, Entries, EntryType
<1>3. f \in EntryType /\ Answered(sab[s], f)
  <2>1. f \in EntryType
    BY <1>1 DEF EntryType
  <2>2. /\ SameRequest(sab[s], f) /\ SameSnoops(sab[s], f) /\ SameAccess(sab[s], f)
        /\ f.new = sab[s].new /\ f.wt = sab[s].wt /\ f.resp = "sent" /\ f.ack
    BY <1>1 DEF EntryType, SameRequest, SameSnoops, SameAccess
  <2> HIDE DEF f
  <2> QED
    BY <2>1, <2>2 DEF Answered
<1> HIDE DEF f
<1> QED
  BY <1>2, <1>3, OnlyOne

LEMMA SendBFull ==
  ASSUME TypeInv, NEW s \in SID, SendB(s)
  PROVE  /\ sab[s].mid \in CORE /\ sab[s].line \in LINE
         /\ Only(s) /\ Answered(sab[s], sab'[s])
         /\ \A c \in CORE : vb'[c] = IF c = sab[s].mid THEN NoVB ELSE vb[c]
<1>1. Only(s) /\ Answered(sab[s], sab'[s])
  BY AnswerFull DEF SendB
<1>2. sab[s].mid \in CORE /\ sab[s].line \in LINE
  BY InUse DEF SendB, WriteKind
<1>3. vb \in [CORE -> VBType]
  BY DEF TypeInv, Rest, VictimBuffers
<1>4. \A c \in CORE : vb'[c] = IF c = sab[s].mid THEN NoVB ELSE vb[c]
  BY <1>2, <1>3 DEF SendB
<1> QED
  BY <1>1, <1>2, <1>4

LEMMA SendRFull ==
  ASSUME TypeInv, NEW s \in SID, SendR(s)
  PROVE  LET e == sab[s]
             c == e.mid
             l == e.line
         IN  /\ c \in CORE /\ l \in LINE
             /\ Only(s) /\ Answered(e, sab'[s])
             /\ \A d \in CORE : req'[d] = IF d = c THEN NoReq ELSE req[d]
             /\ OtherLines(c, l)
             /\ e.kind = "rs" =>
                  l1'[c][l] = [st |-> IF e.l1_sh THEN "S" ELSE "E", new |-> e.new]
             /\ e.kind = "ru" => l1'[c][l] = [st |-> "E", new |-> e.new]
             /\ e.kind = "cu" /\ l1[c][l].st = "S" => l1'[c][l].st = "E"
             /\ e.kind \notin {"rs", "ru"} => l1'[c][l].new = l1[c][l].new
             /\ e.kind \notin {"rs", "ru"} /\ ~(e.kind = "cu" /\ l1[c][l].st = "S")
                  => l1'[c][l].st = l1[c][l].st
<1> DEFINE e == sab[s]
           c == e.mid
           l == e.line
<1>1. c \in CORE /\ l \in LINE
  BY InUse DEF SendR, ReadKind
<1>2. Only(s) /\ Answered(e, sab'[s])
  BY AnswerFull DEF SendR
<1>3. \A d \in CORE : req'[d] = IF d = c THEN NoReq ELSE req[d]
  <2>1. req \in [CORE -> ReqType]
    BY DEF TypeInv, Rest, Requests
  <2> QED
    BY <1>1, <2>1 DEF SendR
<1>4. l1[c][l] \in LineInL1 /\ Level1
  BY <1>1 DEF TypeInv, Rest, Level1
<1>5. [l1[c][l] EXCEPT !.st = "E"].st = "E" /\ [l1[c][l] EXCEPT !.st = "E"].new = l1[c][l].new
  BY <1>4 DEF LineInL1
<1>6. /\ e.kind = "rs" => l1' = [l1 EXCEPT ![c] = [l1[c] EXCEPT ![l] =
                             [st |-> IF e.l1_sh THEN "S" ELSE "E", new |-> e.new]]]
      /\ e.kind = "ru" => l1' = [l1 EXCEPT ![c] = [l1[c] EXCEPT ![l] =
                             [st |-> "E", new |-> e.new]]]
      /\ e.kind = "cu" /\ l1[c][l].st = "S" =>
           l1' = [l1 EXCEPT ![c] = [l1[c] EXCEPT ![l] = [l1[c][l] EXCEPT !.st = "E"]]]
      /\ e.kind \notin {"rs", "ru"} /\ ~(e.kind = "cu" /\ l1[c][l].st = "S") => l1' = l1
  <2> DEFINE a == IF e.l1_sh THEN "S" ELSE "E"
             n == e.new
  <2>1. l1' = CASE e.kind = "rs" -> [l1 EXCEPT ![c][l] = [st |-> a, new |-> n]]
                [] e.kind = "ru" -> [l1 EXCEPT ![c][l] = [st |-> "E", new |-> n]]
                [] e.kind = "cu" /\ l1[c][l].st = "S" -> [l1 EXCEPT ![c][l].st = "E"]
                [] OTHER -> l1
    BY Zenon DEF SendR
  <2> HIDE DEF a, n, c, l
  <2>2. /\ e.kind = "rs" => l1' = [l1 EXCEPT ![c] = [l1[c] EXCEPT ![l] = [st |-> a, new |-> n]]]
        /\ e.kind = "ru" => l1' = [l1 EXCEPT ![c] = [l1[c] EXCEPT ![l] = [st |-> "E", new |-> n]]]
        /\ e.kind = "cu" /\ l1[c][l].st = "S" =>
             l1' = [l1 EXCEPT ![c] = [l1[c] EXCEPT ![l] = [l1[c][l] EXCEPT !.st = "E"]]]
        /\ e.kind \notin {"rs", "ru"} /\ ~(e.kind = "cu" /\ l1[c][l].st = "S") => l1' = l1
    BY <2>1
  <2> QED
    BY <2>2, Zenon DEF a, n, c, l
<1>7. CASE e.kind \in {"rs", "ru"}
  <2>1. PICK r : /\ l1' = [l1 EXCEPT ![c] = [l1[c] EXCEPT ![l] = r]]
                 /\ e.kind = "rs" => r = [st |-> IF e.l1_sh THEN "S" ELSE "E", new |-> e.new]
                 /\ e.kind = "ru" => r = [st |-> "E", new |-> e.new]
    BY <1>6, <1>7
  <2> HIDE DEF e, c, l
  <2>3. l1' = [l1 EXCEPT ![c] = [l1[c] EXCEPT ![l] = r]]
    BY <2>1, Zenon
  <2>4. Level1 /\ c \in CORE /\ l \in LINE
    BY <1>1, <1>4, Zenon
  <2>2. OtherLines(c, l) /\ l1'[c][l] = r
    BY <2>3, <2>4, OneLine, Zenon
  <2> QED
    BY <1>1, <1>2, <1>3, <1>7, <2>1, <2>2, Zenon DEF e, c, l
<1>8. CASE e.kind = "cu" /\ l1[c][l].st = "S"
  <2>1. OtherLines(c, l) /\ l1'[c][l] = [l1[c][l] EXCEPT !.st = "E"]
    BY <1>1, <1>4, <1>6, <1>8, OneLine
  <2> HIDE DEF e, c, l
  <2>2. e.kind \notin {"rs", "ru"} /\ l1'[c][l].st = "E" /\ l1'[c][l].new = l1[c][l].new
    BY <1>5, <1>8, <2>1
  <2> QED
    BY <1>1, <1>2, <1>3, <1>8, <2>1, <2>2 DEF e, c, l
<1>9. CASE e.kind \notin {"rs", "ru"} /\ ~(e.kind = "cu" /\ l1[c][l].st = "S")
  <2>1. l1' = l1
    BY <1>6, <1>9
  <2>2. OtherLines(c, l) /\ l1'[c][l] = l1[c][l]
    BY <2>1 DEF OtherLines
  <2> HIDE DEF e, c, l
  <2> QED
    BY <1>1, <1>2, <1>3, <1>9, <2>2 DEF e, c, l
<1> QED
  BY <1>7, <1>8, <1>9

\* Pop: nobody waits for the entry any more.
Released(e, f, s, done) ==
  /\ f.kind = e.kind /\ f.line = e.line /\ f.mid = e.mid /\ f.ini = e.ini
  /\ f.depd = e.depd \ {s} /\ f.older = e.older \ {s}
  /\ f.snpl2_done <=> e.snpl2_done \/ done
  /\ f.st = e.st /\ f.memr = e.memr
  /\ f.l2c_req = e.l2c_req /\ f.l2_hit = e.l2_hit /\ f.l2_pd = e.l2_pd
  /\ SameSnoops(e, f) /\ SameAnswer(e, f) /\ f.new = e.new

LEMMA PopFull ==
  ASSUME TypeInv, NEW s \in SID, Pop(s)
  PROVE  /\ sab' \in [SID -> EntryType]
         /\ sab'[s] = IdleEntry
         /\ \A t \in SID \ {s} :
              Released(sab[t], sab'[t], s, snpl2(sab[s]) /\ sab[s].ini = t)
<1> DEFINE m(t) == [sab[t] EXCEPT !.depd = @ \ {s}, !.older = @ \ {s},
                      !.snpl2_done = @ \/ (snpl2(sab[s]) /\ sab[s].ini = t)]
<1>1. sab' = [t \in SID |-> IF t = s THEN IdleEntry ELSE m(t)]
  BY Zenon DEF Pop
<1>2. IdleEntry \in EntryType
  BY Sizes DEF IdleEntry, EntryType, MainState, Kind
<1>3. ASSUME NEW t \in SID
      PROVE  /\ m(t) \in EntryType
             /\ Released(sab[t], m(t), s, snpl2(sab[s]) /\ sab[s].ini = t)
  <2> DEFINE e == sab[t]
             dep == e.depd \ {s}
             old == e.older \ {s}
             frees == snpl2(sab[s]) /\ sab[s].ini = t
             don == e.snpl2_done \/ frees
             f == [e EXCEPT !.depd = dep, !.older = old, !.snpl2_done = don]
  <2>1. e \in EntryType
    BY InUse
  <2>2. dep \in SUBSET SID /\ old \in SUBSET SID /\ don \in BOOLEAN
    BY <2>1 DEF EntryType
  <2>3. m(t) = f
    BY Zenon
  <2>4. /\ dep = e.depd \ {s} /\ old = e.older \ {s} /\ (don <=> e.snpl2_done \/ frees)
    OBVIOUS
  <2>5. e = sab[t] /\ (frees <=> snpl2(sab[s]) /\ sab[s].ini = t)
    OBVIOUS
  <2> HIDE DEF m, e, dep, old, don
  <2>6. f \in EntryType
    BY <2>1, <2>2 DEF EntryType
  <2>7. /\ f.kind = e.kind /\ f.line = e.line /\ f.mid = e.mid /\ f.ini = e.ini
        /\ f.depd = dep /\ f.older = old /\ f.snpl2_done = don
        /\ f.st = e.st /\ f.memr = e.memr
        /\ f.l2c_req = e.l2c_req /\ f.l2_hit = e.l2_hit /\ f.l2_pd = e.l2_pd
        /\ SameSnoops(e, f) /\ SameAnswer(e, f) /\ f.new = e.new
    BY <2>1, <2>2 DEF EntryType, SameSnoops, SameAnswer
  <2> HIDE DEF f, frees
  <2>8. Released(e, f, s, frees)
    BY <2>4, <2>7, Zenon DEF Released
  <2> QED
    BY <2>3, <2>6, <2>8, Zenon DEF e, frees
<1> HIDE DEF m
<1> QED
  BY <1>1, <1>2, <1>3

\* CreateRead and CreateWrite.
LEMMA CreateReadFull ==
  ASSUME TypeInv, NEW c \in CORE, CreateRead(c)
  PROVE  LET n == Lowest(FreeEntries(PiuSid))
         IN  /\ n \in PiuSid /\ n \in SID /\ n \notin Valid
             /\ req[c].kind \in ReadKind /\ req[c].line \in LINE
             /\ Only(n) /\ IsNew(sab'[n], req[c].kind, req[c].line, c, Valid, 0)
             /\ \A d \in CORE : d # c => req'[d] = req[d]
             /\ req'[c].kind = req[c].kind /\ req'[c].line = req[c].line
             /\ req'[c].sent /\ req'[c].stored = req[c].stored
<1> DEFINE n == Lowest(FreeEntries(PiuSid))
           f == NewEntry(req[c].kind, req[c].line, c, Valid, 0)
<1>1. n \in PiuSid /\ n \in SID /\ n \notin Valid
  <2>1. FreeEntries(PiuSid) \subseteq SID /\ FreeEntries(PiuSid) \subseteq Nat
    BY Sizes DEF FreeEntries
  <2>2. n \in FreeEntries(PiuSid)
    BY <2>1, LowestIn DEF CreateRead
  <2> QED
    BY <2>1, <2>2 DEF FreeEntries
<1>2. req[c].kind \in ReadKind /\ req[c].line \in LINE
  BY DEF CreateRead, TypeInv, Rest, Requests, ReqType
<1>3. /\ req[c].kind \in Kind /\ Valid \in SUBSET SID /\ 0 \in SID
      /\ c \in CORE \cup {NONE}
  BY <1>2, Sizes DEF Kind, Valid
<1>4. f \in EntryType /\ IsNew(f, req[c].kind, req[c].line, c, Valid, 0)
  BY <1>2, <1>3, NewEntryType, NewEntryFull
<1>5. sab' = [sab EXCEPT ![n] = f]
  BY DEF CreateRead
<1> HIDE DEF n, f
<1>6. Only(n) /\ sab'[n] = f
  BY <1>1, <1>4, <1>5, OnlyOne
<1>7. /\ \A d \in CORE : d # c => req'[d] = req[d]
      /\ req'[c].kind = req[c].kind /\ req'[c].line = req[c].line
      /\ req'[c].sent /\ req'[c].stored = req[c].stored
  BY DEF CreateRead, TypeInv, Rest, Requests, ReqType
<1> QED
  BY <1>1, <1>2, <1>4, <1>6, <1>7, Zenon DEF n

\* An entry that the creation of write n makes wait for it, or not.
MarkedBack(e, f, n) ==
  /\ f.kind = e.kind /\ f.line = e.line /\ f.mid = e.mid /\ f.older = e.older
  /\ f.ini = e.ini
  /\ f.depd = IF back_mark(e) THEN e.depd \cup {n} ELSE e.depd
  /\ f.wns_pend <=> e.wns_pend \/ back_mark(e)
  /\ SameAccess(e, f) /\ SameAnswer(e, f) /\ f.new = e.new
  /\ f.cp = e.cp /\ f.snp = e.snp /\ f.l1_dt = e.l1_dt /\ f.l1_pd = e.l1_pd
  /\ f.l1_sh = e.l1_sh

LEMMA CreateWriteFull ==
  ASSUME TypeInv, NEW c \in CORE, CreateWrite(c)
  PROVE  LET n == Lowest(FreeEntries(WSID))
         IN  /\ n \in WSID /\ n \in SID /\ n \notin Valid
             /\ vb[c].kind \in WriteKind /\ vb[c].line \in LINE
             /\ sab' \in [SID -> EntryType]
             /\ IsNew(sab'[n], vb[c].kind, vb[c].line, c, WriteDepd, 0)
             /\ \A s \in SID \ {n} : MarkedBack(sab[s], sab'[s], n)
             /\ \A d \in CORE : d # c => vb'[d] = vb[d]
             /\ vb'[c].st = "sab" /\ vb'[c].kind = vb[c].kind
             /\ vb'[c].line = vb[c].line /\ vb'[c].new = vb[c].new
<1> DEFINE n == Lowest(FreeEntries(WSID))
           f == NewEntry(vb[c].kind, vb[c].line, c, WriteDepd, 0)
           m(s) == [sab[s] EXCEPT !.depd = @ \cup {n}, !.wns_pend = TRUE]
<1>1. n \in WSID /\ n \in SID /\ n \notin Valid
  <2>1. FreeEntries(WSID) \subseteq SID /\ FreeEntries(WSID) \subseteq Nat
    BY Sizes DEF FreeEntries
  <2>2. n \in FreeEntries(WSID)
    BY <2>1, LowestIn DEF CreateWrite
  <2> QED
    BY <2>1, <2>2 DEF FreeEntries
<1>2. vb[c].kind \in WriteKind /\ vb[c].line \in LINE
  BY DEF CreateWrite, TypeInv, Rest, VictimBuffers
<1>3. /\ vb[c].kind \in Kind /\ WriteDepd \in SUBSET SID /\ 0 \in SID
      /\ c \in CORE \cup {NONE}
  BY <1>2, Sizes DEF Kind, Valid, WnsEntries, WriteDepd
<1>4. f \in EntryType /\ IsNew(f, vb[c].kind, vb[c].line, c, WriteDepd, 0)
  BY <1>2, <1>3, NewEntryType, NewEntryFull
<1>5. sab' = [s \in SID |-> IF s = n THEN f
                           ELSE IF back_mark(sab[s]) THEN m(s) ELSE sab[s]]
  BY Zenon DEF CreateWrite
<1> HIDE DEF n, f
<1>6. ASSUME NEW s \in SID, back_mark(sab[s])
      PROVE  m(s) \in EntryType /\ MarkedBack(sab[s], m(s), n)
  <2>1. sab[s] \in EntryType /\ sab[s].depd \cup {n} \in SUBSET SID
    BY <1>1 DEF TypeInv, Entries, EntryType
  <2>2. m(s) \in EntryType
    BY <2>1 DEF EntryType
  <2>3. /\ m(s).kind = sab[s].kind /\ m(s).line = sab[s].line /\ m(s).mid = sab[s].mid
        /\ m(s).older = sab[s].older /\ m(s).ini = sab[s].ini
        /\ m(s).depd = sab[s].depd \cup {n} /\ m(s).wns_pend
        /\ SameAccess(sab[s], m(s)) /\ SameAnswer(sab[s], m(s)) /\ m(s).new = sab[s].new
        /\ m(s).cp = sab[s].cp /\ m(s).snp = sab[s].snp /\ m(s).l1_dt = sab[s].l1_dt
        /\ m(s).l1_pd = sab[s].l1_pd /\ m(s).l1_sh = sab[s].l1_sh
    BY <2>1 DEF EntryType, SameAccess, SameAnswer
  <2> HIDE DEF m
  <2> QED
    BY <1>6, <2>2, <2>3 DEF MarkedBack
<1>7. ASSUME NEW s \in SID, ~back_mark(sab[s])
      PROVE  sab[s] \in EntryType /\ MarkedBack(sab[s], sab[s], n)
  BY <1>7 DEF TypeInv, Entries, MarkedBack, SameAccess, SameAnswer
<1> HIDE DEF m
<1>8. /\ sab' \in [SID -> EntryType] /\ sab'[n] = f
      /\ \A s \in SID \ {n} : MarkedBack(sab[s], sab'[s], n)
  BY <1>1, <1>4, <1>5, <1>6, <1>7
<1>9. /\ \A d \in CORE : d # c => vb'[d] = vb[d]
      /\ vb'[c].st = "sab" /\ vb'[c].kind = vb[c].kind
      /\ vb'[c].line = vb[c].line /\ vb'[c].new = vb[c].new
  BY DEF CreateWrite, TypeInv, Rest, VictimBuffers, VBType
<1> QED
  BY <1>1, <1>2, <1>4, <1>8, <1>9, Zenon DEF n

\* The steps of a core leave an entry and a way as they are, but for the data
\* that a store makes old.
SameButNew(e, f) ==
  SameRequest(e, f) /\ SameSnoops(e, f) /\ SameAccess(e, f) /\ SameAnswer(e, f)
WaysButNew == \A w \in WAY :
  /\ l2'[w].vld = l2[w].vld /\ l2'[w].tag = l2[w].tag /\ l2'[w].pend = l2[w].pend
  /\ l2'[w].dirty = l2[w].dirty /\ l2'[w].cp = l2[w].cp

LEMMA StoreFull ==
  ASSUME TypeInv, NEW c \in CORE, NEW l \in LINE, Store(c, l)
  PROVE  /\ sab' \in [SID -> EntryType]
         /\ \A s \in SID : /\ SameButNew(sab[s], sab'[s])
                           /\ sab'[s].new <=> sab[s].new /\ sab[s].line # l
         /\ WaysButNew
         /\ \A w \in WAY : l2'[w].new <=> l2[w].new /\ l2[w].tag # l
         /\ \A d \in CORE : /\ vb'[d].st = vb[d].st /\ vb'[d].kind = vb[d].kind
                            /\ vb'[d].line = vb[d].line
                            /\ vb'[d].new <=> vb[d].new /\ vb[d].line # l
         /\ \A d \in CORE : /\ req'[d].kind = req[d].kind /\ req'[d].line = req[d].line
                            /\ req'[d].sent = req[d].sent
                            /\ req'[d].stored <=> req[d].stored \/ req[d].line = l
         /\ \A d \in CORE, m \in LINE : m # l => l1'[d][m] = l1[d][m]
         /\ \A d \in CORE : d # c => l1'[d][l].st = l1[d][l].st /\ ~l1'[d][l].new
         /\ l1'[c][l].st = "M" /\ l1'[c][l].new
         /\ mem' = [mem EXCEPT ![l] = FALSE]
<1> USE DEF TypeInv, Rest
<1>1. /\ sab' \in [SID -> EntryType]
      /\ \A s \in SID : /\ SameButNew(sab[s], sab'[s])
                        /\ sab'[s].new <=> sab[s].new /\ sab[s].line # l
  <2>1. sab' = [s \in SID |-> [sab[s] EXCEPT !.new = @ /\ sab[s].line # l]]
    BY DEF Store
  <2>2. ASSUME NEW s \in SID, NEW n \in BOOLEAN
        PROVE  /\ [sab[s] EXCEPT !.new = n] \in EntryType
               /\ SameButNew(sab[s], [sab[s] EXCEPT !.new = n])
               /\ [sab[s] EXCEPT !.new = n].new = n
    BY SMTT(30) DEF Entries, EntryType, SameButNew, SameRequest, SameSnoops, SameAccess, SameAnswer
  <2>3. ASSUME NEW s \in SID
        PROVE  /\ sab'[s] \in EntryType /\ SameButNew(sab[s], sab'[s])
               /\ sab'[s].new <=> sab[s].new /\ sab[s].line # l
    <3> DEFINE n == sab[s].new /\ sab[s].line # l
    <3>1. n \in BOOLEAN /\ (n <=> sab[s].new /\ sab[s].line # l)
      OBVIOUS
    <3>2. sab'[s] = [sab[s] EXCEPT !.new = n]
      BY <2>1, Zenon
    <3> HIDE DEF n
    <3> QED
      BY <2>2, <3>1, <3>2, Zenon
  <2>4. DOMAIN sab' = SID /\ sab' = [s \in SID |-> sab'[s]]
    BY <2>1
  <2> QED
    BY <2>3, <2>4
<1>2. /\ WaysButNew
      /\ \A w \in WAY : l2'[w].new <=> l2[w].new /\ l2[w].tag # l
  <2>1. l2' = [w \in WAY |-> [l2[w] EXCEPT !.new = @ /\ l2[w].tag # l]]
    BY DEF Store
  <2>2. ASSUME NEW w \in WAY, NEW n \in BOOLEAN, NEW v, v = [l2[w] EXCEPT !.new = n]
        PROVE  /\ v.vld = l2[w].vld /\ v.tag = l2[w].tag /\ v.pend = l2[w].pend
               /\ v.dirty = l2[w].dirty /\ v.cp = l2[w].cp /\ v.new = n
    BY <2>2 DEF Ways, WayType
  <2>3. ASSUME NEW w \in WAY
        PROVE  /\ l2'[w].vld = l2[w].vld /\ l2'[w].tag = l2[w].tag /\ l2'[w].pend = l2[w].pend
               /\ l2'[w].dirty = l2[w].dirty /\ l2'[w].cp = l2[w].cp
               /\ l2'[w].new <=> l2[w].new /\ l2[w].tag # l
    <3> DEFINE n == l2[w].new /\ l2[w].tag # l
    <3>1. n \in BOOLEAN /\ (n <=> l2[w].new /\ l2[w].tag # l)
      OBVIOUS
    <3>2. l2'[w] = [l2[w] EXCEPT !.new = n]
      BY <2>1, Zenon
    <3> HIDE DEF n
    <3> QED
      BY <2>2, <3>1, <3>2
  <2> QED
    BY <2>3 DEF WaysButNew
<1>3. \A d \in CORE : /\ vb'[d].st = vb[d].st /\ vb'[d].kind = vb[d].kind
                      /\ vb'[d].line = vb[d].line
                      /\ vb'[d].new <=> vb[d].new /\ vb[d].line # l
  <2>1. vb' = [d \in CORE |-> [vb[d] EXCEPT !.new = @ /\ vb[d].line # l]]
    BY DEF Store
  <2>2. ASSUME NEW d \in CORE, NEW n \in BOOLEAN, NEW v, v = [vb[d] EXCEPT !.new = n]
        PROVE  v.st = vb[d].st /\ v.kind = vb[d].kind /\ v.line = vb[d].line /\ v.new = n
    BY <2>2 DEF VictimBuffers, VBType
  <2> TAKE d \in CORE
  <2> DEFINE n == vb[d].new /\ vb[d].line # l
  <2>3. n \in BOOLEAN /\ (n <=> vb[d].new /\ vb[d].line # l)
    OBVIOUS
  <2>4. vb'[d] = [vb[d] EXCEPT !.new = n]
    BY <2>1, Zenon
  <2>5. PICK v, b : v = vb'[d] /\ b = n
    OBVIOUS
  <2> HIDE DEF n
  <2>6. v.st = vb[d].st /\ v.kind = vb[d].kind /\ v.line = vb[d].line /\ v.new = b
    BY <2>2, <2>3, <2>4, <2>5
  <2> QED
    BY <2>3, <2>5, <2>6
<1>4. \A d \in CORE : /\ req'[d].kind = req[d].kind /\ req'[d].line = req[d].line
                      /\ req'[d].sent = req[d].sent
                      /\ req'[d].stored <=> req[d].stored \/ req[d].line = l
  <2>1. req' = [d \in CORE |-> [req[d] EXCEPT !.stored = @ \/ req[d].line = l]]
    BY DEF Store
  <2>2. ASSUME NEW d \in CORE, NEW n \in BOOLEAN, NEW v, v = [req[d] EXCEPT !.stored = n]
        PROVE  v.kind = req[d].kind /\ v.line = req[d].line /\ v.sent = req[d].sent
               /\ v.stored = n
    BY <2>2 DEF Requests, ReqType
  <2> TAKE d \in CORE
  <2> DEFINE n == req[d].stored \/ req[d].line = l
  <2>3. n \in BOOLEAN /\ (n <=> req[d].stored \/ req[d].line = l)
    OBVIOUS
  <2>4. req'[d] = [req[d] EXCEPT !.stored = n]
    BY <2>1, Zenon
  <2> HIDE DEF n
  <2> QED
    BY <2>2, <2>3, <2>4
<1>5. /\ \A d \in CORE, m \in LINE : m # l => l1'[d][m] = l1[d][m]
      /\ \A d \in CORE : d # c => l1'[d][l].st = l1[d][l].st /\ ~l1'[d][l].new
      /\ l1'[c][l].st = "M" /\ l1'[c][l].new
  <2>1. l1' = [d \in CORE |-> [l1[d] EXCEPT ![l] =
                 IF d = c THEN [st |-> "M", new |-> TRUE]
                 ELSE [@ EXCEPT !.new = FALSE]]]
    BY DEF Store
  <2>2. ASSUME NEW d \in CORE
        PROVE  l1[d] \in [LINE -> LineInL1]
    BY DEF Level1
  <2>3. ASSUME NEW d \in CORE
        PROVE  /\ l1'[d] = [l1[d] EXCEPT ![l] =
                              IF d = c THEN [st |-> "M", new |-> TRUE]
                              ELSE [l1[d][l] EXCEPT !.new = FALSE]]
    BY <2>1
  <2>4. ASSUME NEW d \in CORE, NEW m \in LINE
        PROVE  l1'[d][m] = IF m = l
                           THEN IF d = c THEN [st |-> "M", new |-> TRUE]
                                ELSE [l1[d][l] EXCEPT !.new = FALSE]
                           ELSE l1[d][m]
    BY ZenonT(60), <2>2, <2>3
  <2>5. ASSUME NEW d \in CORE
        PROVE  /\ [l1[d][l] EXCEPT !.new = FALSE].st = l1[d][l].st
               /\ ~[l1[d][l] EXCEPT !.new = FALSE].new
    BY <2>2 DEF LineInL1
  <2>6. \A d \in CORE, m \in LINE : m # l => l1'[d][m] = l1[d][m]
    BY <2>4
  <2>7. \A d \in CORE : d # c => l1'[d][l].st = l1[d][l].st /\ ~l1'[d][l].new
    BY <2>4, <2>5
  <2>8. l1'[c][l].st = "M" /\ l1'[c][l].new
    <3>1. l1'[c][l] = [st |-> "M", new |-> TRUE]
      BY <2>4, Zenon
    <3> DEFINE r == [st |-> "M", new |-> TRUE]
    <3>2. r.st = "M" /\ r.new = TRUE
      BY Zenon
    <3>3. l1'[c][l] = r
      BY <3>1
    <3> HIDE DEF r
    <3> QED
      BY <3>2, <3>3
  <2> QED
    BY <2>6, <2>7, <2>8
<1>6. mem' = [mem EXCEPT ![l] = FALSE]
  BY DEF Store
<1> QED
  BY <1>1, <1>2, <1>3, <1>4, <1>5, <1>6

\* A core issues a request, or lets a line go.
LEMMA IssueReadFull ==
  ASSUME TypeInv, NEW c \in CORE, NEW k \in READS, NEW l \in LINE, IssueRead(c, k, l)
  PROVE  /\ k \in ReadKind
         /\ UNCHANGED <<sab, l2, rplc, mem, l1, vb>>
         /\ \A d \in CORE : d # c => req'[d] = req[d]
         /\ req'[c] = [kind |-> k, line |-> l, sent |-> FALSE, stored |-> FALSE]
BY SizeAssumption DEF TypeInv, Rest, Requests, IssueRead

LEMMA ToVictimBufferFull ==
  ASSUME TypeInv, NEW c \in CORE, NEW l \in LINE, NEW k \in WriteKind,
         NEW copy \in LineInL1, ToVictimBuffer(c, l, k, copy)
  PROVE  /\ UNCHANGED <<sab, l2, rplc, mem, req>>
         /\ vb[c].st = "none"
         /\ \A d \in CORE : d # c => vb'[d] = vb[d]
         /\ vb'[c] = [st |-> "hold", kind |-> k, line |-> l, new |-> l1[c][l].new]
         /\ OtherLines(c, l) /\ l1'[c][l] = copy
<1>1. OtherLines(c, l) /\ l1'[c][l] = copy
  BY ZenonT(60), OneLine DEF TypeInv, Rest, ToVictimBuffer
<1>2. /\ \A d \in CORE : d # c => vb'[d] = vb[d]
      /\ vb'[c] = [st |-> "hold", kind |-> k, line |-> l, new |-> l1[c][l].new]
  BY DEF TypeInv, Rest, VictimBuffers, ToVictimBuffer
<1> QED
  BY <1>1, <1>2 DEF ToVictimBuffer

LEMMA SendAwFull ==
  ASSUME TypeInv, NEW c \in CORE, SendAw(c)
  PROVE  /\ UNCHANGED <<sab, l2, rplc, mem, l1, req>>
         /\ \A d \in CORE : d # c => vb'[d] = vb[d]
         /\ vb[c].st = "hold" /\ vb'[c].st = "sent" /\ vb'[c].kind = vb[c].kind
         /\ vb'[c].line = vb[c].line /\ vb'[c].new = vb[c].new
BY DEF TypeInv, Rest, VictimBuffers, VBType, SendAw

LEMMA CleanInvOwnFull ==
  ASSUME TypeInv, NEW c \in CORE, NEW l \in LINE, CleanInvOwn(c, l)
  PROVE  /\ UNCHANGED <<sab, l2, rplc, mem, vb, req>>
         /\ OtherLines(c, l) /\ l1'[c][l] = Invalid
BY OneLine DEF TypeInv, Rest, CleanInvOwn

-----------------------------------------------------------------------------
(***************************************************************************)
(* Which entries act.                                                      *)
(***************************************************************************)

LEMMA Ini ==
  ASSUME TypeInv, NEW s \in SID
  PROVE  sab[s].ini \in SID /\ sab[s] \in EntryType
BY InUse DEF EntryType

\* Steps that change nothing but data.
LEMMA TurnSame ==
  ASSUME TypeInv, TurnInv, \A s \in SID : SameButNew(sab[s], sab'[s])
  PROVE  TurnInv'
<1>1. StateShapes'
  BY DEF TurnInv, StateShapes, StateShape, SameButNew, SameRequest, SameSnoops,
         SameAccess, SameAnswer, cml2, rd_alct, rs, snpl2, wns
<1>2. ReadsInTurn'
  BY DEF TurnInv, ReadsInTurn, Acting, SameButNew, SameRequest, SameAccess
<1>3. OneSnpL2'
  BY Ini DEF TurnInv, OneSnpL2, SameButNew, SameRequest, SameAccess, rd_alct, rs, snpl2
<1>4. EntryUse'
  BY Sizes DEF TurnInv, EntryUse, SameButNew, SameRequest
<1> QED
  BY <1>1, <1>2, <1>3, <1>4 DEF TurnInv

\* An entry goes on.
LEMMA TurnOne ==
  ASSUME TypeInv, TurnInv, NEW s \in SID, Only(s),
         SameRequest(sab[s], sab'[s]), StateShape(sab'[s]),
         Acting(sab'[s]) => Acting(sab[s]) \/ sab[s].depd = {},
         sab[s].st = "MEMR" /\ ~sab[s].snpl2_done
           => sab'[s].st = "MEMR" /\ ~sab'[s].snpl2_done
  PROVE  TurnInv'
<1>1. StateShapes'
  BY DEF TurnInv, StateShapes, Only
<1>2. ReadsInTurn'
  BY DEF TurnInv, ReadsInTurn, Acting, Only, SameRequest
<1>3. OneSnpL2'
  <2>1. \A t \in SID : /\ sab'[t].kind = sab[t].kind /\ sab'[t].ini = sab[t].ini
                       /\ sab[t].st = "MEMR" /\ ~sab[t].snpl2_done
                            => sab'[t].st = "MEMR" /\ ~sab'[t].snpl2_done
    BY DEF Only, SameRequest
  <2> QED
    BY <2>1, Ini DEF TurnInv, OneSnpL2, rd_alct, rs, snpl2
<1>4. EntryUse'
  <2>1. \A t \in SID : sab'[t].kind = sab[t].kind
    BY DEF Only, SameRequest
  <2> QED
    BY <2>1, Sizes DEF TurnInv, EntryUse
<1> QED
  BY <1>1, <1>2, <1>3, <1>4 DEF TurnInv

LEMMA ShapeGoes ==
  ASSUME NEW e, StateShape(e), NEW f, NEW to, GoesTo(e, f, to),
         to # "IDLE", e.kind \in Kind,
         to \in {"SNOP", "L2CR", "L2CA", "L2CT"} => e.kind \notin WriteKind,
         to # "SNOP" => e.snp = {},
         e.kind \in ReadKind /\ e.resp # "no" => to = "POP",
         rd_alct(e) /\ to \in {"L2CA", "MEMR"} => ~e.l2_hit,
         to = "L2CA" => rd_alct(e),
         rd_alct(e) => to # "MEMW"
  PROVE  StateShape(f)
<1>1. /\ f.kind = e.kind /\ f.mid = e.mid /\ f.st = to /\ f.cp = {}
      /\ f.l2_hit = e.l2_hit /\ (to = "L2CA" => ~f.snpl2_done)
      /\ f.l2c_req => to \in {"L2C", "L2CR", "L2CA", "L2CT", "L2CW"}
      /\ to # "SNOP" => f.snp = {}
      /\ f.resp = IF rresp_rdy(e, to) THEN "rdy" ELSE e.resp
  BY DEF GoesTo, SameRequest
<1>2. f.kind \in ReadKind /\ f.resp # "no" => f.st \in {"L2CW", "POP"}
  BY <1>1 DEF rresp_rdy
<1>3. cml2(f) /\ f.resp # "no" => f.st = "POP"
  BY <1>1 DEF rresp_rdy, cml2, rd, rs, ReadKind
<1>4. wns(e) => ~rresp_rdy(e, to)
  BY DEF rresp_rdy, cml2, rd, rs, wns
<1>5. f.wt = e.wt
  BY DEF GoesTo
<1> QED
  BY <1>1, <1>2, <1>3, <1>4, <1>5 DEF StateShape, cml2, rd_alct, rs, snpl2, wns

LEMMA AfterL2CCases ==
  ASSUME NEW e, e.kind \in Kind \ {"none"}
  PROVE  LET to == AfterL2C(e)
         IN  /\ to \in MainState \ {"IDLE", "DEPD", "L2CR", "L2CT"}
             /\ e.cp # {} <=> to = "SNOP"
             /\ to = "L2CA" => rd_alct(e) /\ ~e.l2_hit
             /\ to = "MEMR" => e.kind = "ro" /\ ~e.l2_hit
             /\ to = "MEMW" => wns(e) /\ ~e.l2_hit
             /\ to = "POP" => evict(e) \/ e.kind = "csl1"
             /\ to = "L2CW" => cml2(e) \/ snpl2(e) \/ e.kind = "cu" \/ e.l2_hit
             /\ to = "L2C" => cml2(e) \/ snpl2(e)
             /\ to # "L2C" /\ to # "SNOP" /\ (cml2(e) \/ snpl2(e))
                  => e.depd = {} /\ to = "L2CW"
BY DEF AfterL2C, MainState, Kind, ReadKind, WriteKind, evict, cml2, snpl2,
       rd_alct, rs, wns

\* An entry in use, and what it may hold.
LEMMA UsedShape ==
  ASSUME TypeInv, TurnInv, NEW s \in SID, sab[s].st # "IDLE"
  PROVE  /\ sab[s] \in EntryType /\ StateShape(sab[s])
         /\ sab[s].kind \in Kind \ {"none"} /\ sab[s].line \in LINE
BY InUse DEF TurnInv, StateShapes, EntryType

LEMMA TurnMove ==
  ASSUME TypeInv, TurnInv, NEW s \in SID, NEW to \in MainState,
         sab' = [sab EXCEPT ![s] = Goto(sab[s], to)],
         sab[s].st # "IDLE", to \notin {"IDLE", "DEPD"},
         to \in {"SNOP", "L2CR", "L2CA", "L2CT"} => sab[s].kind \notin WriteKind,
         to # "SNOP" => sab[s].snp = {},
         sab[s].kind \in ReadKind /\ sab[s].resp # "no" => to = "POP",
         rd_alct(sab[s]) /\ to \in {"L2CA", "MEMR"} => ~sab[s].l2_hit,
         to = "L2CA" => rd_alct(sab[s]),
         rd_alct(sab[s]) => to # "MEMW",
         Acting(sab[s]) \/ sab[s].depd = {},
         sab[s].st = "MEMR" => sab[s].snpl2_done
  PROVE  TurnInv'
<1>1. Only(s) /\ GoesTo(sab[s], sab'[s], to)
  BY Moved
<1>2. /\ StateShape(sab[s]) /\ sab[s].kind \in Kind
  BY UsedShape
<1>3. StateShape(sab'[s])
  BY <1>1, <1>2, ShapeGoes
<1>4. SameRequest(sab[s], sab'[s])
  BY <1>1 DEF GoesTo
<1> QED
  BY <1>1, <1>3, <1>4, TurnOne

LEMMA LeaveDepdTurn ==
  ASSUME TypeInv, TurnInv, NEW s \in SID, LeaveDepd(s)
  PROVE  TurnInv'
<1>1. sab[s].st = "DEPD" /\ sab[s].depd = {} /\ sab' = [sab EXCEPT ![s] = Goto(sab[s], "L2C")]
  BY DEF LeaveDepd
<1>2. /\ sab[s].snp = {}
      /\ ~(sab[s].kind \in ReadKind /\ sab[s].resp # "no")
  BY <1>1, UsedShape DEF StateShape
<1> QED
  BY <1>1, <1>2, TurnMove DEF MainState

LEMMA LeaveL2Turn ==
  ASSUME TypeInv, TurnInv, NEW s \in SID, LeaveL2(s)
  PROVE  TurnInv'
<1>1. sab[s].st \in {"L2C", "L2CR", "L2CT", "L2CW"} /\ ~sab[s].l2c_req
  BY DEF LeaveL2
<1>2. /\ StateShape(sab[s]) /\ sab[s].kind \in Kind \ {"none"} /\ sab[s] \in EntryType
      /\ Acting(sab[s])
  BY <1>1, UsedShape DEF Acting
<1>3. CASE sab[s].st = "L2C" /\ Step(s, AfterL2C(sab[s]))
  <2> DEFINE to == AfterL2C(sab[s])
  <2>1. /\ to \in MainState \ {"IDLE", "DEPD", "L2CR", "L2CT"}
        /\ sab[s].cp # {} <=> to = "SNOP"
        /\ to = "L2CA" => rd_alct(sab[s]) /\ ~sab[s].l2_hit
        /\ to = "MEMR" => sab[s].kind = "ro"
        /\ to = "MEMW" => wns(sab[s])
    BY <1>2, AfterL2CCases, Zenon
  <2>2. sab' = [sab EXCEPT ![s] = Goto(sab[s], to)]
    BY <1>3 DEF Step
  <2> HIDE DEF to
  <2>3. /\ to \in {"SNOP", "L2CA"} => sab[s].kind \notin WriteKind
        /\ rd_alct(sab[s]) => to # "MEMW"
        /\ rd_alct(sab[s]) => to # "MEMR"
        /\ sab[s].snp = {}
        /\ ~(sab[s].kind \in ReadKind /\ sab[s].resp # "no")
    BY <1>2, <1>3, <2>1 DEF StateShape, rd_alct, rs, WriteKind, wns
  <2> QED
    BY <1>2, <1>3, <2>1, <2>2, <2>3, TurnMove
<1>4. CASE sab[s].st \in {"L2CR", "L2CT"} /\ Step(s, "L2CW")
  <2>1. /\ sab[s].snp = {}
        /\ ~(sab[s].kind \in ReadKind /\ sab[s].resp # "no")
    BY <1>2, <1>4 DEF StateShape
  <2> QED
    BY <1>2, <1>4, <2>1, TurnMove DEF MainState, Step
<1>5. CASE sab[s].st = "L2CW" /\ Step(s, AfterL2CW(sab[s]))
  <2> DEFINE to == AfterL2CW(sab[s])
  <2>1. sab' = [sab EXCEPT ![s] = Goto(sab[s], to)]
    BY <1>5 DEF Step
  <2>2. /\ to \in {"MEMW", "POP"}
        /\ to = "MEMW" => cml2(sab[s]) \/ snpl2(sab[s])
    BY DEF AfterL2CW
  <2> HIDE DEF to
  <2>3. /\ sab[s].snp = {} /\ to \in MainState
        /\ rd_alct(sab[s]) => to # "MEMW"
        /\ sab[s].kind \in ReadKind /\ sab[s].resp # "no" => to = "POP"
    BY <1>2, <1>5, <2>2 DEF StateShape, MainState, rd_alct, rs, cml2, snpl2, wns, ReadKind
  <2> QED
    BY <1>2, <1>5, <2>1, <2>2, <2>3, TurnMove
<1> QED
  BY <1>3, <1>4, <1>5 DEF LeaveL2

LEMMA LeaveSnopTurn ==
  ASSUME TypeInv, TurnInv, NEW s \in SID, LeaveSnop(s)
  PROVE  TurnInv'
<1> DEFINE to == AfterSnop(sab[s])
<1>1. /\ sab[s].st = "SNOP" /\ sab[s].snp = {}
      /\ sab' = [sab EXCEPT ![s] = Goto(sab[s], to)]
  BY DEF LeaveSnop, Step
<1>2. to \in {"L2CR", "POP", "L2CW"}
  BY DEF AfterSnop
<1> HIDE DEF to
<1>3. /\ sab[s].kind \notin WriteKind /\ Acting(sab[s]) /\ to \in MainState
      /\ ~(sab[s].kind \in ReadKind /\ sab[s].resp # "no")
  BY <1>1, <1>2, UsedShape DEF StateShape, Acting, MainState
<1> QED
  BY <1>1, <1>2, <1>3, TurnMove

LEMMA LeaveMemrTurn ==
  ASSUME TypeInv, TurnInv, NEW s \in SID, LeaveMemr(s)
  PROVE  TurnInv'
<1> DEFINE to == IF sab[s].kind = "ru" THEN "L2CT" ELSE "L2CW"
<1>1. /\ sab[s].st = "MEMR" /\ sab[s].snpl2_done
      /\ sab' = [sab EXCEPT ![s] = Goto(sab[s], to)]
  BY DEF LeaveMemr, Step, MemrDone
<1>2. to \in {"L2CT", "L2CW"} /\ (to = "L2CT" => sab[s].kind = "ru")
  OBVIOUS
<1> HIDE DEF to
<1>3. /\ sab[s].snp = {} /\ Acting(sab[s]) /\ to \in MainState
      /\ ~(sab[s].kind \in ReadKind /\ sab[s].resp # "no")
  BY <1>1, <1>2, UsedShape DEF StateShape, Acting, MainState
<1> QED
  BY <1>1, <1>2, <1>3, TurnMove DEF WriteKind

LEMMA MemWriteTurn ==
  ASSUME TypeInv, TurnInv, NEW s \in SID, MemWrite(s)
  PROVE  TurnInv'
<1>1. sab[s].st = "MEMW" /\ sab' = [sab EXCEPT ![s] = Goto(sab[s], "POP")]
  BY DEF MemWrite
<1>2. sab[s].snp = {} /\ Acting(sab[s])
  BY <1>1, UsedShape DEF StateShape, Acting
<1> QED
  BY <1>1, <1>2, TurnMove DEF MainState

\* The other steps of an entry that keep its main state.
LEMMA WriteDataTurn ==
  ASSUME TypeInv, TurnInv, NEW s \in SID, WriteData(s)
  PROVE  TurnInv'
<1>1. wns(sab[s]) /\ sab[s].st = "DEPD"
  BY DEF WriteData
<1>2. /\ Only(s) /\ SameRequest(sab[s], sab'[s]) /\ SameSnoops(sab[s], sab'[s])
      /\ SameAccess(sab[s], sab'[s]) /\ sab'[s].wt
  BY WriteDataFull
<1>3. StateShape(sab'[s])
  BY <1>1, <1>2, UsedShape DEF StateShape, SameRequest, SameSnoops, SameAccess,
     cml2, rd_alct, rs, snpl2, wns, ReadKind, WriteKind
<1> QED
  BY <1>1, <1>2, <1>3, TurnOne DEF SameAccess, Acting

LEMMA MemReadTurn ==
  ASSUME TypeInv, TurnInv, NEW s \in SID, MemRead(s)
  PROVE  TurnInv'
<1>1. sab[s].st = "MEMR"
  BY DEF MemRead
<1>2. /\ Only(s) /\ SameRequest(sab[s], sab'[s]) /\ SameSnoops(sab[s], sab'[s])
      /\ SameAnswer(sab[s], sab'[s])
      /\ sab'[s].st = sab[s].st /\ sab'[s].snpl2_done = sab[s].snpl2_done
      /\ sab'[s].l2c_req = sab[s].l2c_req /\ sab'[s].l2_hit = sab[s].l2_hit
  BY MemReadFull
<1>3. StateShape(sab'[s])
  BY <1>1, <1>2, UsedShape DEF StateShape, SameRequest, SameSnoops, SameAnswer,
     cml2, rd_alct, rs, snpl2, wns
<1> QED
  BY <1>1, <1>2, <1>3, TurnOne DEF Acting

LEMMA L2LookupTurn ==
  ASSUME TypeInv, TurnInv, NEW s \in SID, L2Lookup(s)
  PROVE  TurnInv'
<1>1. sab[s].st \in {"L2C", "L2CR", "L2CT"}
  BY DEF L2Lookup
<1>2. Only(s) /\ LooksUp(sab[s], sab'[s])
  BY L2LookupFull
<1>3. /\ sab'[s].st = sab[s].st /\ sab'[s].kind = sab[s].kind /\ sab'[s].mid = sab[s].mid
      /\ ~sab'[s].l2c_req /\ sab'[s].snp = sab[s].snp /\ sab'[s].resp = sab[s].resp /\ sab'[s].wt = sab[s].wt
      /\ sab'[s].cp # {} => sab[s].st = "L2C" /\ sab[s].kind \notin WriteKind
      /\ SameRequest(sab[s], sab'[s]) /\ sab'[s].snpl2_done = sab[s].snpl2_done
  BY <1>2 DEF LooksUp, SameRequest, SameAnswer, cp_after_mask, wns, evict, WriteKind
<1>4. StateShape(sab'[s])
  BY <1>1, <1>3, UsedShape DEF StateShape, cml2, rd_alct, rs, snpl2, wns
<1> QED
  BY <1>1, <1>2, <1>3, <1>4, TurnOne DEF Acting

LEMMA L2WriteTurn ==
  ASSUME TypeInv, TurnInv, NEW s \in SID, L2Write(s)
  PROVE  TurnInv'
<1>1. sab[s].st = "L2CW"
  BY DEF L2Write
<1>2. Only(s) /\ Written(sab[s], sab'[s])
  BY L2WriteFull, Zenon
<1>3. /\ SameRequest(sab[s], sab'[s]) /\ SameSnoops(sab[s], sab'[s])
      /\ sab'[s].st = sab[s].st /\ ~sab'[s].l2c_req /\ sab'[s].resp = sab[s].resp /\ sab'[s].wt = sab[s].wt
      /\ sab'[s].snpl2_done = sab[s].snpl2_done
  BY <1>2 DEF Written, SameAnswer
<1>4. StateShape(sab'[s])
  BY <1>1, <1>3, UsedShape DEF StateShape, SameRequest, SameSnoops, cml2, rd_alct,
     rs, snpl2, wns
<1> QED
  BY <1>1, <1>2, <1>3, <1>4, TurnOne DEF Acting

LEMMA SnpRespTurn ==
  ASSUME TypeInv, TurnInv, NEW s \in SID, NEW c \in CORE, SnpResp(s, c)
  PROVE  TurnInv'
<1>1. sab[s].st = "SNOP"
  BY DEF SnpResp
<1>2. Only(s) /\ Snooped(sab[s], sab'[s], c)
  BY SnpRespFull, Zenon
<1>3. /\ SameRequest(sab[s], sab'[s]) /\ SameAccess(sab[s], sab'[s])
      /\ SameAnswer(sab[s], sab'[s]) /\ sab'[s].cp = sab[s].cp
  BY <1>2 DEF Snooped
<1>4. StateShape(sab'[s])
  BY <1>1, <1>3, UsedShape DEF StateShape, SameRequest, SameAccess, SameAnswer,
     cml2, rd_alct, rs, snpl2, wns
<1> QED
  BY <1>1, <1>2, <1>3, <1>4, TurnOne DEF Acting, SameAccess

LEMMA AnswerTurn ==
  ASSUME TypeInv, TurnInv, NEW s \in SID, sab[s].st # "IDLE", sab[s].resp = "rdy",
         Only(s), Answered(sab[s], sab'[s])
  PROVE  TurnInv'
<1>1. StateShape(sab'[s])
  BY UsedShape DEF Answered, StateShape, SameRequest, SameSnoops, SameAccess,
     cml2, rd_alct, rs, snpl2, wns
<1> QED
  BY <1>1, TurnOne DEF Answered, SameAccess, Acting

\* At most one read acts, and it is the oldest entry.
LEMMA OneReader ==
  ASSUME OrderInv, TurnInv, NEW s \in SID, NEW t \in SID,
         sab[s].kind \in ReadKind, Acting(sab[s]),
         sab[t].kind \in ReadKind, Acting(sab[t])
  PROVE  s = t
<1>1. s \in Valid /\ t \in Valid
  BY DEF Valid, Acting
<1>2. sab[s].older = {} /\ sab[t].older = {}
  BY DEF TurnInv, ReadsInTurn
<1> QED
  BY <1>1, <1>2 DEF OrderInv, AgeOrder

LEMMA SnpL2Needs ==
  ASSUME OrderInv, TurnInv, NEW s \in SID, snpl2(sab[s]),
         NEW t \in SID, sab[t].kind \in ReadKind, Acting(sab[t])
  PROVE  t = sab[s].ini /\ sab[t].st = "MEMR" /\ rd_alct(sab[t])
<1>1. /\ sab[s].ini \in SID /\ rd_alct(sab[sab[s].ini]) /\ sab[sab[s].ini].st = "MEMR"
  BY Ini DEF OrderInv, TurnInv, OneSnpL2
<1>2. sab[sab[s].ini].kind \in ReadKind /\ Acting(sab[sab[s].ini])
  BY <1>1 DEF rd_alct, rs, ReadKind, Acting
<1>3. t = sab[s].ini
  BY <1>1, <1>2, OneReader
<1> QED
  BY <1>1, <1>3

LEMMA PopTurn ==
  ASSUME OrderInv, TurnInv, NEW s \in SID, Pop(s)
  PROVE  TurnInv'
<1>1. TypeInv /\ sab[s].st = "POP"
  BY DEF OrderInv, Pop
<1>2. /\ sab'[s] = IdleEntry
      /\ \A t \in SID \ {s} :
           Released(sab[t], sab'[t], s, snpl2(sab[s]) /\ sab[s].ini = t)
  BY <1>1, PopFull
<1>3. /\ IdleEntry.st = "IDLE" /\ IdleEntry.kind = "none" /\ IdleEntry.cp = {}
      /\ IdleEntry.snp = {} /\ ~IdleEntry.l2c_req /\ IdleEntry.resp = "no"
  BY DEF IdleEntry
<1>4. ASSUME NEW t \in SID \ {s}
      PROVE  /\ sab'[t].kind = sab[t].kind /\ sab'[t].mid = sab[t].mid
             /\ sab'[t].ini = sab[t].ini /\ sab'[t].st = sab[t].st
             /\ sab'[t].depd = sab[t].depd \ {s} /\ sab'[t].older = sab[t].older \ {s}
             /\ sab'[t].l2c_req = sab[t].l2c_req /\ sab'[t].l2_hit = sab[t].l2_hit
             /\ sab'[t].cp = sab[t].cp /\ sab'[t].snp = sab[t].snp
             /\ sab'[t].resp = sab[t].resp /\ sab'[t].wt = sab[t].wt
             /\ ~sab[t].snpl2_done /\ sab'[t].snpl2_done => snpl2(sab[s]) /\ sab[s].ini = t
  BY <1>2 DEF Released, SameSnoops, SameAnswer
<1>5. StateShapes'
  <2>1. StateShape(sab'[s])
    BY <1>2, <1>3 DEF StateShape, ReadKind, cml2, rd_alct, rs, snpl2, wns
  <2>2. ASSUME NEW t \in SID \ {s}
        PROVE  StateShape(sab'[t])
    <3>1. StateShape(sab[t])
      BY DEF TurnInv, StateShapes
    <3>2. sab[t].st = "L2CA" => ~sab'[t].snpl2_done
      BY <1>4, <3>1 DEF TurnInv, OneSnpL2, StateShape
    <3> QED
      BY <1>4, <3>1, <3>2 DEF StateShape, cml2, rd_alct, rs, snpl2, wns
  <2> QED
    BY <2>1, <2>2 DEF StateShapes
<1>6. ReadsInTurn'
  BY <1>2, <1>3, <1>4 DEF TurnInv, ReadsInTurn, Acting, ReadKind
<1>7. OneSnpL2'
  <2>1. ~snpl2(sab'[s])
    BY <1>2, <1>3 DEF snpl2
  <2>2. \A t \in SID \ {s} : snpl2(sab'[t]) <=> snpl2(sab[t])
    BY <1>4 DEF snpl2
  <2>3. ASSUME NEW t \in SID \ {s}, snpl2(sab[t])
        PROVE  LET i == sab'[sab'[t].ini]
               IN  rd_alct(i) /\ i.st = "MEMR" /\ ~i.snpl2_done
    <3> DEFINE j == sab[t].ini
    <3>1. /\ j \in SID /\ rd_alct(sab[j]) /\ sab[j].st = "MEMR" /\ ~sab[j].snpl2_done
      BY <1>1, <2>3, Ini DEF TurnInv, OneSnpL2
    <3>2. j # s /\ ~snpl2(sab[s])
      BY <1>1, <2>3, <3>1 DEF TurnInv, OneSnpL2
    <3>3. sab'[t].ini = j
      BY <1>4
    <3> HIDE DEF j
    <3> QED
      BY <1>4, <3>1, <3>2, <3>3 DEF rd_alct, rs
  <2> QED
    BY <2>1, <2>2, <2>3 DEF TurnInv, OneSnpL2
<1>8. EntryUse'
  BY <1>2, <1>3, <1>4, Sizes DEF TurnInv, EntryUse
<1> QED
  BY <1>5, <1>6, <1>7, <1>8 DEF TurnInv

\* A new entry has the shape of its state.
LEMMA ShapeNew ==
  ASSUME NEW f, NEW k, NEW l, NEW m, NEW D, NEW i, IsNew(f, k, l, m, D, i),
         k = "snpl2" => m = NONE
  PROVE  StateShape(f) /\ f.st \in {"DEPD", "L2C"}
BY DEF IsNew, StateShape, ReadKind, WriteKind, cml2, rd_alct, rs, snpl2, wns

LEMMA CreateReadTurn ==
  ASSUME TypeInv, TurnInv, NEW c \in CORE, CreateRead(c)
  PROVE  TurnInv'
<1> DEFINE n == Lowest(FreeEntries(PiuSid))
<1>1. /\ n \in PiuSid /\ n \in SID /\ n \notin Valid
      /\ req[c].kind \in ReadKind
      /\ Only(n) /\ IsNew(sab'[n], req[c].kind, req[c].line, c, Valid, 0)
  BY CreateReadFull, Zenon
<1> HIDE DEF n
<1>2. StateShapes'
  <2>1. StateShape(sab'[n])
    BY <1>1, ShapeNew DEF ReadKind
  <2> QED
    BY <1>1, <2>1 DEF TurnInv, StateShapes, Only
<1>3. /\ sab'[n].kind \in ReadKind /\ sab'[n].older = Valid /\ sab'[n].depd = Valid
      /\ Acting(sab'[n]) => Valid = {}
      /\ sab[n].st = "IDLE"
  BY <1>1 DEF IsNew, Acting, Valid
<1>4. ReadsInTurn'
  BY <1>1, <1>3 DEF TurnInv, ReadsInTurn, Only
<1>5. OneSnpL2'
  <2>1. ~snpl2(sab'[n])
    BY <1>3 DEF snpl2, ReadKind
  <2>2. ASSUME NEW s \in SID, snpl2(sab'[s])
        PROVE  /\ snpl2(sab[s]) /\ sab'[s] = sab[s] /\ sab[s].ini \in SID
               /\ sab'[sab[s].ini] = sab[sab[s].ini]
    <3>1. snpl2(sab[s]) /\ sab'[s] = sab[s] /\ sab[s].ini \in SID
      BY <1>1, <2>1, <2>2, Ini DEF Only
    <3>2. sab[s].ini # n
      BY <1>3, <3>1 DEF TurnInv, OneSnpL2
    <3> QED
      BY <1>1, <3>1, <3>2 DEF Only
  <2> QED
    BY <2>2 DEF TurnInv, OneSnpL2
<1>6. EntryUse'
  <2>1. n \notin RSID \ PiuSid /\ n \notin SID \ RSID
    BY <1>1, Sizes
  <2> QED
    BY <1>1, <2>1, Sizes DEF TurnInv, EntryUse, Only
<1> QED
  BY <1>2, <1>4, <1>5, <1>6 DEF TurnInv

LEMMA CreateWriteTurn ==
  ASSUME TypeInv, TurnInv, NEW c \in CORE, CreateWrite(c)
  PROVE  TurnInv'
<1> DEFINE n == Lowest(FreeEntries(WSID))
<1>1. /\ n \in WSID /\ n \in SID /\ n \notin Valid
      /\ vb[c].kind \in WriteKind
      /\ IsNew(sab'[n], vb[c].kind, vb[c].line, c, WriteDepd, 0)
      /\ \A s \in SID \ {n} : MarkedBack(sab[s], sab'[s], n)
  BY CreateWriteFull, Zenon
<1> HIDE DEF n
<1>2. /\ StateShape(sab'[n]) /\ sab'[n].kind \in WriteKind /\ sab[n].st = "IDLE"
      /\ sab'[n].kind \notin ReadKind /\ ~snpl2(sab'[n])
  BY <1>1, ShapeNew DEF WriteKind, ReadKind, IsNew, Valid, snpl2
<1>3. ASSUME NEW s \in SID \ {n}
      PROVE  /\ sab'[s].kind = sab[s].kind /\ sab'[s].mid = sab[s].mid
             /\ sab'[s].older = sab[s].older /\ sab'[s].ini = sab[s].ini
             /\ sab[s].depd \subseteq sab'[s].depd
             /\ sab'[s].st = sab[s].st /\ sab'[s].snpl2_done = sab[s].snpl2_done
             /\ sab'[s].l2c_req = sab[s].l2c_req /\ sab'[s].l2_hit = sab[s].l2_hit
             /\ sab'[s].cp = sab[s].cp /\ sab'[s].snp = sab[s].snp
             /\ sab'[s].resp = sab[s].resp /\ sab'[s].wt = sab[s].wt
  BY <1>1 DEF MarkedBack, SameAccess, SameAnswer
<1>4. StateShapes'
  <2>1. ASSUME NEW s \in SID \ {n}
        PROVE  StateShape(sab'[s])
    BY <1>3 DEF TurnInv, StateShapes, StateShape, cml2, rd_alct, rs, snpl2, wns
  <2> QED
    BY <1>2, <2>1 DEF StateShapes
<1>5. ReadsInTurn'
  <2>1. ASSUME NEW s \in SID, sab'[s].kind \in ReadKind
        PROVE  /\ sab'[s].older \subseteq sab'[s].depd
               /\ Acting(sab'[s]) => sab'[s].older = {}
    <3>1. s # n
      BY <1>2, <2>1
    <3> QED
      BY <1>3, <2>1, <3>1 DEF TurnInv, ReadsInTurn, Acting
  <2> QED
    BY <2>1 DEF ReadsInTurn
<1>6. OneSnpL2'
  <2>1. ASSUME NEW s \in SID, snpl2(sab'[s])
        PROVE  /\ snpl2(sab[s])
               /\ LET i == sab'[sab'[s].ini]
                  IN  rd_alct(i) /\ i.st = "MEMR" /\ ~i.snpl2_done
    <3>1. s # n /\ snpl2(sab[s]) /\ sab'[s].ini = sab[s].ini
      BY <1>2, <1>3, <2>1 DEF snpl2
    <3>2. sab[s].ini \in SID /\ sab[s].ini # n
      BY <1>2, <3>1, Ini DEF TurnInv, OneSnpL2
    <3> QED
      BY <1>3, <3>1, <3>2 DEF TurnInv, OneSnpL2, rd_alct, rs
  <2> QED
    BY <2>1 DEF TurnInv, OneSnpL2
<1>7. EntryUse'
  <2>1. n \notin RSID
    BY <1>1, SizeAssumption DEF RSID, WSID
  <2> QED
    BY <1>2, <1>3, <2>1, Sizes DEF TurnInv, EntryUse
<1> QED
  BY <1>4, <1>5, <1>6, <1>7 DEF TurnInv

LEMMA L2AllocateTurn ==
  ASSUME OrderInv, TurnInv, NEW s \in SID, L2Allocate(s)
  PROVE  TurnInv'
<1> DEFINE w == way_fifo
           n == Lowest(FreeEntries(RSID))
<1>1. TypeInv /\ sab[s].st = "L2CA"
  BY DEF OrderInv, L2Allocate
<1>2. /\ Fetches(sab[s], sab'[s])
      /\ ~l2[w].vld => sab'[s].snpl2_done /\ Only(s)
      /\ l2[w].vld =>
           /\ sab'[s].snpl2_done = sab[s].snpl2_done
           /\ n \in RSID /\ n \notin Valid /\ n # s
           /\ IsNew(sab'[n], "snpl2", l2[w].tag, NONE, SnpL2Depd, s)
           /\ \A t \in SID \ {s, n} : sab'[t] = sab[t]
  BY <1>1, L2AllocateFull, Zenon
<1> HIDE DEF w, n
<1>3. /\ StateShape(sab[s]) /\ rd_alct(sab[s]) /\ ~sab[s].snpl2_done
      /\ sab[s].kind \in ReadKind /\ Acting(sab[s])
  BY <1>1, UsedShape DEF StateShape, rd_alct, rs, ReadKind, Acting
<1>4. \A t \in SID : ~snpl2(sab[t])
  BY <1>1, <1>3, SnpL2Needs
<1>5. StateShape(sab'[s]) /\ rd_alct(sab'[s]) /\ sab'[s].kind = sab[s].kind /\ sab'[s].st = "MEMR"
      /\ sab'[s].older = sab[s].older /\ sab'[s].depd = sab[s].depd
  BY <1>1, <1>2, <1>3 DEF Fetches, SameRequest, SameAnswer, StateShape, rd_alct, rs,
     cml2, snpl2, wns
<1>6. CASE ~l2[w].vld
  <2>1. Only(s) /\ SameRequest(sab[s], sab'[s])
    BY <1>2, <1>6 DEF Fetches
  <2> QED
    BY <1>1, <1>3, <1>5, <2>1, TurnOne
<1>7. CASE l2[w].vld
  <2>1. /\ n \in SID /\ n # s /\ sab[n].st = "IDLE" /\ StateShape(sab'[n])
        /\ sab'[n].kind = "snpl2" /\ sab'[n].ini = s
        /\ ~sab'[s].snpl2_done
        /\ \A t \in SID \ {s, n} : sab'[t] = sab[t]
    <3>1. n \in SID /\ n # s /\ sab[n].st = "IDLE"
      BY <1>2, <1>7, Sizes DEF Valid
    <3>2. IsNew(sab'[n], "snpl2", l2[w].tag, NONE, SnpL2Depd, s)
      BY <1>2, <1>7
    <3>3. StateShape(sab'[n]) /\ sab'[n].kind = "snpl2" /\ sab'[n].ini = s
      BY <3>2, ShapeNew DEF IsNew
    <3> QED
      BY <1>2, <1>3, <1>7, <3>1, <3>3
  <2>2. StateShapes'
    BY <1>5, <2>1 DEF TurnInv, StateShapes
  <2>3. ReadsInTurn'
    BY <1>3, <1>5, <2>1 DEF TurnInv, ReadsInTurn, ReadKind, Acting
  <2>4. OneSnpL2'
    <3>1. \A t \in SID : snpl2(sab'[t]) => t = n
      BY <1>3, <1>4, <1>5, <2>1 DEF snpl2, ReadKind
    <3> QED
      BY <1>5, <2>1, <3>1 DEF OneSnpL2
  <2>5. EntryUse'
    <3>1. n \in RSID /\ s \in SID
      BY <1>2, <1>7
    <3> QED
      BY <1>5, <2>1, <3>1, Sizes DEF TurnInv, EntryUse
  <2> QED
    BY <2>2, <2>3, <2>4, <2>5 DEF TurnInv
<1> QED
  BY <1>6, <1>7

\* The steps of the cores.
LEMMA SabSame ==
  ASSUME UNCHANGED sab
  PROVE  \A s \in SID : SameButNew(sab[s], sab'[s])
BY DEF SameButNew, SameRequest, SameSnoops, SameAccess, SameAnswer

LEMMA CoreSame ==
  ASSUME TypeInv, NEW c \in CORE, CoreStep(c)
  PROVE  \A s \in SID : SameButNew(sab[s], sab'[s])
<1>1. ASSUME NEW l \in LINE, Store(c, l)
      PROVE  \A s \in SID : SameButNew(sab[s], sab'[s])
  BY <1>1, StoreFull
<1>2. CASE \A l \in LINE : ~Store(c, l)
  <2>1. UNCHANGED sab
    BY <1>2 DEF CoreStep, IssueRead, Replace, CleanOwn, ToVictimBuffer, CleanInvOwn,
       SendAw
  <2> QED
    BY <2>1, SabSame
<1> QED
  BY <1>1, <1>2

LEMMA InitTurn == Init => TurnInv
<1> SUFFICES ASSUME Init
             PROVE  TurnInv
  OBVIOUS
<1>1. \A s \in SID : sab[s] = IdleEntry
  BY DEF Init
<1>2. /\ IdleEntry.st = "IDLE" /\ IdleEntry.kind = "none" /\ IdleEntry.cp = {}
      /\ IdleEntry.snp = {} /\ ~IdleEntry.l2c_req /\ IdleEntry.resp = "no"
  BY DEF IdleEntry
<1>3. StateShapes
  BY <1>1, <1>2 DEF StateShapes, StateShape, ReadKind, cml2, rd_alct, rs, snpl2, wns
<1>4. ReadsInTurn /\ OneSnpL2 /\ EntryUse
  BY <1>1, <1>2, Sizes DEF ReadsInTurn, OneSnpL2, EntryUse, ReadKind, snpl2
<1> QED
  BY <1>3, <1>4 DEF TurnInv

LEMMA StepTurn == OrderInv /\ TurnInv /\ [Next]_vars => TurnInv'
<1> SUFFICES ASSUME OrderInv, TurnInv, [Next]_vars
             PROVE  TurnInv'
  OBVIOUS
<1>1. TypeInv
  BY DEF OrderInv
<1>2. CASE \E c \in CORE : CoreStep(c)
  BY <1>1, <1>2, CoreSame, TurnSame
<1>3. CASE \E c \in CORE : CreateStep(c)
  BY <1>1, <1>3, CreateReadTurn, CreateWriteTurn DEF CreateStep
<1>4. CASE \E s \in SID : EntryStep(s)
  <2>1. PICK s \in SID : EntryStep(s)
    BY <1>4
  <2>2. CASE SendB(s) \/ SendR(s)
    <3>1. Only(s) /\ Answered(sab[s], sab'[s])
      BY <1>1, <2>2, SendBFull, SendRFull, Zenon
    <3>2. sab[s].st # "IDLE" /\ sab[s].resp = "rdy"
      BY <1>1, <2>2, InUse DEF SendB, SendR, ReadKind, WriteKind
    <3> QED
      BY <1>1, <3>1, <3>2, AnswerTurn
  <2>3. CASE Pop(s)
    BY <2>3, PopTurn
  <2>4. CASE L2Allocate(s)
    BY <2>4, L2AllocateTurn
  <2>5. CASE \E c \in CORE : SnpResp(s, c)
    BY <1>1, <2>5, SnpRespTurn
  <2>6. CASE WriteData(s) \/ MemRead(s) \/ L2Lookup(s) \/ L2Write(s)
    BY <1>1, <2>6, WriteDataTurn, MemReadTurn, L2LookupTurn, L2WriteTurn
  <2>7. CASE LeaveDepd(s) \/ LeaveL2(s) \/ LeaveSnop(s) \/ LeaveMemr(s) \/ MemWrite(s)
    BY <1>1, <2>7, LeaveDepdTurn, LeaveL2Turn, LeaveSnopTurn, LeaveMemrTurn, MemWriteTurn
  <2> QED
    BY <2>1, <2>2, <2>3, <2>4, <2>5, <2>6, <2>7 DEF EntryStep
<1>5. CASE UNCHANGED vars
  <2>1. UNCHANGED sab
    BY <1>5 DEF vars
  <2> QED
    BY <1>1, <2>1, SabSame, TurnSame
<1> QED
  BY <1>2, <1>3, <1>4, <1>5 DEF Next

\* At most one read acts at a time, and it is the oldest entry (sab_entry: a
\* read waits for everything before it); the snoop of the L2 for a line to
\* replace belongs to that read.
THEOREM TurnInvariant == Spec => [](OrderInv /\ TurnInv)
<1>1. Init => OrderInv /\ TurnInv
  BY InitOrder, InitTurn
<1>2. (OrderInv /\ TurnInv) /\ [Next]_vars => (OrderInv /\ TurnInv)'
  BY StepOrder, StepTurn
<1> QED
  BY <1>1, <1>2, PTL DEF Spec

-----------------------------------------------------------------------------
(***************************************************************************)
(* The cores and their requests.                                           *)
(***************************************************************************)

\* Entries make no new claims.
SameName(e, f) == f.kind = e.kind /\ f.line = e.line /\ f.mid = e.mid
NoNewClaim(t) ==
  /\ Open(sab'[t]) \/ ToLeave(sab'[t]) \/ WriteOpen(sab'[t]) => SameName(sab[t], sab'[t])
  /\ Open(sab'[t]) => Open(sab[t])
  /\ ToLeave(sab'[t]) => ToLeave(sab[t])
  /\ WriteOpen(sab'[t]) => WriteOpen(sab[t])
  /\ Open(sab'[t]) => \A u \in SID :
       u \in sab[t].older /\ ToLeave(sab'[u]) => u \in sab'[t].older
SameReq(c) ==
  req'[c].kind = req[c].kind /\ req'[c].line = req[c].line /\ req'[c].sent = req[c].sent
SameOut(c) ==
  \/ vb[c].st # "sab" /\ vb'[c].st = "none"
  \/ /\ vb'[c].kind = vb[c].kind /\ vb'[c].line = vb[c].line
     /\ vb'[c].st = "none" <=> vb[c].st = "none"
     /\ vb'[c].st = "sab" <=> vb[c].st = "sab"
StaysOut(c, l) == l1[c][l].st = "I" => l1'[c][l].st = "I"

LEMMA Mids ==
  ASSUME TypeInv, NEW s \in SID
  PROVE  /\ Open(sab[s]) => sab[s].mid \in CORE /\ sab[s].line \in LINE
         /\ ToLeave(sab[s]) => sab[s].mid \in CORE /\ sab[s].line \in LINE
         /\ WriteOpen(sab[s]) => sab[s].mid \in CORE /\ sab[s].line \in LINE
BY InUse DEF Open, ToLeave, WriteOpen, Goes, ReadKind, WriteKind

LEMMA NamedLines ==
  ASSUME TypeInv, NEW c \in CORE
  PROVE  /\ vb[c].st \in {"none", "hold", "sent", "sab"}
         /\ vb[c].st # "none" => vb[c].line \in LINE /\ vb[c].kind \in WriteKind
         /\ req[c].kind # "none" => req[c].line \in LINE /\ req[c].kind \in ReadKind
BY DEF TypeInv, Rest, VictimBuffers, VBType, Requests, ReqType

LEMMA LeftStep ==
  ASSUME TypeInv, ClaimInv, \A t \in SID : NoNewClaim(t),
         \A t \in SID : ToLeave(sab'[t]) => StaysOut(sab[t].mid, sab[t].line)
  PROVE  Left'
<1> SUFFICES ASSUME NEW s \in SID, ToLeave(sab'[s])
             PROVE  l1'[sab'[s].mid][sab'[s].line].st = "I"
  BY DEF Left, ToLeave, Looked, Acting
<1>1. ToLeave(sab[s]) /\ SameName(sab[s], sab'[s])
  BY DEF NoNewClaim
<1> QED
  BY <1>1 DEF ClaimInv, Left, StaysOut, SameName

LEMMA WriteFirstStep ==
  ASSUME TypeInv, ClaimInv, \A t \in SID : NoNewClaim(t)
  PROVE  WriteFirst'
<1> SUFFICES ASSUME NEW s \in SID, NEW t \in SID,
                    ToLeave(sab'[s]), Open(sab'[t]), sab'[t].kind \in {"rs", "ru"},
                    sab'[s].mid = sab'[t].mid, sab'[s].line = sab'[t].line
             PROVE  s \in sab'[t].older
  BY DEF WriteFirst, ToLeave, Open, Looked, Acting
<1>1. /\ ToLeave(sab[s]) /\ SameName(sab[s], sab'[s])
      /\ Open(sab[t]) /\ SameName(sab[t], sab'[t])
  BY DEF NoNewClaim
<1>2. s \in sab[t].older
  BY <1>1 DEF ClaimInv, WriteFirst, SameName
<1> QED
  BY <1>2 DEF NoNewClaim

LEMMA AnsweringStep ==
  ASSUME TypeInv, ClaimInv, \A t \in SID : NoNewClaim(t),
         \A t \in SID : Open(sab'[t]) => SameReq(sab[t].mid)
  PROVE  Answering'
<1>1. ASSUME NEW s \in SID, Open(sab'[s])
      PROVE  /\ Open(sab[s]) /\ SameName(sab[s], sab'[s])
             /\ req'[sab'[s].mid].kind = sab'[s].kind
             /\ req'[sab'[s].mid].line = sab'[s].line /\ req'[sab'[s].mid].sent
  <2>1. Open(sab[s]) /\ SameName(sab[s], sab'[s])
    BY <1>1 DEF NoNewClaim
  <2> QED
    BY <1>1, <2>1 DEF ClaimInv, Answering, SameReq, SameName
<1>2. ASSUME NEW s \in SID, NEW t \in SID, Open(sab'[s]), Open(sab'[t]),
             sab'[s].mid = sab'[t].mid
      PROVE  s = t
  BY <1>1, <1>2 DEF ClaimInv, Answering, SameName
<1> QED
  BY <1>1, <1>2 DEF Answering, Open

LEMMA VictimsStep ==
  ASSUME TypeInv, ClaimInv, \A t \in SID : NoNewClaim(t),
         \A t \in SID : WriteOpen(sab'[t]) => SameOut(sab[t].mid)
  PROVE  Victims'
<1>1. ASSUME NEW s \in SID, WriteOpen(sab'[s])
      PROVE  /\ WriteOpen(sab[s]) /\ SameName(sab[s], sab'[s])
             /\ vb'[sab'[s].mid].st = "sab" /\ vb'[sab'[s].mid].kind = sab'[s].kind
             /\ vb'[sab'[s].mid].line = sab'[s].line
  <2>1. WriteOpen(sab[s]) /\ SameName(sab[s], sab'[s])
    BY <1>1 DEF NoNewClaim
  <2>2. /\ vb[sab[s].mid].st = "sab" /\ vb[sab[s].mid].kind = sab[s].kind
        /\ vb[sab[s].mid].line = sab[s].line
    BY <2>1 DEF ClaimInv, Victims
  <2> QED
    BY <1>1, <2>1, <2>2 DEF SameOut, SameName
<1>2. ASSUME NEW s \in SID, NEW t \in SID, WriteOpen(sab'[s]), WriteOpen(sab'[t]),
             sab'[s].mid = sab'[t].mid
      PROVE  s = t
  BY <1>1, <1>2 DEF ClaimInv, Victims, SameName
<1> QED
  BY <1>1, <1>2 DEF Victims, WriteOpen

LEMMA AskingStep ==
  ASSUME TypeInv, ClaimInv, NEW c \in CORE, SameReq(c), SameOut(c),
         \A l \in LINE : StaysOut(c, l), req'[c].kind \in FillKind
  PROVE  /\ l1'[c][req'[c].line].st = "I"
         /\ vb'[c].st = "none" \/ vb'[c].line # req'[c].line
BY NamedLines DEF ClaimInv, Asking, SameReq, SameOut, StaysOut, FillKind

LEMMA LeavingStep ==
  ASSUME TypeInv, ClaimInv, NEW c \in CORE, SameOut(c),
         vb'[c].st \in {"hold", "sent"}, Goes(vb'[c].kind),
         StaysOut(c, vb[c].line)
  PROVE  l1'[c][vb'[c].line].st = "I"
<1>1. vb[c].st \in {"hold", "sent"} /\ vb'[c].kind = vb[c].kind /\ vb'[c].line = vb[c].line
  BY NamedLines DEF SameOut
<1> QED
  BY <1>1 DEF ClaimInv, Leaving, StaysOut

\* A step in which nobody claims anything new.
LEMMA ClaimQuiet ==
  ASSUME TypeInv, ClaimInv, \A t \in SID : NoNewClaim(t),
         \A c \in CORE : SameReq(c) /\ SameOut(c),
         \A c \in CORE, l \in LINE : StaysOut(c, l)
  PROVE  ClaimInv'
<1>1. Left'
  <2>1. ASSUME NEW t \in SID, ToLeave(sab'[t])
        PROVE  StaysOut(sab[t].mid, sab[t].line)
    <3>1. ToLeave(sab[t])
      BY <2>1 DEF NoNewClaim
    <3> QED
      BY <3>1, Mids
  <2> QED
    BY <2>1, LeftStep
<1>2. WriteFirst'
  BY WriteFirstStep
<1>3. Answering'
  <2>1. ASSUME NEW t \in SID, Open(sab'[t])
        PROVE  SameReq(sab[t].mid)
    <3>1. Open(sab[t])
      BY <2>1 DEF NoNewClaim
    <3> QED
      BY <3>1, Mids
  <2> QED
    BY <2>1, AnsweringStep
<1>4. Victims'
  <2>1. ASSUME NEW t \in SID, WriteOpen(sab'[t])
        PROVE  SameOut(sab[t].mid)
    <3>1. WriteOpen(sab[t])
      BY <2>1 DEF NoNewClaim
    <3> QED
      BY <3>1, Mids
  <2> QED
    BY <2>1, VictimsStep
<1>5. Asking'
  BY AskingStep DEF Asking
<1>6. Leaving'
  <2> SUFFICES ASSUME NEW c \in CORE, vb'[c].st \in {"hold", "sent"}, Goes(vb'[c].kind)
               PROVE  l1'[c][vb'[c].line].st = "I"
    BY DEF Leaving, Goes
  <2>1. vb[c].st # "none" /\ SameOut(c)
    BY DEF SameOut
  <2>2. StaysOut(c, vb[c].line)
    BY <2>1, NamedLines
  <2> QED
    BY <2>1, <2>2, LeavingStep
<1> QED
  BY <1>1, <1>2, <1>3, <1>4, <1>5, <1>6 DEF ClaimInv

\* Entries that keep their request.
LEMMA NoNewOne ==
  ASSUME NEW s \in SID, Only(s), SameRequest(sab[s], sab'[s]),
         sab[s].resp = "sent" => sab'[s].resp = "sent",
         Looked(sab[s]) => Looked(sab'[s])
  PROVE  \A t \in SID : NoNewClaim(t)
<1>1. \A t \in SID : SameRequest(sab[t], sab'[t])
  BY DEF Only, SameRequest
<1>2. \A t \in SID : /\ sab[t].resp = "sent" => sab'[t].resp = "sent"
                     /\ Looked(sab[t]) => Looked(sab'[t])
  BY DEF Only
<1> QED
  BY <1>1, <1>2 DEF NoNewClaim, SameRequest, SameName, Open, ToLeave, WriteOpen, Goes

LEMMA NoNewSame ==
  ASSUME \A s \in SID : SameButNew(sab[s], sab'[s])
  PROVE  \A t \in SID : NoNewClaim(t)
BY DEF SameButNew, SameRequest, SameAccess, SameAnswer, NoNewClaim, SameName,
   Open, ToLeave, WriteOpen, Looked, Acting

LEMMA SameCores ==
  ASSUME UNCHANGED <<l1, vb, req>>
  PROVE  /\ \A c \in CORE : SameReq(c) /\ SameOut(c)
         /\ \A c \in CORE, l \in LINE : StaysOut(c, l)
BY DEF SameReq, SameOut, StaysOut

\* Moves of an entry.
LEMMA ClaimMove ==
  ASSUME TypeInv, TurnInv, ClaimInv, NEW s \in SID, NEW to \in MainState,
         sab' = [sab EXCEPT ![s] = Goto(sab[s], to)],
         sab[s].st \notin {"IDLE", "POP"}, to \notin {"IDLE", "DEPD"},
         sab[s].st = "L2CW" => to \in {"MEMW", "POP"},
         to = "L2C" => sab[s].st = "DEPD",
         UNCHANGED <<l1, vb, req>>
  PROVE  ClaimInv'
<1>1. Only(s) /\ GoesTo(sab[s], sab'[s], to)
  BY Moved
<1>2. StateShape(sab[s])
  BY UsedShape
<1>3. sab[s].resp = "sent" => sab'[s].resp = "sent"
  <2>1. sab[s].resp = "sent" => ~rresp_rdy(sab[s], to)
    BY <1>2 DEF StateShape, rresp_rdy, rd, rs, cml2, ReadKind
  <2> QED
    BY <1>1, <2>1 DEF GoesTo
<1>4. Looked(sab[s]) => Looked(sab'[s])
  BY <1>1 DEF GoesTo, Looked, Acting
<1>5. SameRequest(sab[s], sab'[s])
  BY <1>1 DEF GoesTo
<1> QED
  BY <1>1, <1>3, <1>4, <1>5, NoNewOne, SameCores, ClaimQuiet

LEMMA MovesClaim ==
  ASSUME TypeInv, TurnInv, ClaimInv, NEW s \in SID,
         LeaveDepd(s) \/ LeaveL2(s) \/ LeaveSnop(s) \/ LeaveMemr(s) \/ MemWrite(s)
  PROVE  ClaimInv'
<1> USE DEF MainState
<1>1. CASE LeaveDepd(s)
  BY <1>1, ClaimMove DEF LeaveDepd
<1>2. CASE LeaveL2(s)
  <2>1. CASE sab[s].st = "L2C" /\ AfterL2C(sab[s]) # "L2C" /\ Step(s, AfterL2C(sab[s]))
    <3> DEFINE to == AfterL2C(sab[s])
    <3>1. sab[s].kind \in Kind \ {"none"}
      BY <2>1, UsedShape
    <3>2. to \in MainState \ {"IDLE", "DEPD"}
      BY <3>1, AfterL2CCases, Zenon
    <3>3. sab' = [sab EXCEPT ![s] = Goto(sab[s], to)] /\ to # "L2C"
          /\ UNCHANGED <<l1, vb, req>>
      BY <2>1 DEF Step
    <3> HIDE DEF to
    <3> QED
      BY <2>1, <3>2, <3>3, ClaimMove
  <2>2. CASE sab[s].st \in {"L2CR", "L2CT"} /\ Step(s, "L2CW")
    BY <2>2, ClaimMove DEF Step
  <2>3. CASE sab[s].st = "L2CW" /\ Step(s, AfterL2CW(sab[s]))
    <3> DEFINE to == AfterL2CW(sab[s])
    <3>1. to \in {"MEMW", "POP"}
      BY DEF AfterL2CW
    <3>2. sab' = [sab EXCEPT ![s] = Goto(sab[s], to)] /\ UNCHANGED <<l1, vb, req>>
      BY <2>3 DEF Step
    <3> HIDE DEF to
    <3> QED
      BY <2>3, <3>1, <3>2, ClaimMove
  <2> QED
    BY <1>2, <2>1, <2>2, <2>3 DEF LeaveL2
<1>3. CASE LeaveSnop(s)
  <2> DEFINE to == AfterSnop(sab[s])
  <2>1. to \in {"L2CR", "POP", "L2CW"}
    BY DEF AfterSnop
  <2>2. /\ sab' = [sab EXCEPT ![s] = Goto(sab[s], to)] /\ UNCHANGED <<l1, vb, req>>
        /\ sab[s].st = "SNOP"
    BY <1>3 DEF LeaveSnop, Step
  <2> HIDE DEF to
  <2> QED
    BY <2>1, <2>2, ClaimMove
<1>4. CASE LeaveMemr(s)
  <2> DEFINE to == IF sab[s].kind = "ru" THEN "L2CT" ELSE "L2CW"
  <2>1. to \in {"L2CT", "L2CW"}
    OBVIOUS
  <2>2. /\ sab' = [sab EXCEPT ![s] = Goto(sab[s], to)] /\ UNCHANGED <<l1, vb, req>>
        /\ sab[s].st = "MEMR"
    BY <1>4 DEF LeaveMemr, Step
  <2> HIDE DEF to
  <2> QED
    BY <2>1, <2>2, ClaimMove
<1>5. CASE MemWrite(s)
  BY <1>5, ClaimMove DEF MemWrite
<1> QED
  BY <1>1, <1>2, <1>3, <1>4, <1>5

\* Steps of an entry that keep its main state.
LEMMA AccessClaim ==
  ASSUME TypeInv, TurnInv, ClaimInv, NEW s \in SID,
         WriteData(s) \/ MemRead(s) \/ L2Lookup(s) \/ L2Write(s)
  PROVE  ClaimInv'
<1>1. UNCHANGED <<l1, vb, req>>
  BY DEF WriteData, MemRead, L2Lookup, L2Write
<1>2. CASE WriteData(s)
  <2>1. /\ Only(s) /\ SameRequest(sab[s], sab'[s]) /\ SameAccess(sab[s], sab'[s])
        /\ sab'[s].resp = "rdy"
    BY <1>2, WriteDataFull
  <2>2. sab[s].kind \in {"wb", "wc"} /\ sab[s].st = "DEPD" /\ ~sab[s].wt
    BY <1>2 DEF WriteData, wns
  <2>3. sab[s].resp = "no"
    BY <2>2, UsedShape DEF StateShape, wns
  <2>4. \A t \in SID : NoNewClaim(t)
    BY <2>1, <2>3, NoNewOne DEF SameAccess, Looked, Acting
  <2> QED
    BY <1>1, <2>4, SameCores, ClaimQuiet
<1>3. CASE MemRead(s)
  <2>1. /\ Only(s) /\ SameRequest(sab[s], sab'[s]) /\ SameAnswer(sab[s], sab'[s])
        /\ sab'[s].st = sab[s].st /\ sab'[s].l2c_req = sab[s].l2c_req
    BY <1>3, MemReadFull
  <2>2. \A t \in SID : NoNewClaim(t)
    BY <2>1, NoNewOne DEF SameAnswer, Looked, Acting
  <2> QED
    BY <1>1, <2>2, SameCores, ClaimQuiet
<1>4. CASE L2Lookup(s)
  <2>1. Only(s) /\ LooksUp(sab[s], sab'[s])
    BY <1>4, L2LookupFull
  <2>2. \A t \in SID : NoNewClaim(t)
    BY <2>1, NoNewOne DEF LooksUp, SameAnswer, Looked, Acting
  <2> QED
    BY <1>1, <2>2, SameCores, ClaimQuiet
<1>5. CASE L2Write(s)
  <2>1. Only(s) /\ Written(sab[s], sab'[s])
    BY <1>5, L2WriteFull, Zenon
  <2>2. \A t \in SID : NoNewClaim(t)
    BY <2>1, NoNewOne DEF Written, SameAnswer, Looked, Acting
  <2> QED
    BY <1>1, <2>2, SameCores, ClaimQuiet
<1> QED
  BY <1>2, <1>3, <1>4, <1>5

LEMMA SnpRespClaim ==
  ASSUME TypeInv, TurnInv, ClaimInv, NEW s \in SID, NEW c \in CORE, SnpResp(s, c)
  PROVE  ClaimInv'
<1> DEFINE e == sab[s]
           l == e.line
<1>1. /\ l \in LINE /\ Only(s) /\ Snooped(e, sab'[s], c)
      /\ \A d \in CORE : d # c => vb'[d] = vb[d]
      /\ (vb'[c] = NoVB /\ vb[c].st = "hold") \/ vb'[c] = vb[c]
      /\ OtherLines(c, l)
      /\ l1[c][l].st = "I" => l1'[c][l].st = "I"
  <2>1. /\ l \in LINE /\ Only(s) /\ Snooped(e, sab'[s], c)
        /\ \A d \in CORE : d # c => vb'[d] = vb[d]
        /\ vb'[c] = IF Cancel(c, l) \/ (Bypass(c, l) /\ acsnoop(e) # "RO")
                    THEN NoVB ELSE vb[c]
        /\ OtherLines(c, l)
        /\ acsnoop(e) = "CI" => l1'[c][l] = Invalid
        /\ acsnoop(e) = "CS" => l1'[c][l].st = IF l1[c][l].st = "I" THEN "I" ELSE "S"
        /\ acsnoop(e) \notin {"CI", "CS"} => l1'[c][l].st = l1[c][l].st
    BY SnpRespFull, Zenon
  <2>2. (vb'[c] = NoVB /\ vb[c].st = "hold") \/ vb'[c] = vb[c]
    BY <2>1 DEF Cancel, Bypass
  <2>3. Invalid.st = "I"
    BY DEF Invalid
  <2> HIDE DEF e, l
  <2>4. l1[c][l].st = "I" => l1'[c][l].st = "I"
    BY <2>1, <2>3
  <2> QED
    BY <2>1, <2>2, <2>4
<1>2. UNCHANGED req
  BY DEF SnpResp
<1>3. \A t \in SID : NoNewClaim(t)
  BY <1>1, NoNewOne DEF Snooped, SameAccess, SameAnswer, Looked, Acting
<1> HIDE DEF e, l
<1>4. ASSUME NEW d \in CORE PROVE SameReq(d) /\ SameOut(d)
  BY <1>1, <1>2 DEF SameReq, SameOut, NoVB
<1>5. ASSUME NEW d \in CORE, NEW m \in LINE PROVE StaysOut(d, m)
  BY <1>1 DEF StaysOut, OtherLines
<1> QED
  BY <1>3, <1>4, <1>5, ClaimQuiet

LEMMA PopClaim ==
  ASSUME TypeInv, ClaimInv, NEW s \in SID, Pop(s)
  PROVE  ClaimInv'
<1>1. /\ sab'[s] = IdleEntry
      /\ \A t \in SID \ {s} :
           Released(sab[t], sab'[t], s, snpl2(sab[s]) /\ sab[s].ini = t)
  BY PopFull
<1>2. ~Open(sab'[s]) /\ ~ToLeave(sab'[s]) /\ ~WriteOpen(sab'[s])
  BY <1>1 DEF IdleEntry, Open, ToLeave, WriteOpen, Goes, ReadKind, WriteKind
<1>3. UNCHANGED <<l1, vb, req>>
  BY DEF Pop
<1>4. ASSUME NEW t \in SID
      PROVE  NoNewClaim(t)
  <2>1. CASE t = s
    BY <1>2, <2>1 DEF NoNewClaim
  <2>2. CASE t # s
    <3>1. Released(sab[t], sab'[t], s, snpl2(sab[s]) /\ sab[s].ini = t)
      BY <1>1, <2>2
    <3> QED
      BY <1>2, <3>1 DEF NoNewClaim, Released, SameAnswer, SameName, Open, ToLeave,
         WriteOpen, Looked, Acting
  <2> QED
    BY <2>1, <2>2
<1> QED
  BY <1>3, <1>4, SameCores, ClaimQuiet

LEMMA L2AllocateClaim ==
  ASSUME TypeInv, ClaimInv, NEW s \in SID, L2Allocate(s)
  PROVE  ClaimInv'
<1> DEFINE w == way_fifo
           n == Lowest(FreeEntries(RSID))
<1>1. /\ Fetches(sab[s], sab'[s])
      /\ ~l2[w].vld => Only(s)
      /\ l2[w].vld =>
           /\ IsNew(sab'[n], "snpl2", l2[w].tag, NONE, SnpL2Depd, s)
           /\ \A t \in SID \ {s, n} : sab'[t] = sab[t]
  BY L2AllocateFull, Zenon
<1> HIDE DEF w, n
<1>2. UNCHANGED <<l1, vb, req>> /\ sab[s].st = "L2CA"
  BY DEF L2Allocate
<1>3. ASSUME NEW t \in SID
      PROVE  NoNewClaim(t)
  <2>1. ASSUME NEW u \in SID
        PROVE  \/ /\ SameRequest(sab[u], sab'[u]) /\ SameAnswer(sab[u], sab'[u])
                  /\ Looked(sab[u]) => Looked(sab'[u])
               \/ sab'[u].kind = "snpl2"
    <3>1. CASE u = s
      BY <1>1, <3>1 DEF Fetches, Looked, Acting
    <3>2. CASE u # s /\ sab'[u] = sab[u]
      BY <3>2 DEF SameRequest, SameAnswer
    <3>3. CASE l2[w].vld /\ u = n
      BY <1>1, <3>3 DEF IsNew
    <3> QED
      BY <1>1, <3>1, <3>2, <3>3 DEF Only
  <2> QED
    BY <2>1 DEF NoNewClaim, SameRequest, SameAnswer, SameName, Open, ToLeave,
       WriteOpen, Goes, ReadKind, WriteKind
<1> QED
  BY <1>2, <1>3, SameCores, ClaimQuiet

\* The steps of the cores.
LEMMA IssueReadClaim ==
  ASSUME TypeInv, ClaimInv, NEW c \in CORE, NEW k \in READS, NEW l \in LINE,
         IssueRead(c, k, l)
  PROVE  ClaimInv'
<1>1. /\ k \in ReadKind
      /\ UNCHANGED <<sab, l2, rplc, mem, l1, vb>>
      /\ \A d \in CORE : d # c => req'[d] = req[d]
      /\ req'[c] = [kind |-> k, line |-> l, sent |-> FALSE, stored |-> FALSE]
  BY IssueReadFull
<1>2. req[c].kind = "none" /\ (k \in FillKind => vb[c].st = "none" /\ l1[c][l].st = "I")
  BY DEF IssueRead, MayIssue, FillKind
<1>3. \A t \in SID : NoNewClaim(t)
  BY <1>1, SabSame, NoNewSame
<1>4. /\ \A d \in CORE : SameOut(d) /\ (d # c => SameReq(d))
      /\ \A d \in CORE, m \in LINE : StaysOut(d, m)
  BY <1>1 DEF SameReq, SameOut, StaysOut
<1>5. Left' /\ WriteFirst' /\ Victims' /\ Leaving'
  BY <1>1 DEF ClaimInv, Left, WriteFirst, Victims, Leaving
<1>6. Answering'
  <2>1. ASSUME NEW t \in SID, Open(sab'[t])
        PROVE  SameReq(sab[t].mid)
    <3>1. Open(sab[t])
      BY <1>1, <2>1
    <3>2. sab[t].mid \in CORE /\ req[sab[t].mid].kind \in ReadKind
      BY <3>1, Mids DEF ClaimInv, Answering, Open
    <3>3. sab[t].mid # c
      BY <1>2, <3>2 DEF ReadKind
    <3> QED
      BY <1>4, <3>2, <3>3
  <2> QED
    BY <1>3, <2>1, AnsweringStep
<1>7. Asking'
  <2>1. ASSUME NEW d \in CORE, req'[d].kind \in FillKind
        PROVE  /\ l1'[d][req'[d].line].st = "I"
               /\ vb'[d].st = "none" \/ vb'[d].line # req'[d].line
    <3>1. CASE d # c
      BY <1>4, <2>1, <3>1, AskingStep
    <3>2. CASE d = c
      BY <1>1, <1>2, <2>1, <3>2
    <3> QED
      BY <3>1, <3>2
  <2> QED
    BY <2>1 DEF Asking
<1> QED
  BY <1>5, <1>6, <1>7 DEF ClaimInv

LEMMA ToVictimBufferClaim ==
  ASSUME TypeInv, ClaimInv, NEW c \in CORE, NEW l \in LINE, NEW k \in WriteKind,
         NEW copy \in LineInL1, ToVictimBuffer(c, l, k, copy),
         l1[c][l].st # "I", Goes(k) => copy.st = "I"
  PROVE  ClaimInv'
<1>1. /\ UNCHANGED <<sab, l2, rplc, mem, req>>
      /\ vb[c].st = "none"
      /\ \A d \in CORE : d # c => vb'[d] = vb[d]
      /\ vb'[c] = [st |-> "hold", kind |-> k, line |-> l, new |-> l1[c][l].new]
      /\ OtherLines(c, l) /\ l1'[c][l] = copy
  BY ToVictimBufferFull
<1>2. /\ vb'[c].st = "hold" /\ vb'[c].kind = k /\ vb'[c].line = l
  BY <1>1
<1>3. \A t \in SID : NoNewClaim(t)
  BY <1>1, SabSame, NoNewSame
<1>4. /\ \A d \in CORE : SameReq(d) /\ (d # c => SameOut(d))
      /\ \A d \in CORE, m \in LINE : StaysOut(d, m)
  BY <1>1 DEF SameReq, SameOut, StaysOut, OtherLines
<1>5. Left'
  <2>1. ASSUME NEW t \in SID, ToLeave(sab'[t])
        PROVE  StaysOut(sab[t].mid, sab[t].line)
    <3>1. ToLeave(sab[t])
      BY <1>1, <2>1
    <3> QED
      BY <1>4, <3>1, Mids
  <2> QED
    BY <1>3, <2>1, LeftStep
<1>6. WriteFirst' /\ Answering'
  BY <1>1 DEF ClaimInv, WriteFirst, Answering
<1>7. Victims'
  <2>1. ASSUME NEW t \in SID, WriteOpen(sab'[t])
        PROVE  SameOut(sab[t].mid)
    <3>1. WriteOpen(sab[t])
      BY <1>1, <2>1
    <3>2. sab[t].mid \in CORE /\ vb[sab[t].mid].st = "sab"
      BY <3>1, Mids DEF ClaimInv, Victims
    <3> QED
      BY <1>1, <1>4, <3>2
  <2> QED
    BY <1>3, <2>1, VictimsStep
<1>8. Asking'
  <2>1. ASSUME NEW d \in CORE, req'[d].kind \in FillKind
        PROVE  /\ l1'[d][req'[d].line].st = "I"
               /\ vb'[d].st = "none" \/ vb'[d].line # req'[d].line
    <3>1. CASE d # c
      BY <1>4, <2>1, <3>1, AskingStep
    <3>2. CASE d = c
      <4>1. /\ req'[c] = req[c] /\ l1[c][req[c].line].st = "I"
            /\ req[c].line \in LINE /\ req[c].line # l
        BY <1>1, <2>1, <3>2, NamedLines DEF ClaimInv, Asking, FillKind
      <4> QED
        BY <1>1, <1>2, <3>2, <4>1 DEF OtherLines
    <3> QED
      BY <3>1, <3>2
  <2> QED
    BY <2>1 DEF Asking
<1>9. Leaving'
  <2>1. ASSUME NEW d \in CORE, vb'[d].st \in {"hold", "sent"}, Goes(vb'[d].kind)
        PROVE  l1'[d][vb'[d].line].st = "I"
    <3>1. CASE d # c
      <4>1. StaysOut(d, vb[d].line)
        BY <1>1, <1>4, <2>1, <3>1, NamedLines
      <4> QED
        BY <1>4, <2>1, <3>1, <4>1, LeavingStep
    <3>2. CASE d = c
      BY <1>1, <1>2, <2>1, <3>2
    <3> QED
      BY <3>1, <3>2
  <2> QED
    BY <2>1 DEF Leaving, Goes
<1> QED
  BY <1>5, <1>6, <1>7, <1>8, <1>9 DEF ClaimInv

LEMMA CoreClaim ==
  ASSUME TypeInv, ClaimInv, NEW c \in CORE, CoreStep(c)
  PROVE  ClaimInv'
<1>1. CASE \E l \in LINE, k \in READS : IssueRead(c, k, l)
  BY <1>1, IssueReadClaim
<1>2. CASE \E l \in LINE : Store(c, l)
  <2>1. PICK l \in LINE : Store(c, l)
    BY <1>2
  <2>2. /\ \A s \in SID : SameButNew(sab[s], sab'[s])
        /\ \A d \in CORE : /\ vb'[d].st = vb[d].st /\ vb'[d].kind = vb[d].kind
                           /\ vb'[d].line = vb[d].line
        /\ \A d \in CORE : /\ req'[d].kind = req[d].kind /\ req'[d].line = req[d].line
                           /\ req'[d].sent = req[d].sent
        /\ \A d \in CORE, m \in LINE : m # l => l1'[d][m] = l1[d][m]
        /\ \A d \in CORE : d # c => l1'[d][l].st = l1[d][l].st
    BY <2>1, StoreFull
  <2>3. l1[c][l].st # "I"
    BY <2>1 DEF Store
  <2>4. /\ \A d \in CORE : SameReq(d) /\ SameOut(d)
        /\ \A d \in CORE, m \in LINE : StaysOut(d, m)
    BY <2>2, <2>3 DEF SameReq, SameOut, StaysOut
  <2> QED
    BY <2>2, <2>4, NoNewSame, ClaimQuiet
<1>3. CASE \E l \in LINE : Replace(c, l) \/ CleanOwn(c, l)
  <2>1. PICK l \in LINE : Replace(c, l) \/ CleanOwn(c, l)
    BY <1>3
  <2>2. Invalid \in LineInL1 /\ Invalid.st = "I"
    BY DEF Invalid, LineInL1
  <2>3. CASE Replace(c, l)
    BY <2>2, <2>3, ToVictimBufferClaim DEF Replace, WriteKind
  <2>4. CASE CleanOwn(c, l)
    <3> DEFINE copy == [l1[c][l] EXCEPT !.st = "E"]
    <3>1. copy \in LineInL1
      BY DEF TypeInv, Rest, Level1, LineInL1
    <3>2. l1[c][l].st # "I" /\ ToVictimBuffer(c, l, "wc", copy) /\ ~Goes("wc")
          /\ "wc" \in WriteKind
      BY <2>4 DEF CleanOwn, Goes, WriteKind
    <3> HIDE DEF copy
    <3> QED
      BY <3>1, <3>2, ToVictimBufferClaim
  <2> QED
    BY <2>1, <2>3, <2>4
<1>4. CASE \E l \in LINE : CleanInvOwn(c, l)
  <2>1. PICK l \in LINE : CleanInvOwn(c, l)
    BY <1>4
  <2>2. /\ UNCHANGED <<sab, l2, rplc, mem, vb, req>>
        /\ OtherLines(c, l) /\ l1'[c][l] = Invalid
    BY <2>1, CleanInvOwnFull
  <2>3. /\ \A d \in CORE : SameReq(d) /\ SameOut(d)
        /\ \A d \in CORE, m \in LINE : StaysOut(d, m)
    BY <2>2 DEF SameReq, SameOut, StaysOut, OtherLines, Invalid
  <2> QED
    BY <2>2, <2>3, SabSame, NoNewSame, ClaimQuiet
<1>5. CASE SendAw(c)
  <2>1. /\ UNCHANGED <<sab, l2, rplc, mem, l1, req>>
        /\ \A d \in CORE : d # c => vb'[d] = vb[d]
        /\ vb[c].st = "hold" /\ vb'[c].st = "sent" /\ vb'[c].kind = vb[c].kind
        /\ vb'[c].line = vb[c].line
    BY <1>5, SendAwFull
  <2>2. /\ \A d \in CORE : SameReq(d) /\ SameOut(d)
        /\ \A d \in CORE, m \in LINE : StaysOut(d, m)
    BY <2>1 DEF SameReq, SameOut, StaysOut
  <2> QED
    BY <2>1, <2>2, SabSame, NoNewSame, ClaimQuiet
<1> QED
  BY <1>1, <1>2, <1>3, <1>4, <1>5 DEF CoreStep

\* A read enters the SAB: it is younger than all the writes there are.
LEMMA CreateReadClaim ==
  ASSUME TypeInv, ClaimInv, NEW c \in CORE, CreateRead(c)
  PROVE  ClaimInv'
<1> DEFINE n == Lowest(FreeEntries(PiuSid))
<1>1. /\ n \in SID
      /\ req[c].kind \in ReadKind /\ req[c].line \in LINE
      /\ Only(n) /\ IsNew(sab'[n], req[c].kind, req[c].line, c, Valid, 0)
      /\ \A d \in CORE : d # c => req'[d] = req[d]
      /\ req'[c].kind = req[c].kind /\ req'[c].line = req[c].line /\ req'[c].sent
  BY CreateReadFull, Zenon
<1> HIDE DEF n
<1>2. UNCHANGED <<l1, vb>> /\ ~req[c].sent
  BY DEF CreateRead
<1>3. /\ ~ToLeave(sab'[n]) /\ ~WriteOpen(sab'[n])
      /\ sab'[n].kind = req[c].kind /\ sab'[n].line = req[c].line /\ sab'[n].mid = c
      /\ sab'[n].older = Valid
  BY <1>1 DEF IsNew, ToLeave, WriteOpen, Goes, ReadKind, WriteKind
<1>4. \A t \in SID \ {n} : sab'[t] = sab[t]
  BY <1>1 DEF Only
<1>5. Left' /\ Victims' /\ Leaving'
  BY <1>2, <1>3, <1>4 DEF ClaimInv, Left, Victims, Leaving
<1>6. Asking'
  BY <1>1, <1>2 DEF ClaimInv, Asking
<1>7. ASSUME NEW t \in SID \ {n}, Open(sab[t])
      PROVE  sab[t].mid \in CORE \ {c}
  BY <1>2, <1>7, Mids DEF ClaimInv, Answering
<1>8. Answering'
  <2>1. ASSUME NEW s \in SID, Open(sab'[s])
        PROVE  /\ req'[sab'[s].mid].kind = sab'[s].kind
               /\ req'[sab'[s].mid].line = sab'[s].line /\ req'[sab'[s].mid].sent
    <3>1. CASE s = n
      BY <1>1, <1>3, <3>1
    <3>2. CASE s # n
      BY <1>1, <1>4, <1>7, <2>1, <3>2 DEF ClaimInv, Answering
    <3> QED
      BY <3>1, <3>2
  <2>2. ASSUME NEW s \in SID, NEW t \in SID, Open(sab'[s]), Open(sab'[t]),
               sab'[s].mid = sab'[t].mid
        PROVE  s = t
    <3>1. CASE s # n /\ t # n
      BY <1>4, <2>2, <3>1 DEF ClaimInv, Answering
    <3>2. CASE s = n /\ t # n
      BY <1>3, <1>4, <1>7, <2>2, <3>2
    <3>3. CASE s # n /\ t = n
      BY <1>3, <1>4, <1>7, <2>2, <3>3
    <3> QED
      BY <3>1, <3>2, <3>3
  <2> QED
    BY <2>1, <2>2 DEF Answering, Open
<1>9. WriteFirst'
  <2> SUFFICES ASSUME NEW s \in SID, NEW t \in SID,
                      ToLeave(sab'[s]), Open(sab'[t]), sab'[t].kind \in {"rs", "ru"},
                      sab'[s].mid = sab'[t].mid, sab'[s].line = sab'[t].line
               PROVE  s \in sab'[t].older
    BY DEF WriteFirst, ToLeave, Open, Looked, Acting
  <2>1. s # n /\ ToLeave(sab[s])
    BY <1>3, <1>4
  <2>2. CASE t # n
    BY <1>4, <2>1, <2>2 DEF ClaimInv, WriteFirst
  <2>3. CASE t = n
    <3>1. s \in Valid
      BY <2>1 DEF ToLeave, Goes, Valid, TypeInv, Entries, EntryShape
    <3> QED
      BY <1>3, <2>3, <3>1
  <2> QED
    BY <2>2, <2>3
<1> QED
  BY <1>5, <1>6, <1>8, <1>9 DEF ClaimInv

\* A write enters the SAB: its core waits for no line of it.
LEMMA CreateWriteClaim ==
  ASSUME TypeInv, ClaimInv, NEW c \in CORE, CreateWrite(c)
  PROVE  ClaimInv'
<1> DEFINE n == Lowest(FreeEntries(WSID))
<1>1. /\ n \in SID
      /\ vb[c].kind \in WriteKind /\ vb[c].line \in LINE
      /\ IsNew(sab'[n], vb[c].kind, vb[c].line, c, WriteDepd, 0)
      /\ \A s \in SID \ {n} : MarkedBack(sab[s], sab'[s], n)
      /\ \A d \in CORE : d # c => vb'[d] = vb[d]
      /\ vb'[c].st = "sab" /\ vb'[c].kind = vb[c].kind /\ vb'[c].line = vb[c].line
  BY CreateWriteFull, Zenon
<1> HIDE DEF n
<1>2. UNCHANGED <<l1, req>> /\ vb[c].st = "sent"
  BY DEF CreateWrite
<1>3. /\ ~Open(sab'[n])
      /\ sab'[n].kind = vb[c].kind /\ sab'[n].line = vb[c].line /\ sab'[n].mid = c
  BY <1>1 DEF IsNew, Open, ReadKind, WriteKind
<1>4. ASSUME NEW t \in SID \ {n}
      PROVE  /\ SameName(sab[t], sab'[t]) /\ sab'[t].older = sab[t].older
             /\ Open(sab'[t]) <=> Open(sab[t])
             /\ ToLeave(sab'[t]) <=> ToLeave(sab[t])
             /\ WriteOpen(sab'[t]) <=> WriteOpen(sab[t])
  BY <1>1 DEF MarkedBack, SameAccess, SameAnswer, SameName, Open, ToLeave, WriteOpen,
     Looked, Acting
<1>5. Left'
  <2> SUFFICES ASSUME NEW s \in SID, ToLeave(sab'[s])
               PROVE  l1'[sab'[s].mid][sab'[s].line].st = "I"
    BY DEF Left, ToLeave, Looked, Acting
  <2>1. CASE s = n
    BY <1>2, <1>3, <2>1 DEF ClaimInv, Leaving, ToLeave
  <2>2. CASE s # n
    BY <1>2, <1>4, <2>2 DEF ClaimInv, Left, SameName
  <2> QED
    BY <2>1, <2>2
<1>6. Leaving'
  BY <1>1, <1>2 DEF ClaimInv, Leaving
<1>7. Asking'
  BY <1>1, <1>2 DEF ClaimInv, Asking
<1>8. Answering'
  <2>1. ASSUME NEW s \in SID, Open(sab'[s])
        PROVE  s # n /\ Open(sab[s]) /\ SameName(sab[s], sab'[s])
    BY <1>3, <1>4, <2>1
  <2> QED
    BY <1>2, <2>1 DEF ClaimInv, Answering, Open, SameName
<1>9. WriteFirst'
  <2> SUFFICES ASSUME NEW s \in SID, NEW t \in SID,
                      ToLeave(sab'[s]), Open(sab'[t]), sab'[t].kind \in {"rs", "ru"},
                      sab'[s].mid = sab'[t].mid, sab'[s].line = sab'[t].line
               PROVE  s \in sab'[t].older
    BY DEF WriteFirst, ToLeave, Open, Looked, Acting
  <2>1. t # n /\ Open(sab[t]) /\ SameName(sab[t], sab'[t]) /\ sab'[t].older = sab[t].older
    BY <1>3, <1>4
  <2>2. CASE s # n
    BY <1>4, <2>1, <2>2 DEF ClaimInv, WriteFirst, SameName
  <2>3. CASE s = n
    <3>1. sab[t].mid = c /\ sab[t].line = vb[c].line /\ sab[t].kind \in {"rs", "ru"}
      BY <1>3, <2>1, <2>3 DEF SameName
    <3>2. req[c].kind \in FillKind /\ req[c].line = vb[c].line
      BY <2>1, <3>1 DEF ClaimInv, Answering, FillKind
    <3> QED
      BY <1>2, <3>2 DEF ClaimInv, Asking
  <2> QED
    BY <2>2, <2>3
<1>10. Victims'
  <2>1. ASSUME NEW t \in SID \ {n}, WriteOpen(sab[t])
        PROVE  sab[t].mid \in CORE \ {c}
    BY <1>2, <2>1, Mids DEF ClaimInv, Victims
  <2>2. ASSUME NEW s \in SID, WriteOpen(sab'[s])
        PROVE  /\ vb'[sab'[s].mid].st = "sab" /\ vb'[sab'[s].mid].kind = sab'[s].kind
               /\ vb'[sab'[s].mid].line = sab'[s].line
    <3>1. CASE s = n
      BY <1>1, <1>3, <3>1
    <3>2. CASE s # n
      <4>1. WriteOpen(sab[s]) /\ SameName(sab[s], sab'[s]) /\ sab[s].mid \in CORE \ {c}
        BY <1>4, <2>1, <2>2, <3>2
      <4> QED
        BY <1>1, <4>1 DEF ClaimInv, Victims, SameName
    <3> QED
      BY <3>1, <3>2
  <2>3. ASSUME NEW s \in SID, NEW t \in SID, WriteOpen(sab'[s]), WriteOpen(sab'[t]),
               sab'[s].mid = sab'[t].mid
        PROVE  s = t
    <3>1. CASE s # n /\ t # n
      BY <1>4, <2>3, <3>1 DEF ClaimInv, Victims, SameName
    <3>2. CASE s = n /\ t # n
      BY <1>3, <1>4, <2>1, <2>3, <3>2 DEF SameName
    <3>3. CASE s # n /\ t = n
      BY <1>3, <1>4, <2>1, <2>3, <3>3 DEF SameName
    <3> QED
      BY <3>1, <3>2, <3>3
  <2> QED
    BY <2>2, <2>3 DEF Victims, WriteOpen
<1> QED
  BY <1>5, <1>6, <1>7, <1>8, <1>9, <1>10 DEF ClaimInv

\* Answers.
LEMMA SendBClaim ==
  ASSUME TypeInv, ClaimInv, NEW s \in SID, SendB(s)
  PROVE  ClaimInv'
<1> DEFINE c == sab[s].mid
<1>1. /\ c \in CORE
      /\ Only(s) /\ Answered(sab[s], sab'[s])
      /\ \A d \in CORE : vb'[d] = IF d = c THEN NoVB ELSE vb[d]
  BY SendBFull
<1>2. UNCHANGED <<l1, req>> /\ WriteOpen(sab[s])
  BY DEF SendB, WriteOpen
<1>3. \A t \in SID : NoNewClaim(t)
  BY <1>1, NoNewOne DEF Answered, SameAccess, Looked, Acting
<1>4. /\ \A d \in CORE : SameReq(d) /\ (d # c => SameOut(d))
      /\ \A d \in CORE, l \in LINE : StaysOut(d, l)
  BY <1>1, <1>2 DEF SameReq, SameOut, StaysOut
<1>5. vb'[c].st = "none"
  BY <1>1 DEF NoVB
<1>6. Left'
  <2>1. ASSUME NEW t \in SID, ToLeave(sab'[t])
        PROVE  StaysOut(sab[t].mid, sab[t].line)
    <3>1. ToLeave(sab[t])
      BY <1>3, <2>1 DEF NoNewClaim
    <3> QED
      BY <1>4, <3>1, Mids
  <2> QED
    BY <1>3, <2>1, LeftStep
<1>7. WriteFirst'
  BY <1>3, WriteFirstStep
<1>8. Answering'
  <2>1. ASSUME NEW t \in SID, Open(sab'[t])
        PROVE  SameReq(sab[t].mid)
    BY <1>3, <1>4, <2>1, Mids DEF NoNewClaim
  <2> QED
    BY <1>3, <2>1, AnsweringStep
<1>9. Victims'
  <2>1. ASSUME NEW t \in SID, WriteOpen(sab'[t])
        PROVE  SameOut(sab[t].mid)
    <3>1. t # s
      BY <1>1, <2>1 DEF WriteOpen, Answered
    <3>2. WriteOpen(sab[t]) /\ sab[t].mid \in CORE
      BY <1>3, <2>1, Mids DEF NoNewClaim
    <3>3. sab[t].mid # c
      BY <1>2, <3>1, <3>2 DEF ClaimInv, Victims
    <3> QED
      BY <1>4, <3>2, <3>3
  <2> QED
    BY <1>3, <2>1, VictimsStep
<1>10. Asking'
  <2>1. ASSUME NEW d \in CORE, req'[d].kind \in FillKind
        PROVE  /\ l1'[d][req'[d].line].st = "I"
               /\ vb'[d].st = "none" \/ vb'[d].line # req'[d].line
    <3>1. CASE d # c
      BY <1>4, <2>1, <3>1, AskingStep
    <3>2. CASE d = c
      BY <1>2, <1>5, <2>1, <3>2 DEF ClaimInv, Asking
    <3> QED
      BY <3>1, <3>2
  <2> QED
    BY <2>1 DEF Asking
<1>11. Leaving'
  <2>1. ASSUME NEW d \in CORE, vb'[d].st \in {"hold", "sent"}, Goes(vb'[d].kind)
        PROVE  l1'[d][vb'[d].line].st = "I"
    <3>1. d # c
      BY <1>5, <2>1
    <3> QED
      BY <1>1, <1>2, <2>1, <3>1 DEF ClaimInv, Leaving
  <2> QED
    BY <2>1 DEF Leaving, Goes
<1> QED
  BY <1>6, <1>7, <1>8, <1>9, <1>10, <1>11 DEF ClaimInv

\* The core that waits gets its line: nothing of it is on its way out.
LEMMA SendRClaim ==
  ASSUME TypeInv, TurnInv, ClaimInv, NEW s \in SID, SendR(s)
  PROVE  ClaimInv'
<1> DEFINE e == sab[s]
           c == e.mid
           l == e.line
<1>1. /\ c \in CORE /\ l \in LINE
      /\ Only(s) /\ Answered(e, sab'[s])
      /\ \A d \in CORE : req'[d] = IF d = c THEN NoReq ELSE req[d]
      /\ OtherLines(c, l)
      /\ e.kind \notin {"rs", "ru"} /\ l1[c][l].st = "I" => l1'[c][l].st = "I"
  <2>1. /\ c \in CORE /\ l \in LINE
        /\ Only(s) /\ Answered(e, sab'[s])
        /\ \A d \in CORE : req'[d] = IF d = c THEN NoReq ELSE req[d]
        /\ OtherLines(c, l)
        /\ e.kind \notin {"rs", "ru"} /\ ~(e.kind = "cu" /\ l1[c][l].st = "S")
             => l1'[c][l].st = l1[c][l].st
    BY SendRFull, Zenon
  <2> HIDE DEF e, c, l
  <2> QED
    BY <2>1
<1>2. UNCHANGED vb /\ Open(e) /\ Acting(e) /\ e.kind \in ReadKind
  <2>1. UNCHANGED vb /\ Open(e) /\ e.kind \in ReadKind /\ e.resp = "rdy"
    BY DEF SendR, Open
  <2>2. StateShape(e)
    BY DEF TurnInv, StateShapes
  <2> QED
    BY <2>1, <2>2 DEF StateShape, Acting
<1>3. \A t \in SID : NoNewClaim(t)
  BY <1>1, NoNewOne DEF Answered, SameAccess, Looked, Acting
<1>4. /\ \A d \in CORE : SameOut(d) /\ (d # c => SameReq(d))
      /\ \A d \in CORE, m \in LINE : d # c \/ m # l => StaysOut(d, m)
      /\ e.kind \notin {"rs", "ru"} => StaysOut(c, l)
  BY <1>1, <1>2 DEF SameReq, SameOut, StaysOut, OtherLines
<1>5. req'[c].kind = "none"
  BY <1>1 DEF NoReq
<1>6. Left'
  <2>1. ASSUME NEW t \in SID, ToLeave(sab'[t])
        PROVE  StaysOut(sab[t].mid, sab[t].line)
    <3>1. ToLeave(sab[t]) /\ sab[t].mid \in CORE /\ sab[t].line \in LINE
      BY <1>3, <2>1, Mids DEF NoNewClaim
    <3>2. CASE sab[t].mid # c \/ sab[t].line # l \/ e.kind \notin {"rs", "ru"}
      BY <1>1, <1>4, <3>1, <3>2
    <3>3. CASE sab[t].mid = c /\ sab[t].line = l /\ e.kind \in {"rs", "ru"}
      <4>1. t \in e.older
        BY <1>2, <3>1, <3>3 DEF ClaimInv, WriteFirst
      <4>2. e.older = {}
        BY <1>2 DEF TurnInv, ReadsInTurn
      <4> QED
        BY <4>1, <4>2
    <3> QED
      BY <3>2, <3>3
  <2> QED
    BY <1>3, <2>1, LeftStep
<1>7. WriteFirst'
  BY <1>3, WriteFirstStep
<1>8. Answering'
  <2>1. ASSUME NEW t \in SID, Open(sab'[t])
        PROVE  SameReq(sab[t].mid)
    <3>1. t # s
      BY <1>1, <2>1 DEF Open, Answered
    <3>2. Open(sab[t]) /\ sab[t].mid \in CORE
      BY <1>3, <2>1, Mids DEF NoNewClaim
    <3>3. sab[t].mid # c
      BY <1>2, <3>1, <3>2 DEF ClaimInv, Answering
    <3> QED
      BY <1>4, <3>2, <3>3
  <2> QED
    BY <1>3, <2>1, AnsweringStep
<1>9. Victims'
  <2>1. ASSUME NEW t \in SID, WriteOpen(sab'[t])
        PROVE  SameOut(sab[t].mid)
    BY <1>3, <1>4, <2>1, Mids DEF NoNewClaim
  <2> QED
    BY <1>3, <2>1, VictimsStep
<1>10. Asking'
  <2>1. ASSUME NEW d \in CORE, req'[d].kind \in FillKind
        PROVE  /\ l1'[d][req'[d].line].st = "I"
               /\ vb'[d].st = "none" \/ vb'[d].line # req'[d].line
    <3>1. d # c
      BY <1>5, <2>1 DEF FillKind
    <3>2. SameReq(d) /\ SameOut(d) /\ \A m \in LINE : StaysOut(d, m)
      BY <1>4, <3>1
    <3> QED
      BY <2>1, <3>2, AskingStep
  <2> QED
    BY <2>1 DEF Asking
<1>11. Leaving'
  <2>1. ASSUME NEW d \in CORE, vb'[d].st \in {"hold", "sent"}, Goes(vb'[d].kind)
        PROVE  l1'[d][vb'[d].line].st = "I"
    <3>1. vb'[d] = vb[d] /\ vb[d].line \in LINE /\ vb[d].st # "none"
      BY <1>2, <2>1, NamedLines
    <3>2. StaysOut(d, vb[d].line)
      <4>1. CASE d # c \/ vb[d].line # l \/ e.kind \notin {"rs", "ru"}
        BY <1>4, <3>1, <4>1
      <4>2. CASE d = c /\ vb[d].line = l /\ e.kind \in {"rs", "ru"}
        <5>1. req[c].kind \in FillKind /\ req[c].line = l
          BY <1>2, <4>2 DEF ClaimInv, Answering, FillKind
        <5> QED
          BY <1>1, <3>1, <4>2, <5>1 DEF ClaimInv, Asking
      <4> QED
        BY <4>1, <4>2
    <3> QED
      BY <1>4, <2>1, <3>2, LeavingStep
  <2> QED
    BY <2>1 DEF Leaving, Goes
<1> QED
  BY <1>6, <1>7, <1>8, <1>9, <1>10, <1>11 DEF ClaimInv

LEMMA InitClaim == Init => ClaimInv
<1> SUFFICES ASSUME Init
             PROVE  ClaimInv
  OBVIOUS
<1>1. /\ \A s \in SID : ~Open(sab[s]) /\ ~ToLeave(sab[s]) /\ ~WriteOpen(sab[s])
      /\ \A c \in CORE : vb[c].st = "none" /\ req[c].kind = "none"
  BY DEF Init, IdleEntry, NoVB, NoReq, Open, ToLeave, WriteOpen, Goes, ReadKind, WriteKind
<1> QED
  BY <1>1 DEF ClaimInv, Asking, Answering, Victims, Leaving, Left, WriteFirst, FillKind

LEMMA StepClaim == OrderInv /\ TurnInv /\ ClaimInv /\ [Next]_vars => ClaimInv'
<1> SUFFICES ASSUME OrderInv, TurnInv, ClaimInv, [Next]_vars
             PROVE  ClaimInv'
  OBVIOUS
<1>1. TypeInv
  BY DEF OrderInv
<1>2. CASE \E c \in CORE : CoreStep(c) \/ CreateStep(c)
  BY <1>1, <1>2, CoreClaim, CreateReadClaim, CreateWriteClaim DEF CreateStep
<1>3. CASE \E s \in SID : EntryStep(s)
  BY <1>1, <1>3, MovesClaim, AccessClaim, SnpRespClaim, PopClaim, L2AllocateClaim,
     SendBClaim, SendRClaim DEF EntryStep
<1>4. CASE UNCHANGED vars
  <2>1. UNCHANGED sab /\ UNCHANGED <<l1, vb, req>>
    BY <1>4 DEF vars
  <2> QED
    BY <1>1, <2>1, SabSame, NoNewSame, SameCores, ClaimQuiet
<1> QED
  BY <1>2, <1>3, <1>4 DEF Next

\* What the cores and their requests rely on holds in every state: a core that
\* waits for a line has no copy of it and none on its way out (MayIssue, the
\* victim buffer that keeps back reads of its index), and a line that was
\* replaced stays out of the L1 until the L2 has heard of it.
THEOREM ClaimInvariant == Spec => []ClaimInv
<1>1. Init => OrderInv /\ TurnInv /\ ClaimInv
  BY InitOrder, InitTurn, InitClaim
<1>2. (OrderInv /\ TurnInv /\ ClaimInv) /\ [Next]_vars => (OrderInv /\ TurnInv /\ ClaimInv)'
  BY StepOrder, StepTurn, StepClaim
<1> QED
  BY <1>1, <1>2, PTL DEF Spec

=============================================================================
