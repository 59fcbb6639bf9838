-------------------------- MODULE Coherence_proofs --------------------------
(***************************************************************************)
(* Proofs about SnoopBuffer for any number of cores, lines, entries and    *)
(* ways: single writer or multiple readers, the snoop filter knows every   *)
(* copy, reads return the latest store, no store is lost, and a cache      *)
(* maintenance request has done its work when it is answered.              *)
(*                                                                         *)
(* The invariant comes in layers, each inductive given those before it.    *)
(* Of SnoopBuffer_proofs come OrderInv, which entries act at a time        *)
(* (TurnInv), and what the cores and their requests may rely on            *)
(* (ClaimInv).  Here follow where the copies of a line are known           *)
(* (CopyInv), when the writes act (WriteInv), where a core may owe data    *)
(* (OwesInv), which writes may still come (LateInv), and what an entry     *)
(* knows of the L2 and which ways are given away (HitInv).  On top of them *)
(* DataInv says where the latest store to a line is, and who may have an   *)
(* old value.                                                              *)
(***************************************************************************)
EXTENDS SnoopBuffer_proofs

(***************************************************************************)
(* Where the copies of a line are known.                                   *)
(***************************************************************************)
OneTag == \A v, w \in WAY : l2[v].vld /\ l2[w].vld /\ l2[v].tag = l2[w].tag => v = w

\* The entries that take a line away from the cores: they clear the CP bits of
\* the cores that they hold in cp and snp.
Taker(e) == e.kind \in {"ru", "cu", "ci", "snpl2"}
Holds(e) == e.cp \cup e.snp

\* A read whose core has the line already, and whose CP bit is still to be set.
Filled(e) == e.kind \in {"rs", "ru"} /\ e.st = "L2CW" /\ e.l2c_req /\ e.resp = "sent"

\* Every copy is known to a CP bit or to one of these entries.
InFilter(c, l) == \E w \in Hit(l) : c \in l2[w].cp
Known(c, l) ==
  \/ InFilter(c, l)
  \/ \E s \in SID : /\ sab[s].line = l
                    /\ \/ Taker(sab[s]) /\ c \in Holds(sab[s])
                       \/ Filled(sab[s]) /\ sab[s].mid = c
Inclusion == \A c \in CORE, l \in LINE : l1[c][l].st # "I" => Known(c, l)

\* An entry that has looked the line up snoops every other copy there is, and a
\* ReadShared that found one leaves it shared.
Seeks(e) == (Taker(e) \/ e.kind = "rs") /\ Looked(e)
MayStay(e, c) == e.kind = "rs" /\ e.l1_sh /\ l1[c][e.line].st = "S"
Found == \A s \in SID : Seeks(sab[s]) =>
  \A c \in CORE : c # sab[s].mid /\ l1[c][sab[s].line].st # "I"
                    => c \in Holds(sab[s]) \/ MayStay(sab[s], c)

\* The CP bit of a read that has written the L2 is there when its core gets the
\* line, and a line that a read has hit stays in the L2.
FillReady(e) == e.kind \in {"rs", "ru"} /\ e.resp = "rdy" /\ ~e.l2c_req
FillKnown == \A s \in SID : FillReady(sab[s]) => InFilter(sab[s].mid, sab[s].line)
NeedsHit(e) == /\ rd_alct(e) /\ Looked(e) /\ e.l2_hit
               /\ e.st # "POP" /\ (e.st = "L2CW" => e.l2c_req)
HitStays == \A s \in SID : NeedsHit(sab[s]) => Hit(sab[s].line) # {}

CopyInv == OneTag /\ Inclusion /\ Found /\ FillKnown /\ HitStays /\ SWMR

-----------------------------------------------------------------------------
(***************************************************************************)
(* Where the copies are known.                                             *)
(***************************************************************************)

\* A copy goes, or becomes shared, or stays as unique as it was.
Unique == {"E", "M"}
Fades(c, l) ==
  \/ l1'[c][l].st = "I"
  \/ l1[c][l].st # "I" /\ l1'[c][l].st = "S"
  \/ l1[c][l].st \in Unique /\ l1'[c][l].st \in Unique

\* The ways keep their lines and CP bits.
SameFilter == \A w \in WAY :
  l2'[w].vld = l2[w].vld /\ l2'[w].tag = l2[w].tag /\ l2'[w].cp = l2[w].cp

\* An entry keeps the copies it knows of and learns of no new ones.
KeepsFills(t) == LET e == sab[t] f == sab'[t] IN
  /\ Filled(e) => Filled(f) /\ SameName(e, f)
  /\ FillReady(f) => FillReady(e) /\ SameName(e, f)
  /\ NeedsHit(f) => NeedsHit(e) /\ SameName(e, f)
KeepsTaken(t) == LET e == sab[t] f == sab'[t] IN
  /\ Taker(e) => \A c \in Holds(e) :
       l1'[c][e.line].st # "I" => Taker(f) /\ SameName(e, f) /\ c \in Holds(f)
  /\ Seeks(f) =>
       /\ Seeks(e) /\ SameName(e, f) /\ (e.l1_sh => f.l1_sh)
       /\ \A c \in Holds(e) :
            c \in Holds(f) \/ l1'[c][e.line].st = "I"
              \/ (e.kind = "rs" /\ f.l1_sh /\ l1'[c][e.line].st = "S")

LEMMA FilterSame ==
  ASSUME SameFilter
  PROVE  /\ \A l : Hit(l)' = Hit(l)
         /\ \A c, l : InFilter(c, l)' <=> InFilter(c, l)
         /\ OneTag => OneTag'
<1>1. \A l : Hit(l)' = Hit(l)
  BY DEF SameFilter, Hit
<1>2. \A c, l : InFilter(c, l)' <=> InFilter(c, l)
  BY <1>1 DEF InFilter, SameFilter, Hit
<1>3. OneTag => OneTag'
  BY DEF OneTag, SameFilter
<1> QED
  BY <1>1, <1>2, <1>3

LEMMA SWMRFades ==
  ASSUME SWMR, \A c \in CORE, l \in LINE : Fades(c, l)
  PROVE  SWMR'
BY DEF SWMR, Fades, Unique

LEMMA InclusionStep ==
  ASSUME Inclusion, \A t \in SID : KeepsFills(t) /\ KeepsTaken(t),
         NEW c \in CORE, NEW l \in LINE, InFilter(c, l) => InFilter(c, l)',
         Fades(c, l), l1'[c][l].st # "I"
  PROVE  Known(c, l)'
<1>1. Known(c, l)
  BY DEF Inclusion, Fades, Unique
<1>2. CASE InFilter(c, l)
  BY <1>2 DEF Known
<1>3. CASE \E s \in SID : sab[s].line = l /\ Taker(sab[s]) /\ c \in Holds(sab[s])
  <2>1. PICK s \in SID : sab[s].line = l /\ Taker(sab[s]) /\ c \in Holds(sab[s])
    BY <1>3
  <2>2. sab'[s].line = l /\ Taker(sab'[s]) /\ c \in Holds(sab'[s])
    BY <2>1 DEF KeepsTaken, SameName
  <2> QED
    BY <2>2 DEF Known, Taker, Holds
<1>4. CASE \E s \in SID : sab[s].line = l /\ Filled(sab[s]) /\ sab[s].mid = c
  <2>1. PICK s \in SID : sab[s].line = l /\ Filled(sab[s]) /\ sab[s].mid = c
    BY <1>4
  <2>2. sab'[s].line = l /\ Filled(sab'[s]) /\ sab'[s].mid = c
    BY <2>1 DEF KeepsFills, SameName
  <2> QED
    BY <2>2 DEF Known, Filled
<1> QED
  BY <1>1, <1>2, <1>3, <1>4 DEF Known

\* The line of an entry that acts.
LEMMA ActingLine ==
  ASSUME TypeInv, NEW s \in SID, Acting(sab[s])
  PROVE  sab[s].line \in LINE /\ sab[s].kind # "none" /\ sab[s].st # "IDLE"
BY InUse DEF Acting

LEMMA FoundStep ==
  ASSUME TypeInv, Found, NEW t \in SID, KeepsTaken(t), Seeks(sab'[t]),
         NEW c \in CORE, c # sab'[t].mid, l1'[c][sab'[t].line].st # "I",
         Fades(c, sab[t].line)
  PROVE  c \in Holds(sab'[t]) \/ (/\ sab'[t].kind = "rs" /\ sab'[t].l1_sh
                                 /\ l1'[c][sab'[t].line].st = "S")
<1>1. /\ Seeks(sab[t]) /\ SameName(sab[t], sab'[t]) /\ (sab[t].l1_sh => sab'[t].l1_sh)
      /\ \A d \in Holds(sab[t]) :
            d \in Holds(sab'[t]) \/ l1'[d][sab[t].line].st = "I"
              \/ (sab[t].kind = "rs" /\ sab'[t].l1_sh /\ l1'[d][sab[t].line].st = "S")
  BY DEF KeepsTaken
<1>2. c # sab[t].mid /\ l1[c][sab[t].line].st # "I" /\ l1'[c][sab[t].line].st # "I"
  BY <1>1 DEF Fades, Unique, SameName
<1>3. c \in Holds(sab[t]) \/ MayStay(sab[t], c)
  BY <1>1, <1>2 DEF Found
<1>4. CASE c \in Holds(sab[t])
  BY <1>1, <1>2, <1>4 DEF SameName
<1>5. CASE MayStay(sab[t], c)
  BY <1>1, <1>2, <1>5 DEF MayStay, SameName, Fades, Unique
<1> QED
  BY <1>3, <1>4, <1>5

\* A step that brings no copy and changes no line and no CP bit.
LEMMA CopyQuiet ==
  ASSUME TypeInv, CopyInv, SameFilter, \A c \in CORE, l \in LINE : Fades(c, l),
         \A t \in SID : KeepsFills(t) /\ KeepsTaken(t)
  PROVE  CopyInv'
<1>1. OneTag' /\ SWMR'
  BY FilterSame, SWMRFades DEF CopyInv
<1>2. Inclusion'
  BY FilterSame, InclusionStep DEF CopyInv, Inclusion
<1>3. Found'
  <2>1. ASSUME NEW t \in SID, Seeks(sab'[t]),
               NEW c \in CORE, c # sab'[t].mid, l1'[c][sab'[t].line].st # "I"
        PROVE  c \in Holds(sab'[t]) \/ (/\ sab'[t].kind = "rs" /\ sab'[t].l1_sh
                                       /\ l1'[c][sab'[t].line].st = "S")
    <3>1. Seeks(sab[t])
      BY <2>1 DEF KeepsTaken
    <3>2. sab[t].line \in LINE
      BY <3>1, ActingLine DEF Seeks, Looked
    <3> QED
      BY <2>1, <3>2, FoundStep DEF CopyInv
  <2> QED
    BY <2>1 DEF Found, Seeks, Taker, Looked, Acting, Holds, MayStay
<1>4. FillKnown'
  <2>1. ASSUME NEW t \in SID, FillReady(sab'[t])
        PROVE  InFilter(sab[t].mid, sab[t].line)'
    <3>1. FillReady(sab[t]) /\ SameName(sab[t], sab'[t])
      BY <2>1 DEF KeepsFills
    <3>2. InFilter(sab[t].mid, sab[t].line)
      BY <3>1 DEF CopyInv, FillKnown
    <3> QED
      BY <3>1, <3>2 DEF SameName, SameFilter, InFilter, Hit
  <2> QED
    BY <2>1 DEF FillKnown, FillReady
<1>5. HitStays'
  <2>1. ASSUME NEW t \in SID, NeedsHit(sab'[t])
        PROVE  Hit(sab[t].line)' # {}
    <3>1. NeedsHit(sab[t]) /\ SameName(sab[t], sab'[t])
      BY <2>1 DEF KeepsFills
    <3>2. Hit(sab[t].line) # {}
      BY <3>1 DEF CopyInv, HitStays
    <3> QED
      BY <3>1, <3>2 DEF SameName, SameFilter, Hit
  <2> QED
    BY <2>1 DEF HitStays, NeedsHit, rd_alct, rs, Looked, Acting
<1> QED
  BY <1>1, <1>2, <1>3, <1>4, <1>5 DEF CopyInv

\* What the copies depend on in an entry.
SameCopy(e, f) ==
  /\ SameName(e, f) /\ f.st = e.st /\ f.l2c_req = e.l2c_req /\ f.l2_hit = e.l2_hit
  /\ f.resp = e.resp /\ f.cp = e.cp /\ f.snp = e.snp /\ f.l1_sh = e.l1_sh

LEMMA KeepsSame ==
  ASSUME NEW t \in SID, SameCopy(sab[t], sab'[t])
  PROVE  KeepsFills(t) /\ KeepsTaken(t)
BY DEF SameCopy, SameName, KeepsFills, KeepsTaken, Filled, FillReady, NeedsHit,
   rd_alct, rs, Taker, Holds, Seeks, Looked, Acting

LEMMA KeepsOthers ==
  ASSUME NEW s \in SID, Only(s), KeepsFills(s), KeepsTaken(s)
  PROVE  \A t \in SID : KeepsFills(t) /\ KeepsTaken(t)
<1>1. ASSUME NEW t \in SID \ {s}
      PROVE  KeepsFills(t) /\ KeepsTaken(t)
  <2>1. SameCopy(sab[t], sab'[t])
    BY DEF Only, SameCopy, SameName
  <2> QED
    BY <2>1, KeepsSame
<1> QED
  BY <1>1

LEMMA FadesSame ==
  ASSUME TypeInv, UNCHANGED l1
  PROVE  \A c \in CORE, l \in LINE : Fades(c, l)
BY DEF TypeInv, Rest, Level1, LineInL1, Fades, Unique

LEMMA FilterUnchanged ==
  ASSUME UNCHANGED l2
  PROVE  SameFilter
BY DEF SameFilter

\* Moves of an entry.
LEMMA CopyMove ==
  ASSUME TypeInv, TurnInv, CopyInv, NEW s \in SID, NEW to \in MainState,
         sab' = [sab EXCEPT ![s] = Goto(sab[s], to)],
         sab[s].st \notin {"IDLE", "POP"}, to \notin {"IDLE", "DEPD"},
         sab[s].st = "L2CW" => to \in {"MEMW", "POP"},
         rd_alct(sab[s]) => to # "MEMW",
         to = "L2C" <=> sab[s].st = "DEPD",
         ~sab[s].l2c_req, sab[s].snp = {}, to # "SNOP" => sab[s].cp = {},
         UNCHANGED <<l2, l1>>
  PROVE  CopyInv'
<1> DEFINE e == sab[s]
           f == sab'[s]
<1>1. Only(s) /\ GoesTo(e, f, to)
  BY Moved
<1> HIDE DEF e, f
<1>2. /\ SameName(e, f) /\ f.st = to /\ f.l2_hit = e.l2_hit /\ f.l1_sh = e.l1_sh
      /\ f.l2c_req <=> \/ to \in {"L2C", "L2CR", "L2CA", "L2CT"}
                       \/ to = "L2CW" /\ e.kind # "ro"
      /\ Holds(f) = Holds(e)
      /\ f.resp = IF rresp_rdy(e, to) THEN "rdy" ELSE e.resp
  BY <1>1 DEF GoesTo, SameRequest, SameName, Holds, e
<1>3. /\ ~Filled(e)
      /\ FillReady(f) => FillReady(e)
      /\ NeedsHit(f) => NeedsHit(e)
  <2>1. ~Filled(e)
    BY DEF Filled, e
  <2>2. FillReady(f) => FillReady(e)
    BY <1>2 DEF FillReady, SameName, rresp_rdy, rd, rs, cml2, e
  <2>3. NeedsHit(f) => NeedsHit(e)
    BY <1>2 DEF NeedsHit, SameName, rd_alct, rs, Looked, Acting, e
  <2> QED
    BY <2>1, <2>2, <2>3
<1>4. Taker(e) => Taker(f)
  BY <1>2 DEF Taker, SameName
<1>5. Seeks(f) => Seeks(e)
  BY <1>2 DEF Seeks, Taker, SameName, Looked, Acting, e
<1>6. KeepsFills(s) /\ KeepsTaken(s)
  BY <1>2, <1>3, <1>4, <1>5 DEF KeepsFills, KeepsTaken, e, f
<1> QED
  BY <1>1, <1>6, KeepsOthers, FadesSame, FilterUnchanged, CopyQuiet

LEMMA MovesCopy ==
  ASSUME TypeInv, TurnInv, CopyInv, NEW s \in SID,
         LeaveDepd(s) \/ LeaveL2(s) \/ LeaveSnop(s) \/ LeaveMemr(s) \/ MemWrite(s)
  PROVE  CopyInv'
<1> USE DEF MainState
<1>0. sab[s].st # "IDLE"
  BY DEF LeaveDepd, LeaveL2, LeaveSnop, LeaveMemr, MemWrite
<1>00. StateShape(sab[s]) /\ sab[s].kind \in Kind \ {"none"}
  BY <1>0, UsedShape
<1>1. CASE LeaveDepd(s)
  BY <1>00, <1>1, CopyMove DEF LeaveDepd, StateShape
<1>2. CASE LeaveL2(s)
  <2>1. CASE sab[s].st = "L2C" /\ AfterL2C(sab[s]) # "L2C" /\ Step(s, AfterL2C(sab[s]))
    <3> DEFINE to == AfterL2C(sab[s])
    <3>1. /\ to \in MainState \ {"IDLE", "DEPD"}
          /\ sab[s].cp # {} <=> to = "SNOP"
          /\ to = "MEMW" => wns(sab[s])
      BY <1>00, AfterL2CCases, Zenon
    <3>2. /\ sab' = [sab EXCEPT ![s] = Goto(sab[s], to)] /\ to # "L2C"
          /\ UNCHANGED <<l2, l1>>
      BY <2>1 DEF Step
    <3>3. ~sab[s].l2c_req /\ sab[s].snp = {}
      BY <1>00, <1>2, <2>1 DEF StateShape, LeaveL2
    <3> HIDE DEF to
    <3>4. rd_alct(sab[s]) => to # "MEMW"
      BY <3>1 DEF rd_alct, rs, wns
    <3> QED
      BY <2>1, <3>1, <3>2, <3>3, <3>4, CopyMove
  <2>2. CASE sab[s].st \in {"L2CR", "L2CT"} /\ Step(s, "L2CW")
    <3>1. ~sab[s].l2c_req /\ sab[s].snp = {} /\ sab[s].cp = {}
      BY <1>00, <1>2, <2>2 DEF StateShape, LeaveL2
    <3> QED
      BY <2>2, <3>1, CopyMove DEF Step
  <2>3. CASE sab[s].st = "L2CW" /\ Step(s, AfterL2CW(sab[s]))
    <3> DEFINE to == AfterL2CW(sab[s])
    <3>1. to \in {"MEMW", "POP"} /\ (to = "MEMW" => cml2(sab[s]) \/ snpl2(sab[s]))
      BY DEF AfterL2CW
    <3>2. sab' = [sab EXCEPT ![s] = Goto(sab[s], to)] /\ UNCHANGED <<l2, l1>>
      BY <2>3 DEF Step
    <3> HIDE DEF to
    <3>3. ~sab[s].l2c_req /\ sab[s].snp = {} /\ sab[s].cp = {}
      BY <1>00, <1>2, <2>3 DEF StateShape, LeaveL2
    <3>4. rd_alct(sab[s]) => to # "MEMW"
      BY <3>1 DEF rd_alct, rs, cml2, snpl2
    <3> QED
      BY <2>3, <3>1, <3>2, <3>3, <3>4, CopyMove
  <2> QED
    BY <1>2, <2>1, <2>2, <2>3 DEF LeaveL2
<1>3. CASE LeaveSnop(s)
  <2> DEFINE to == AfterSnop(sab[s])
  <2>1. to \in {"L2CR", "POP", "L2CW"}
    BY DEF AfterSnop
  <2>2. /\ sab' = [sab EXCEPT ![s] = Goto(sab[s], to)] /\ UNCHANGED <<l2, l1>>
        /\ sab[s].st = "SNOP" /\ sab[s].snp = {}
    BY <1>3 DEF LeaveSnop, Step
  <2> HIDE DEF to
  <2>3. ~sab[s].l2c_req /\ sab[s].cp = {}
    BY <1>00, <2>2 DEF StateShape
  <2> QED
    BY <2>1, <2>2, <2>3, CopyMove
<1>4. CASE LeaveMemr(s)
  <2> DEFINE to == IF sab[s].kind = "ru" THEN "L2CT" ELSE "L2CW"
  <2>1. to \in {"L2CT", "L2CW"}
    OBVIOUS
  <2>2. /\ sab' = [sab EXCEPT ![s] = Goto(sab[s], to)] /\ UNCHANGED <<l2, l1>>
        /\ sab[s].st = "MEMR"
    BY <1>4 DEF LeaveMemr, Step
  <2> HIDE DEF to
  <2>3. ~sab[s].l2c_req /\ sab[s].snp = {} /\ sab[s].cp = {}
    BY <1>00, <2>2 DEF StateShape
  <2> QED
    BY <2>1, <2>2, <2>3, CopyMove
<1>5. CASE MemWrite(s)
  <2>1. ~sab[s].l2c_req /\ sab[s].snp = {} /\ sab[s].cp = {} /\ sab[s].st = "MEMW"
    BY <1>00, <1>5 DEF StateShape, MemWrite
  <2> QED
    BY <1>5, <2>1, CopyMove DEF MemWrite
<1> QED
  BY <1>1, <1>2, <1>3, <1>4, <1>5

\* Steps of the cores.
LEMMA CoreCopy ==
  ASSUME TypeInv, CopyInv, NEW c \in CORE, CoreStep(c)
  PROVE  CopyInv'
<1>1. /\ SameFilter
      /\ \A d \in CORE, m \in LINE : Fades(d, m)
  <2>1. CASE \E l \in LINE, k \in READS : IssueRead(c, k, l)
    <3>1. UNCHANGED <<l2, l1>>
      BY <2>1 DEF IssueRead
    <3> QED
      BY <3>1, FadesSame, FilterUnchanged
  <2>2. CASE \E l \in LINE : Store(c, l)
    <3>1. PICK l \in LINE : Store(c, l)
      BY <2>2
    <3>2. /\ WaysButNew
          /\ \A d \in CORE, m \in LINE : m # l => l1'[d][m] = l1[d][m]
          /\ \A d \in CORE : d # c => l1'[d][l].st = l1[d][l].st
          /\ l1'[c][l].st = "M"
      BY <3>1, StoreFull
    <3>3. l1[c][l].st \in Unique
      BY <3>1 DEF Store, Unique
    <3>4. \A d \in CORE, m \in LINE : l1[d][m].st \in {"I", "S", "E", "M"}
      BY DEF TypeInv, Rest, Level1, LineInL1
    <3> QED
      BY <3>2, <3>3, <3>4 DEF Fades, Unique, SameFilter, WaysButNew
  <2>3. CASE \E l \in LINE : Replace(c, l) \/ CleanOwn(c, l) \/ CleanInvOwn(c, l)
    <3>1. PICK l \in LINE : Replace(c, l) \/ CleanOwn(c, l) \/ CleanInvOwn(c, l)
      BY <2>3
    <3> DEFINE copy == [l1[c][l] EXCEPT !.st = "E"]
    <3>2. /\ Invalid \in LineInL1 /\ Invalid.st = "I"
          /\ copy \in LineInL1 /\ copy.st = "E"
      BY DEF Invalid, TypeInv, Rest, Level1, LineInL1
    <3>3. \A d \in CORE, m \in LINE : l1[d][m].st \in {"I", "S", "E", "M"}
      BY DEF TypeInv, Rest, Level1, LineInL1
    <3>4. /\ UNCHANGED l2 /\ OtherLines(c, l)
          /\ l1'[c][l].st = "I" \/ (l1'[c][l].st = "E" /\ l1[c][l].st = "M")
      <4>1. CASE Replace(c, l)
        <5>1. PICK k \in WriteKind, r \in LineInL1 : r = Invalid /\ ToVictimBuffer(c, l, k, r)
          BY <3>2, <4>1 DEF Replace, WriteKind
        <5>2. /\ UNCHANGED <<sab, l2, rplc, mem, req>>
              /\ vb[c].st = "none"
              /\ \A d \in CORE : d # c => vb'[d] = vb[d]
              /\ vb'[c] = [st |-> "hold", kind |-> k, line |-> l, new |-> l1[c][l].new]
              /\ OtherLines(c, l) /\ l1'[c][l] = r
          BY <5>1, ToVictimBufferFull
        <5> QED
          BY <3>2, <5>1, <5>2
      <4>2. CASE CleanOwn(c, l)
        <5> HIDE DEF copy
        <5>1. PICK k \in WriteKind, r \in LineInL1 : r = copy /\ ToVictimBuffer(c, l, k, r)
          BY <3>2, <4>2 DEF CleanOwn, WriteKind, copy
        <5>2. /\ UNCHANGED <<sab, l2, rplc, mem, req>>
              /\ vb[c].st = "none"
              /\ \A d \in CORE : d # c => vb'[d] = vb[d]
              /\ vb'[c] = [st |-> "hold", kind |-> k, line |-> l, new |-> l1[c][l].new]
              /\ OtherLines(c, l) /\ l1'[c][l] = r
          BY <5>1, ToVictimBufferFull
        <5>3. l1[c][l].st = "M"
          BY <4>2 DEF CleanOwn
        <5> QED
          BY <3>2, <5>1, <5>2, <5>3
      <4>3. CASE CleanInvOwn(c, l)
        <5>1. OtherLines(c, l) /\ l1'[c][l] = Invalid /\ UNCHANGED l2
          BY <4>3, CleanInvOwnFull
        <5> QED
          BY <3>2, <5>1
      <4> QED
        BY <3>1, <4>1, <4>2, <4>3
    <3> HIDE DEF copy
    <3>5. \A d \in CORE, m \in LINE : Fades(d, m)
      BY <3>3, <3>4 DEF OtherLines, Fades, Unique
    <3> QED
      BY <3>4, <3>5, FilterUnchanged
  <2>4. CASE SendAw(c)
    <3>1. UNCHANGED <<l2, l1>>
      BY <2>4 DEF SendAw
    <3> QED
      BY <3>1, FadesSame, FilterUnchanged
  <2> QED
    BY <2>1, <2>2, <2>3, <2>4 DEF CoreStep
<1>2. \A t \in SID : SameCopy(sab[t], sab'[t])
  BY CoreSame DEF SameButNew, SameRequest, SameSnoops, SameAccess, SameAnswer,
     SameCopy, SameName
<1> QED
  BY <1>1, <1>2, KeepsSame, CopyQuiet

\* New entries hold no copies and have not looked up.
LEMMA KeepsNew ==
  ASSUME TypeInv, TurnInv, NEW t \in SID, sab[t].st = "IDLE",
         NEW k, NEW l, NEW m, NEW D, NEW i, IsNew(sab'[t], k, l, m, D, i)
  PROVE  KeepsFills(t) /\ KeepsTaken(t)
<1>1. sab[t].cp = {} /\ sab[t].snp = {} /\ ~Filled(sab[t])
  BY DEF TurnInv, StateShapes, StateShape, Filled
<1>2. /\ sab'[t].st \in {"DEPD", "L2C"} /\ (sab'[t].st = "L2C" => sab'[t].l2c_req)
      /\ sab'[t].resp # "rdy" \/ sab'[t].kind = "evict"
  BY DEF IsNew
<1>3. ~FillReady(sab'[t]) /\ ~NeedsHit(sab'[t]) /\ ~Seeks(sab'[t])
  BY <1>2 DEF FillReady, NeedsHit, Seeks, Looked, Acting
<1> QED
  BY <1>1, <1>3 DEF KeepsFills, KeepsTaken, Holds

LEMMA CreateCopy ==
  ASSUME TypeInv, TurnInv, CopyInv, NEW c \in CORE, CreateRead(c) \/ CreateWrite(c)
  PROVE  CopyInv'
<1>1. UNCHANGED <<l2, l1>>
  BY DEF CreateRead, CreateWrite
<1>2. CASE CreateRead(c)
  <2> DEFINE n == Lowest(FreeEntries(PiuSid))
  <2>1. /\ n \in SID /\ n \notin Valid
        /\ Only(n) /\ IsNew(sab'[n], req[c].kind, req[c].line, c, Valid, 0)
    BY <1>2, CreateReadFull, Zenon
  <2> HIDE DEF n
  <2>2. sab[n].st = "IDLE"
    BY <2>1 DEF Valid
  <2>3. KeepsFills(n) /\ KeepsTaken(n)
    BY <2>1, <2>2, KeepsNew
  <2> QED
    BY <1>1, <2>1, <2>3, KeepsOthers, FadesSame, FilterUnchanged, CopyQuiet
<1>3. CASE CreateWrite(c)
  <2> DEFINE n == Lowest(FreeEntries(WSID))
  <2>1. /\ n \in SID /\ n \notin Valid
        /\ IsNew(sab'[n], vb[c].kind, vb[c].line, c, WriteDepd, 0)
        /\ \A s \in SID \ {n} : MarkedBack(sab[s], sab'[s], n)
    BY <1>3, CreateWriteFull, Zenon
  <2> HIDE DEF n
  <2>2. sab[n].st = "IDLE"
    BY <2>1 DEF Valid
  <2>3. KeepsFills(n) /\ KeepsTaken(n)
    BY <2>1, <2>2, KeepsNew
  <2>4. \A s \in SID \ {n} : SameCopy(sab[s], sab'[s])
    BY <2>1 DEF MarkedBack, SameAccess, SameAnswer, SameCopy, SameName
  <2>5. \A s \in SID : KeepsFills(s) /\ KeepsTaken(s)
    BY <2>3, <2>4, KeepsSame
  <2> QED
    BY <1>1, <2>5, FadesSame, FilterUnchanged, CopyQuiet
<1> QED
  BY <1>2, <1>3

LEMMA DataCopy ==
  ASSUME TypeInv, TurnInv, CopyInv, NEW s \in SID, WriteData(s) \/ MemRead(s)
  PROVE  CopyInv'
<1>1. UNCHANGED <<l2, l1>>
  BY DEF WriteData, MemRead
<1>2. CASE WriteData(s)
  <2>1. /\ Only(s)
        /\ SameRequest(sab[s], sab'[s]) /\ SameSnoops(sab[s], sab'[s])
        /\ SameAccess(sab[s], sab'[s])
    BY <1>2, WriteDataFull
  <2>2. sab[s].kind \in {"wb", "wc"}
    BY <1>2 DEF WriteData, wns
  <2>3. KeepsFills(s) /\ KeepsTaken(s)
    BY <2>1, <2>2 DEF SameRequest, SameSnoops, SameAccess, KeepsFills, KeepsTaken,
       Filled, FillReady, NeedsHit, rd_alct, rs, Taker, Seeks
  <2> QED
    BY <1>1, <2>1, <2>3, KeepsOthers, FadesSame, FilterUnchanged, CopyQuiet
<1>3. CASE MemRead(s)
  <2>1. /\ Only(s) /\ SameRequest(sab[s], sab'[s]) /\ SameSnoops(sab[s], sab'[s])
        /\ SameAnswer(sab[s], sab'[s])
        /\ sab'[s].st = sab[s].st
        /\ sab'[s].l2c_req = sab[s].l2c_req /\ sab'[s].l2_hit = sab[s].l2_hit
    BY <1>3, MemReadFull
  <2>2. SameCopy(sab[s], sab'[s])
    BY <2>1 DEF SameRequest, SameSnoops, SameAnswer, SameCopy, SameName
  <2> QED
    BY <1>1, <2>1, <2>2, KeepsSame, KeepsOthers, FadesSame, FilterUnchanged, CopyQuiet
<1> QED
  BY <1>2, <1>3

LEMMA L2AllocateCopy ==
  ASSUME TypeInv, TurnInv, CopyInv, NEW s \in SID, L2Allocate(s)
  PROVE  CopyInv'
<1> DEFINE w == way_fifo
           n == Lowest(FreeEntries(RSID))
<1>1. /\ Fetches(sab[s], sab'[s])
      /\ ~l2[w].vld => Only(s)
      /\ l2[w].vld =>
           /\ n \in RSID /\ n \notin Valid
           /\ IsNew(sab'[n], "snpl2", l2[w].tag, NONE, SnpL2Depd, s)
           /\ \A t \in SID \ {s, n} : sab'[t] = sab[t]
      /\ \A v \in WAY : v # w => l2'[v] = l2[v]
      /\ l2'[w].vld = l2[w].vld /\ l2'[w].tag = l2[w].tag
      /\ l2'[w].cp = l2[w].cp
  BY L2AllocateFull, Zenon
<1> HIDE DEF w, n
<1>2. UNCHANGED l1 /\ sab[s].st = "L2CA"
  BY DEF L2Allocate
<1>3. SameFilter
  BY <1>1 DEF SameFilter
<1>4. KeepsFills(s) /\ KeepsTaken(s)
  <2>1. /\ StateShape(sab[s]) /\ sab[s].cp = {} /\ sab[s].snp = {}
        /\ rd_alct(sab[s]) /\ ~sab[s].l2_hit
    BY <1>2, UsedShape DEF StateShape
  <2> QED
    BY <1>1, <1>2, <2>1 DEF Fetches, SameRequest, SameAnswer, SameName, KeepsFills,
       KeepsTaken, StateShape, Filled, FillReady, NeedsHit, Holds, Taker, Seeks,
       Looked, Acting, ReadKind
<1>5. ASSUME NEW t \in SID
      PROVE  KeepsFills(t) /\ KeepsTaken(t)
  <2>1. CASE t = s
    BY <1>4, <2>1
  <2>2. CASE t # s /\ sab'[t] = sab[t]
    BY <2>2, KeepsSame DEF SameCopy, SameName
  <2>3. CASE l2[w].vld /\ t = n
    <3>1. sab[t].st = "IDLE"
      BY <1>1, <2>3 DEF Valid
    <3> QED
      BY <1>1, <2>3, <3>1, KeepsNew
  <2> QED
    BY <1>1, <2>1, <2>2, <2>3 DEF Only
<1> QED
  BY <1>2, <1>3, <1>5, FadesSame, CopyQuiet

\* A snoop answers for its core: the copy it leaves, if any, is shared.
LEMMA SnpRespCopy ==
  ASSUME TypeInv, CopyInv, NEW s \in SID, NEW c \in CORE, SnpResp(s, c)
  PROVE  CopyInv'
<1> DEFINE e == sab[s]
           l == e.line
           k == acsnoop(e)
<1>1. /\ l \in LINE
      /\ Only(s) /\ Snooped(e, sab'[s], c)
      /\ OtherLines(c, l)
      /\ k = "CI" => l1'[c][l] = Invalid
      /\ k = "CS" => l1'[c][l].st = IF l1[c][l].st = "I" THEN "I" ELSE "S"
      /\ k \notin {"CI", "CS"} => l1'[c][l].st = l1[c][l].st
  BY SnpRespFull, Zenon
<1>2. UNCHANGED l2
  BY DEF SnpResp
<1>3. /\ Taker(e) => k = "CI"
      /\ e.kind = "rs" => k = "CS"
  BY DEF Taker, acsnoop, rs
<1>4. \A d \in CORE, m \in LINE : l1[d][m].st \in {"I", "S", "E", "M"}
  BY DEF TypeInv, Rest, Level1, LineInL1
<1>5. Invalid.st = "I"
  BY DEF Invalid
<1> HIDE DEF k
<1>6. \A d \in CORE, m \in LINE : Fades(d, m)
  <2> HIDE DEF e, l
  <2>1. Fades(c, l)
    BY <1>1, <1>4, <1>5 DEF Fades, Unique
  <2> QED
    BY <1>1, <1>4, <2>1 DEF OtherLines, Fades, Unique
<1>7. KeepsFills(s)
  BY <1>1 DEF Snooped, SameRequest, SameAccess, SameAnswer, KeepsFills, SameName, Filled,
     FillReady, NeedsHit, rd_alct, rs, Looked, Acting
<1>8. KeepsTaken(s)
  <2> DEFINE f == sab'[s]
  <2>1. /\ SameName(e, f) /\ Holds(f) \cup {c} = Holds(e) \cup {c}
        /\ Looked(f) <=> Looked(e)
        /\ f.l1_sh <=> e.l1_sh \/ ((Bypass(c, l) \/ l1[c][l].st # "I") /\ k # "CI")
    BY <1>1 DEF Snooped, SameRequest, SameAccess, SameAnswer, SameName, Holds, Looked,
       Acting, k
  <2>2. /\ Taker(e) => l1'[c][l].st = "I"
        /\ e.kind = "rs" => l1'[c][l].st = "I" \/ (l1'[c][l].st = "S" /\ f.l1_sh)
    BY <1>1, <1>3, <1>5, <2>1
  <2>3. Taker(f) <=> Taker(e)
    BY <2>1 DEF Taker, SameName
  <2>4. Seeks(f) <=> Seeks(e)
    BY <2>1, <2>3 DEF Seeks, SameName
  <2> HIDE DEF e, l, f
  <2>5. \A d \in Holds(e) : d # c => d \in Holds(f)
    BY <2>1
  <2>6. /\ Taker(e) => \A d \in Holds(e) :
             l1'[d][l].st # "I" => Taker(f) /\ SameName(e, f) /\ d \in Holds(f)
        /\ Seeks(f) =>
             /\ Seeks(e) /\ SameName(e, f) /\ (e.l1_sh => f.l1_sh)
             /\ \A d \in Holds(e) :
                  d \in Holds(f) \/ l1'[d][l].st = "I"
                    \/ (e.kind = "rs" /\ f.l1_sh /\ l1'[d][l].st = "S")
    BY <2>1, <2>2, <2>3, <2>4, <2>5 DEF Seeks
  <2> QED
    BY <2>6 DEF KeepsTaken, e, f, l
<1> QED
  BY <1>1, <1>2, <1>6, <1>7, <1>8, KeepsOthers, FilterUnchanged, CopyQuiet

LEMMA SendBCopy ==
  ASSUME TypeInv, CopyInv, NEW s \in SID, SendB(s)
  PROVE  CopyInv'
<1>1. Only(s) /\ Answered(sab[s], sab'[s])
  BY SendBFull
<1>2. sab[s].kind \in WriteKind /\ UNCHANGED <<l2, l1>>
  BY DEF SendB
<1>3. KeepsFills(s) /\ KeepsTaken(s)
  BY <1>1, <1>2 DEF Answered, SameRequest, SameSnoops, SameAccess, KeepsFills,
     KeepsTaken, WriteKind, Filled, FillReady, NeedsHit, rd_alct, rs, Taker, Seeks
<1> QED
  BY <1>1, <1>2, <1>3, KeepsOthers, FadesSame, FilterUnchanged, CopyQuiet

LEMMA PopCopy ==
  ASSUME TypeInv, TurnInv, CopyInv, NEW s \in SID, Pop(s)
  PROVE  CopyInv'
<1>1. /\ sab'[s] = IdleEntry
      /\ \A t \in SID \ {s} :
           Released(sab[t], sab'[t], s, snpl2(sab[s]) /\ sab[s].ini = t)
  BY PopFull
<1>2. sab[s].st = "POP" /\ UNCHANGED <<l2, l1>>
  BY DEF Pop
<1>3. KeepsFills(s) /\ KeepsTaken(s)
  <2>1. sab[s].cp = {} /\ sab[s].snp = {} /\ ~Filled(sab[s])
    BY <1>2, UsedShape DEF StateShape, Filled
  <2>2. ~FillReady(sab'[s]) /\ ~NeedsHit(sab'[s]) /\ ~Seeks(sab'[s])
    BY <1>1 DEF IdleEntry, FillReady, NeedsHit, Seeks, Looked, Acting
  <2> QED
    BY <2>1, <2>2 DEF KeepsFills, KeepsTaken, Holds
<1>4. ASSUME NEW t \in SID \ {s}
      PROVE  KeepsFills(t) /\ KeepsTaken(t)
  <2>1. SameCopy(sab[t], sab'[t])
    BY <1>1 DEF Released, SameSnoops, SameAnswer, SameCopy, SameName
  <2> QED
    BY <2>1, KeepsSame
<1> QED
  BY <1>2, <1>3, <1>4, FadesSame, FilterUnchanged, CopyQuiet

\* Besides an acting read, only the snoop of the L2 that it waits for acts.
Seeker(e) == e.kind \in ReadKind \cup {"snpl2"}
LEMMA NoTwo ==
  ASSUME OrderInv, TurnInv, NEW s \in SID, NEW t \in SID, s # t,
         Seeker(sab[s]), Acting(sab[s]), Seeker(sab[t]), Acting(sab[t])
  PROVE  \/ snpl2(sab[s]) /\ rd_alct(sab[t]) /\ sab[t].st = "MEMR"
         \/ snpl2(sab[t]) /\ rd_alct(sab[s]) /\ sab[s].st = "MEMR"
<1>1. CASE sab[s].kind \in ReadKind /\ sab[t].kind \in ReadKind
  BY <1>1, OneReader
<1>2. CASE snpl2(sab[s]) /\ sab[t].kind \in ReadKind
  BY <1>2, SnpL2Needs
<1>3. CASE sab[s].kind \in ReadKind /\ snpl2(sab[t])
  BY <1>3, SnpL2Needs
<1>4. CASE snpl2(sab[s]) /\ snpl2(sab[t])
  BY <1>4 DEF TurnInv, OneSnpL2
<1> QED
  BY <1>1, <1>2, <1>3, <1>4 DEF Seeker, snpl2

\* While an entry looks up or writes the L2, or answers, no other entry holds a
\* copy, or is about to bring one.
Silent(t) ==
  /\ ~Filled(sab[t]) /\ ~FillReady(sab[t]) /\ ~NeedsHit(sab[t])
  /\ Taker(sab[t]) => Holds(sab[t]) = {}
LEMMA OthersSilent ==
  ASSUME OrderInv, TurnInv, NEW s \in SID, NEW t \in SID, s # t,
         Seeker(sab[s]), Acting(sab[s]), sab[s].st # "MEMR"
  PROVE  Silent(t) /\ (Seeks(sab[t]) => snpl2(sab[s]))
<1>1. TypeInv /\ StateShape(sab[t])
  BY DEF OrderInv, TurnInv, StateShapes
<1>2. CASE ~(Seeker(sab[t]) /\ Acting(sab[t]))
  <2>1. ~Seeks(sab[t]) /\ ~Filled(sab[t]) /\ ~FillReady(sab[t]) /\ ~NeedsHit(sab[t])
    BY <1>1, <1>2 DEF Seeks, Filled, FillReady, NeedsHit, Looked, Acting, Seeker, Taker,
       StateShape, rd_alct, rs, ReadKind
  <2>2. Taker(sab[t]) => Holds(sab[t]) = {}
    BY <1>1, <1>2 DEF StateShape, Taker, Holds, Seeker, Acting, ReadKind
  <2> QED
    BY <2>1, <2>2 DEF Silent
<1>3. CASE Seeker(sab[t]) /\ Acting(sab[t])
  <2>1. snpl2(sab[s]) /\ rd_alct(sab[t]) /\ sab[t].st = "MEMR"
    BY <1>3, NoTwo
  <2> QED
    BY <1>1, <2>1 DEF StateShape, Silent, Filled, FillReady, NeedsHit, Holds, ReadKind
<1> QED
  BY <1>2, <1>3

\* A step of such an entry, seen by the others.
LEMMA SilentKnown ==
  ASSUME NEW s \in SID, \A t \in SID \ {s} : Silent(t),
         NEW c \in CORE, NEW l \in LINE, Known(c, l)
  PROVE  \/ InFilter(c, l)
         \/ /\ sab[s].line = l
            /\ \/ Taker(sab[s]) /\ c \in Holds(sab[s])
               \/ Filled(sab[s]) /\ sab[s].mid = c
BY DEF Known, Silent

\* The R response brings a copy, or makes the one there is unique: no other
\* copy stands against it.
LEMMA SendRCopy ==
  ASSUME OrderInv, TurnInv, CopyInv, NEW s \in SID, SendR(s)
  PROVE  CopyInv'
<1> DEFINE e == sab[s]
           f == sab'[s]
           c == e.mid
           l == e.line
<1>1. TypeInv /\ UNCHANGED l2
  BY DEF OrderInv, SendR
<1>2. /\ c \in CORE /\ l \in LINE
      /\ Only(s) /\ Answered(e, f)
      /\ OtherLines(c, l)
      /\ e.kind = "rs" => l1'[c][l].st = IF e.l1_sh THEN "S" ELSE "E"
      /\ e.kind = "ru" => l1'[c][l].st = "E"
      /\ e.kind = "cu" /\ l1[c][l].st = "S" => l1'[c][l].st = "E"
      /\ e.kind \notin {"rs", "ru"} /\ ~(e.kind = "cu" /\ l1[c][l].st = "S")
           => l1'[c][l].st = l1[c][l].st
  <2>1. /\ c \in CORE /\ l \in LINE
        /\ Only(s) /\ Answered(e, f)
        /\ OtherLines(c, l)
        /\ e.kind = "rs" => l1'[c][l] = [st |-> IF e.l1_sh THEN "S" ELSE "E", new |-> e.new]
        /\ e.kind = "ru" => l1'[c][l] = [st |-> "E", new |-> e.new]
        /\ e.kind = "cu" /\ l1[c][l].st = "S" => l1'[c][l].st = "E"
        /\ e.kind \notin {"rs", "ru"} /\ ~(e.kind = "cu" /\ l1[c][l].st = "S")
             => l1'[c][l].st = l1[c][l].st
    BY <1>1, SendRFull, Zenon
  <2> HIDE DEF e, f, c, l
  <2> QED
    BY <2>1
<1>3. /\ SameName(e, f) /\ f.st = e.st /\ f.l2c_req = e.l2c_req /\ f.l2_hit = e.l2_hit
      /\ f.l1_sh = e.l1_sh /\ Holds(f) = Holds(e) /\ f.resp = "sent"
  BY <1>2 DEF Answered, SameRequest, SameSnoops, SameAccess, SameName, Holds
<1>4. /\ e.kind \in ReadKind /\ e.resp = "rdy" /\ e.st \in {"L2CW", "POP"}
      /\ Holds(e) = {} /\ Looked(e) /\ (e.l2c_req => e.st = "L2CW")
  <2>1. e.kind \in ReadKind /\ e.resp = "rdy" /\ StateShape(e)
    BY DEF SendR, TurnInv, StateShapes
  <2> QED
    BY <2>1 DEF StateShape, Holds, Looked, Acting
<1>5. \A t \in SID \ {s} : Silent(t) /\ ~Seeks(sab[t]) /\ sab'[t] = sab[t]
  <2>1. Seeker(e) /\ Acting(e) /\ e.st # "MEMR" /\ ~snpl2(e)
    BY <1>4 DEF Seeker, Looked, snpl2, ReadKind
  <2> QED
    BY <1>2, <2>1, OthersSilent DEF Only
<1>6. \A d \in CORE, m \in LINE : l1[d][m].st \in {"I", "S", "E", "M"}
  BY <1>1 DEF TypeInv, Rest, Level1, LineInL1
\* What the others may have.
<1>7. \A d \in CORE \ {c} :
        /\ e.kind \in {"ru", "cu"} => l1[d][l].st = "I"
        /\ e.kind = "rs" => l1[d][l].st = "I" \/ (e.l1_sh /\ l1[d][l].st = "S")
  BY <1>4 DEF CopyInv, Found, Seeks, Taker, MayStay
<1> HIDE DEF e, f, c, l
<1>8. OneTag'
  BY <1>1, FilterUnchanged, FilterSame DEF CopyInv
<1>9. SWMR'
  <2> SUFFICES ASSUME NEW x \in CORE, NEW y \in CORE, NEW m \in LINE,
                      x # y, l1'[x][m].st \in {"E", "M"}
               PROVE  l1'[y][m].st = "I"
    BY DEF SWMR
  <2>1. CASE m # l \/ (x # c /\ y # c)
    BY <1>2, <2>1 DEF OtherLines, CopyInv, SWMR
  <2>2. CASE m = l /\ x = c
    <3>1. l1'[y][l].st = l1[y][l].st
      BY <1>2, <2>2 DEF OtherLines
    <3>2. CASE e.kind \in {"rs", "ru", "cu"}
      BY <1>2, <1>7, <2>2, <3>1, <3>2
    <3>3. CASE e.kind \notin {"rs", "ru", "cu"}
      BY <1>2, <2>2, <3>1, <3>3 DEF CopyInv, SWMR
    <3> QED
      BY <3>2, <3>3
  <2>3. CASE m = l /\ y = c
    <3>1. l1'[x][l].st = l1[x][l].st
      BY <1>2, <2>3 DEF OtherLines
    <3>2. e.kind \notin {"rs", "ru", "cu"}
      BY <1>7, <2>3, <3>1
    <3> QED
      BY <1>2, <2>3, <3>1, <3>2 DEF CopyInv, SWMR
  <2> QED
    BY <2>1, <2>2, <2>3
<1>10. Inclusion'
  <2> SUFFICES ASSUME NEW d \in CORE, NEW m \in LINE, l1'[d][m].st # "I"
               PROVE  Known(d, m)'
    BY DEF Inclusion
  <2>1. CASE e.kind \in {"rs", "ru"} /\ d = c /\ m = l
    <3>1. CASE e.l2c_req
      <4>1. Filled(f) /\ f.line = m /\ f.mid = d
        BY <1>3, <1>4, <2>1, <3>1 DEF Filled, SameName, c, l
      <4> QED
        BY <4>1 DEF Known, Filled, f
    <3>2. CASE ~e.l2c_req
      <4>1. FillReady(e)
        BY <1>4, <2>1, <3>2 DEF FillReady
      <4>2. InFilter(d, m)
        BY <2>1, <4>1 DEF CopyInv, FillKnown, e, c, l
      <4> QED
        BY <1>1, <4>2 DEF Known, InFilter, Hit
    <3> QED
      BY <3>1, <3>2
  <2>2. CASE ~(e.kind \in {"rs", "ru"} /\ d = c /\ m = l)
    <3>1. l1[d][m].st # "I"
      BY <1>2, <2>2 DEF OtherLines
    <3>2. Known(d, m)
      BY <3>1 DEF CopyInv, Inclusion
    <3>3. ~Filled(e) /\ Holds(e) = {}
      BY <1>4 DEF Filled
    <3>4. InFilter(d, m)
      BY <1>5, <3>2, <3>3, SilentKnown DEF e
    <3> QED
      BY <1>1, <3>4 DEF Known, InFilter, Hit
  <2> QED
    BY <2>1, <2>2
<1>11. Found'
  <2>1. ASSUME NEW t \in SID, Seeks(sab'[t]),
               NEW d \in CORE, d # sab'[t].mid, l1'[d][sab'[t].line].st # "I"
        PROVE  d \in Holds(sab'[t]) \/ (/\ sab'[t].kind = "rs" /\ sab'[t].l1_sh
                                       /\ l1'[d][sab'[t].line].st = "S")
    <3>1. t = s
      BY <1>5, <2>1
    <3>2. f.mid = c /\ f.line = l /\ f.kind = e.kind
      BY <1>3 DEF SameName, c, l
    <3>3. l1'[d][l].st = l1[d][l].st /\ l1[d][l].st # "I" /\ d # c
      BY <1>2, <2>1, <3>1, <3>2 DEF OtherLines, f
    <3>4. e.kind \notin {"ru", "cu"} /\ Seeks(f)
      BY <1>7, <2>1, <3>1, <3>3 DEF f
    <3>5. e.kind = "rs" \/ Taker(e)
      BY <3>2, <3>4 DEF Seeks, Taker
    <3>6. d \in Holds(e) \/ MayStay(e, d)
      BY <1>4, <3>3, <3>5 DEF CopyInv, Found, Seeks, e, c, l
    <3> QED
      BY <1>3, <3>1, <3>2, <3>3, <3>6 DEF MayStay, f, l
  <2> QED
    BY <2>1 DEF Found, Seeks, Taker, Looked, Acting, Holds, MayStay
<1>12. FillKnown'
  <2>1. \A t \in SID : ~FillReady(sab'[t])
    BY <1>3, <1>5 DEF FillReady, Silent, f
  <2> QED
    BY <2>1 DEF FillKnown, FillReady
<1>13. HitStays'
  <2>1. ASSUME NEW t \in SID, NeedsHit(sab'[t])
        PROVE  t = s /\ NeedsHit(e) /\ SameName(e, f)
    <3>1. t = s
      BY <1>5, <2>1 DEF Silent
    <3> QED
      BY <1>3, <2>1, <3>1 DEF NeedsHit, SameName, rd_alct, rs, Looked, Acting, f
  <2>2. ASSUME NEW t \in SID, NeedsHit(sab'[t])
        PROVE  Hit(sab[t].line)' # {}
    <3>1. Hit(sab[s].line) # {}
      BY <2>1, <2>2 DEF CopyInv, HitStays, e
    <3> QED
      BY <1>1, <2>1, <2>2, <3>1 DEF Hit, SameName, e, f
  <2> QED
    BY <2>2 DEF HitStays, NeedsHit, rd_alct, rs, Looked, Acting
<1> QED
  BY <1>8, <1>9, <1>10, <1>11, <1>12, <1>13 DEF CopyInv

\* A look-up takes CP bits only from cores that it then snoops, or whose line
\* has left them; those it snoops are all there are.
LEMMA L2LookupCopy ==
  ASSUME OrderInv, TurnInv, ClaimInv, CopyInv, NEW s \in SID, L2Lookup(s)
  PROVE  CopyInv'
<1> DEFINE e == sab[s]
           f == sab'[s]
           l == e.line
<1>1. TypeInv /\ UNCHANGED l1
  BY DEF OrderInv, L2Lookup
<1>2. /\ Only(s) /\ LooksUp(e, f) /\ SameTags
      /\ \A w \in WAY : l2'[w].cp = IF ClearsCp(e, w) THEN l2[w].cp \ clr_cp(e)
                                                      ELSE l2[w].cp
  BY <1>1, L2LookupFull
<1>3. e.st \in {"L2C", "L2CR", "L2CT"} /\ e.l2c_req
  BY DEF L2Lookup, Granted
<1>4. StateShape(e) /\ l \in LINE /\ Acting(e)
  BY <1>1, <1>3, ActingLine DEF TurnInv, StateShapes, Acting
<1>5. /\ Holds(e) = {} /\ ~Filled(e) /\ ~FillReady(f)
      /\ (e.st = "L2C" => ~Looked(e)) /\ (e.st # "L2C" => Looked(e))
  <2>1. Holds(e) = {}
    BY <1>3, <1>4 DEF StateShape, Holds
  <2>2. ~Filled(e) /\ ~FillReady(f)
    BY <1>2, <1>3, <1>4 DEF StateShape, Filled, FillReady, LooksUp, SameRequest,
       SameAnswer, ReadKind
  <2> QED
    BY <1>3, <1>4, <2>1, <2>2 DEF Looked
<1>6. /\ SameName(e, f) /\ f.st = e.st /\ ~f.l2c_req
      /\ f.l2_hit <=> Hit(l) # {}
      /\ f.l1_sh = e.l1_sh /\ f.snp = {}
      /\ e.st = "L2C" /\ Hit(l) # {} => f.cp = cp_after_mask(e, l2[HitWay(l)].cp)
  <2>1. e.snp = {}
    BY <1>5 DEF Holds
  <2> QED
    BY <1>2, <2>1 DEF LooksUp, SameRequest, SameName
<1>7. \A t \in SID \ {s} : sab'[t] = sab[t]
  BY <1>2 DEF Only
<1>8. Seeker(e) => \A t \in SID \ {s} : Silent(t)
  BY <1>3, <1>4, OthersSilent
<1>9. \A m : Hit(m)' = Hit(m)
  BY <1>2 DEF SameTags, Hit
<1>10. OneTag' /\ SWMR'
  <2>1. OneTag'
    BY <1>2 DEF CopyInv, OneTag, SameTags
  <2>2. SWMR'
    BY <1>1, FadesSame, SWMRFades DEF CopyInv
  <2> QED
    BY <2>1, <2>2
\* The CP bits that go.
<1>11. ASSUME NEW c \in CORE, NEW m \in LINE, InFilter(c, m)
       PROVE  \/ InFilter(c, m)'
              \/ /\ m = l /\ e.st = "L2C" /\ c \in clr_cp(e)
                 /\ Hit(l) # {} /\ c \in l2[HitWay(l)].cp
  <2>1. PICK w \in Hit(m) : c \in l2[w].cp
    BY <1>11 DEF InFilter
  <2>2. CASE c \in l2'[w].cp
    BY <1>9, <2>1, <2>2 DEF InFilter
  <2>3. CASE c \notin l2'[w].cp
    <3>1. w \in WAY /\ l2[w].tag = m
      BY <2>1 DEF Hit
    <3>2. ClearsCp(e, w) /\ c \in clr_cp(e)
      BY <1>2, <2>1, <2>3, <3>1
    <3>3. w = HitWay(l) /\ Hit(l) # {} /\ e.st = "L2C"
      BY <3>2 DEF ClearsCp
    <3>4. l2[w].tag = l
      BY <3>3, HitWayIn DEF Hit
    <3> QED
      BY <2>1, <3>1, <3>2, <3>3, <3>4
  <2> QED
    BY <2>2, <2>3
<1>12. /\ Goes(e.kind) => clr_cp(e) = {e.mid}
       /\ Taker(e) => clr_cp(e) = CORE \ {e.mid}
       /\ ~Goes(e.kind) /\ ~Taker(e) => clr_cp(e) = {}
       /\ Taker(e) \/ e.kind = "rs" =>
            \A C : cp_after_mask(e, C) = C \ {e.mid}
       /\ Taker(e) \/ e.kind = "rs" => Seeker(e)
  <2>1. Goes(e.kind) => clr_cp(e) = {e.mid}
    BY DEF Goes, clr_cp
  <2>2. Taker(e) => clr_cp(e) = CORE \ {e.mid}
    BY DEF Taker, clr_cp
  <2>3. ~Goes(e.kind) /\ ~Taker(e) => clr_cp(e) = {}
    BY DEF Goes, Taker, clr_cp
  <2>4. Taker(e) \/ e.kind = "rs" => \A C : cp_after_mask(e, C) = C \ {e.mid}
    BY DEF Taker, cp_after_mask, wns, evict, inst
  <2>5. Taker(e) \/ e.kind = "rs" => Seeker(e)
    BY DEF Taker, Seeker, ReadKind
  <2> QED
    BY <2>1, <2>2, <2>3, <2>4, <2>5
<1>13. e.st = "L2C" /\ Goes(e.kind) => ToLeave(e)
  BY <1>5 DEF ToLeave
<1> HIDE DEF f
<1>14. Inclusion'
  <2> SUFFICES ASSUME NEW c \in CORE, NEW m \in LINE, l1'[c][m].st # "I"
               PROVE  Known(c, m)'
    BY DEF Inclusion
  <2>1. l1[c][m].st # "I" /\ Known(c, m)
    BY <1>1 DEF CopyInv, Inclusion
  <2>2. CASE InFilter(c, m)
    <3>1. CASE InFilter(c, m)'
      BY <3>1 DEF Known
    <3>2. CASE /\ m = l /\ e.st = "L2C" /\ c \in clr_cp(e)
               /\ Hit(l) # {} /\ c \in l2[HitWay(l)].cp
      <4>1. ~Goes(e.kind)
        <5> SUFFICES ASSUME Goes(e.kind) PROVE FALSE
          OBVIOUS
        <5>1. c = e.mid /\ ToLeave(e)
          BY <1>12, <1>13, <3>2
        <5> QED
          BY <2>1, <3>2, <5>1 DEF ClaimInv, Left
      <4>2. Taker(e) /\ c # e.mid
        BY <1>12, <3>2, <4>1
      <4>3. c \in f.cp
        BY <1>6, <1>12, <3>2, <4>2
      <4>4. f.line = m /\ Taker(f) /\ c \in Holds(f)
        BY <1>6, <3>2, <4>2, <4>3 DEF SameName, Taker, Holds
      <4> QED
        BY <4>4 DEF Known, Taker, Holds, f
    <3> QED
      BY <1>11, <2>2, <3>1, <3>2
  <2>3. CASE ~InFilter(c, m)
    <3>1. PICK t \in SID : /\ sab[t].line = m
                           /\ \/ Taker(sab[t]) /\ c \in Holds(sab[t])
                              \/ Filled(sab[t]) /\ sab[t].mid = c
      BY <2>1, <2>3 DEF Known
    <3>2. t # s
      BY <1>5, <3>1
    <3>3. sab'[t] = sab[t]
      BY <1>7, <3>2
    <3> QED
      BY <3>1, <3>3 DEF Known, Taker, Holds, Filled
  <2> QED
    BY <2>2, <2>3
<1>15. Found'
  <2>1. ASSUME NEW t \in SID, Seeks(sab'[t]),
               NEW c \in CORE, c # sab'[t].mid, l1'[c][sab'[t].line].st # "I"
        PROVE  c \in Holds(sab'[t]) \/ (/\ sab'[t].kind = "rs" /\ sab'[t].l1_sh
                                       /\ l1'[c][sab'[t].line].st = "S")
    <3>1. CASE t # s
      BY <1>1, <1>7, <2>1, <3>1 DEF CopyInv, Found, MayStay
    <3>2. CASE t = s
      <4>1. /\ Taker(e) \/ e.kind = "rs"
            /\ c # e.mid /\ l1[c][l].st # "I" /\ f.line = l /\ f.kind = e.kind
        BY <1>1, <1>6, <2>1, <3>2 DEF Seeks, Taker, SameName, f
      <4>2. CASE e.st # "L2C"
        <5>1. MayStay(e, c)
          BY <1>5, <4>1, <4>2 DEF CopyInv, Found, Seeks
        <5> QED
          BY <1>1, <1>6, <3>2, <4>1, <5>1 DEF MayStay, f
      <4>3. CASE e.st = "L2C"
        <5>1. Known(c, l)
          BY <1>4, <4>1 DEF CopyInv, Inclusion
        <5>2. InFilter(c, l)
          BY <1>4, <1>5, <1>8, <1>12, <4>1, <5>1, SilentKnown
        <5>3. PICK w \in Hit(l) : c \in l2[w].cp
          BY <5>2 DEF InFilter
        <5>4. HitWay(l) \in Hit(l)
          BY <5>3, HitWayIn
        <5>5. HitWay(l) = w
          BY <5>3, <5>4 DEF CopyInv, OneTag, Hit
        <5>6. c \in f.cp
          BY <1>6, <1>12, <4>1, <4>3, <5>3, <5>5
        <5> QED
          BY <3>2, <5>6 DEF Holds, f
      <4> QED
        BY <4>2, <4>3
    <3> QED
      BY <3>1, <3>2
  <2> QED
    BY <2>1 DEF Found, Seeks, Taker, Looked, Acting, Holds, MayStay
<1>16. FillKnown'
  <2>1. ASSUME NEW t \in SID, FillReady(sab'[t])
        PROVE  InFilter(sab[t].mid, sab[t].line)' /\ sab'[t] = sab[t]
    <3>1. t # s /\ sab'[t] = sab[t] /\ FillReady(sab[t])
      BY <1>5, <1>7, <2>1 DEF f
    <3>2. InFilter(sab[t].mid, sab[t].line)
      BY <3>1 DEF CopyInv, FillKnown
    <3>3. /\ Open(sab[t]) /\ Acting(sab[t]) /\ sab[t].kind \in {"rs", "ru"}
      BY <3>1 DEF FillReady, Open, ReadKind, TurnInv, StateShapes, StateShape, Acting
    <3>4. sab[t].mid \in CORE /\ sab[t].line \in LINE
      BY <1>1, <3>3, Mids
    <3>5. CASE InFilter(sab[t].mid, sab[t].line)'
      BY <3>1, <3>5
    <3>6. CASE sab[t].line = l /\ e.st = "L2C" /\ sab[t].mid \in clr_cp(e)
      <4>1. ~Taker(e)
        BY <1>8, <1>12, <3>1 DEF Silent
      <4>2. Goes(e.kind) /\ sab[t].mid = e.mid
        BY <1>12, <3>6, <4>1
      <4>3. s \in sab[t].older
        BY <1>13, <3>3, <3>6, <4>2 DEF ClaimInv, WriteFirst
      <4>4. sab[t].older = {}
        BY <3>3 DEF TurnInv, ReadsInTurn, ReadKind
      <4> QED
        BY <4>3, <4>4
    <3>7. \/ InFilter(sab[t].mid, sab[t].line)'
          \/ sab[t].line = l /\ e.st = "L2C" /\ sab[t].mid \in clr_cp(e)
      <4>1. PICK c \in CORE, m \in LINE : c = sab[t].mid /\ m = sab[t].line
        BY <3>4
      <4>2. InFilter(c, m)'
            \/ (m = l /\ e.st = "L2C" /\ c \in clr_cp(e))
        BY <1>11, <3>2, <4>1
      <4> QED
        BY <3>1, <4>1, <4>2 DEF InFilter, Hit
    <3> QED
      BY <3>1, <3>5, <3>6, <3>7
  <2> QED
    BY <2>1 DEF FillKnown, FillReady
<1>17. HitStays'
  <2>1. ASSUME NEW t \in SID, NeedsHit(sab'[t])
        PROVE  Hit(sab[t].line)' # {}
    <3>1. CASE t = s
      <4>1. f.l2_hit /\ f.line = l
        BY <1>6, <2>1, <3>1 DEF NeedsHit, SameName, f
      <4>2. Hit(l) # {}
        BY <1>6, <4>1
      <4> QED
        BY <1>2, <3>1, <4>1, <4>2 DEF Hit, SameTags, f
    <3>2. CASE t # s
      BY <1>2, <1>7, <2>1, <3>2 DEF CopyInv, HitStays, Hit, SameTags
    <3> QED
      BY <3>1, <3>2
  <2> QED
    BY <2>1 DEF HitStays, NeedsHit, rd_alct, rs, Looked, Acting
<1> QED
  BY <1>10, <1>14, <1>15, <1>16, <1>17 DEF CopyInv

\* What a write of the L2 leaves of the ways: those of other lines stay, the
\* line is gone if it was to be invalidated, and else it has its new CP bits.
Gone(e) == Hit(e.line) # {} /\ inv(e)
LEMMA WrittenWays ==
  ASSUME TypeInv, OneTag, NEW s \in SID, L2Write(s), NEW l, l = sab[s].line
  PROVE  /\ OneTag'
         /\ \A m : m # l => Hit(m)' = Hit(m)
         /\ \A m : m # l => \A v \in Hit(m) : l2'[v] = l2[v]
         /\ Gone(sab[s]) => Hit(l)' = {}
         /\ ~Gone(sab[s]) => \A v \in Hit(l) : v \in Hit(l)' /\ l2[v].cp \subseteq l2'[v].cp
         /\ ~Gone(sab[s]) /\ (Hit(l) # {} \/ Writes(sab[s])) =>
              \E v \in Hit(l)' : set_cp(sab[s]) \subseteq l2'[v].cp
<1> DEFINE e == sab[s]
           hit == Hit(e.line) # {}
           w == WayOf(e)
<1>1. /\ hit \/ Writes(e) => w \in WAY
      /\ \A v \in WAY : v # w \/ (~hit /\ ~Writes(e)) => l2'[v] = l2[v]
      /\ ~hit /\ Writes(e) => w \in RefillWays /\ l2'[w] = Refilled(e)
      /\ hit /\ inv(e) => l2'[w] = Emptied(l2[w])
      /\ hit /\ ~inv(e) => l2'[w] = Updated(e, l2[w])
  BY L2WriteFull, Zenon
<1>2. /\ e \in EntryType /\ \A v \in WAY : l2[v] \in WayType
      /\ hit <=> Hit(l) # {}
  BY InUse DEF TypeInv, Rest, Ways
<1>3. hit => w \in Hit(l)
  BY HitWayIn DEF WayOf
<1>4. e.line = l
  OBVIOUS
<1>5. Refilled(e).vld /\ Refilled(e).tag = l /\ Refilled(e).cp = set_cp(e)
  BY <1>4 DEF Refilled
<1> HIDE DEF e, w, hit
<1>6. CASE ~hit /\ ~Writes(e)
  <2>1. \A v \in WAY : l2'[v] = l2[v]
    BY <1>1, <1>6
  <2> QED
    BY <1>2, <1>6, <2>1 DEF OneTag, Hit, Gone, e
<1>7. CASE ~hit /\ Writes(e)
  <2>1. /\ w \in WAY /\ ~l2[w].vld
        /\ \A v \in WAY : v # w => l2'[v] = l2[v]
        /\ l2'[w].vld /\ l2'[w].tag = l /\ l2'[w].cp = set_cp(e)
    BY <1>1, <1>5, <1>7 DEF RefillWays
  <2>2. \A v \in WAY : ~(l2[v].vld /\ l2[v].tag = l)
    BY <1>2, <1>7 DEF Hit
  <2>3. OneTag'
    BY <2>1, <2>2 DEF OneTag
  <2>4. \A m : m # l => Hit(m)' = Hit(m)
    BY <2>1 DEF Hit
  <2>5. \A m : m # l => \A v \in Hit(m) : l2'[v] = l2[v]
    BY <2>1 DEF Hit
  <2>6. w \in Hit(l)' /\ set_cp(e) \subseteq l2'[w].cp
    BY <2>1 DEF Hit
  <2> QED
    BY <1>2, <1>7, <2>3, <2>4, <2>5, <2>6 DEF Gone, e
<1>8. CASE hit /\ inv(e)
  <2>1. /\ w \in WAY /\ l2[w].vld /\ l2[w].tag = l
        /\ \A v \in WAY : v # w => l2'[v] = l2[v]
        /\ ~l2'[w].vld
    BY <1>1, <1>2, <1>3, <1>8, EmptiedFields DEF Hit
  <2>2. OneTag'
    BY <2>1 DEF OneTag
  <2>3. \A m : m # l => Hit(m)' = Hit(m)
    BY <2>1 DEF Hit
  <2>4. \A m : m # l => \A v \in Hit(m) : l2'[v] = l2[v]
    BY <2>1 DEF Hit
  <2>5. Hit(l)' = {}
    BY <2>1 DEF OneTag, Hit
  <2> QED
    BY <1>2, <1>4, <1>8, <2>2, <2>3, <2>4, <2>5 DEF Gone, e
<1>9. CASE hit /\ ~inv(e)
  <2>1. /\ w \in WAY /\ l2[w].vld /\ l2[w].tag = l
        /\ \A v \in WAY : v # w => l2'[v] = l2[v]
        /\ l2'[w].vld = l2[w].vld /\ l2'[w].tag = l2[w].tag
        /\ l2'[w].cp = l2[w].cp \cup set_cp(e)
    BY <1>1, <1>2, <1>3, <1>9, UpdatedFields DEF Hit
  <2>2. OneTag'
    BY <2>1 DEF OneTag
  <2>3. \A m : Hit(m)' = Hit(m)
    BY <2>1 DEF Hit
  <2>4. \A m : m # l => \A v \in Hit(m) : l2'[v] = l2[v]
    BY <2>1 DEF Hit
  <2>5. \A v \in Hit(l) : v \in Hit(l)' /\ l2[v].cp \subseteq l2'[v].cp
    BY <2>1 DEF Hit
  <2>6. w \in Hit(l)' /\ set_cp(e) \subseteq l2'[w].cp
    BY <2>1 DEF Hit
  <2>7. ~Gone(e)
    BY <1>9 DEF Gone
  <2> QED
    BY <2>2, <2>3, <2>4, <2>5, <2>6, <2>7 DEF e
<1> QED
  BY <1>6, <1>7, <1>8, <1>9

\* When a line is invalidated in the L2 no core has it any more.
LEMMA GoneEverywhere ==
  ASSUME OrderInv, TurnInv, ClaimInv, Found, NEW s \in SID,
         inv(sab[s]), sab[s].st = "L2CW", NEW c \in CORE
  PROVE  l1[c][sab[s].line].st = "I"
<1> DEFINE e == sab[s]
<1>1. StateShape(e) /\ e.kind \in {"ci", "snpl2"}
  BY DEF TurnInv, StateShapes, inv
<1>2. Holds(e) = {} /\ Seeks(e)
  BY <1>1 DEF StateShape, Holds, Seeks, Taker, Looked, Acting
<1>3. CASE c # e.mid
  BY <1>1, <1>2, <1>3 DEF Found, MayStay
<1>4. CASE c = e.mid
  <2>1. e.kind = "ci"
    BY <1>1, <1>4, Sizes, SizeAssumption DEF StateShape, snpl2
  <2>2. Open(e)
    BY <1>1, <2>1 DEF StateShape, Open, ReadKind, cml2
  <2>3. req[c].kind = "ci" /\ req[c].line = e.line
    BY <1>4, <2>1, <2>2 DEF ClaimInv, Answering
  <2> QED
    BY <2>3 DEF ClaimInv, Asking, FillKind
<1> QED
  BY <1>3, <1>4

\* A write of the L2 sets the CP bit of the read, and a line that it takes from
\* the L2 is nowhere else.
LEMMA L2WriteCopy ==
  ASSUME OrderInv, TurnInv, ClaimInv, CopyInv, NEW s \in SID, L2Write(s)
  PROVE  CopyInv'
<1> DEFINE e == sab[s]
           f == sab'[s]
<1>0. PICK l : l = e.line
  OBVIOUS
<1>1. TypeInv /\ UNCHANGED l1 /\ e.st = "L2CW" /\ e.l2c_req
  BY DEF OrderInv, L2Write, Granted
<1>2. Only(s) /\ Written(e, f)
  BY <1>1, L2WriteFull, Zenon
<1>3. /\ OneTag'
      /\ \A m : m # l => Hit(m)' = Hit(m)
      /\ \A m : m # l => \A v \in Hit(m) : l2'[v] = l2[v]
      /\ ~Gone(e) => \A v \in Hit(l) : v \in Hit(l)' /\ l2[v].cp \subseteq l2'[v].cp
      /\ ~Gone(e) /\ (Hit(l) # {} \/ Writes(e)) =>
           \E v \in Hit(l)' : set_cp(e) \subseteq l2'[v].cp
  BY <1>0, <1>1, WrittenWays DEF CopyInv
<1>4. StateShape(e) /\ l \in LINE
  BY <1>0, <1>1, ActingLine DEF TurnInv, StateShapes, Acting
<1>5. /\ Holds(e) = {} /\ Holds(f) = {} /\ Looked(e) /\ Acting(e)
      /\ SameName(e, f) /\ f.st = e.st /\ ~f.l2c_req /\ f.l1_sh = e.l1_sh
      /\ f.resp = e.resp
  <2>1. Holds(e) = {} /\ Looked(e) /\ Acting(e)
    BY <1>1, <1>4 DEF StateShape, Holds, Looked, Acting
  <2> QED
    BY <1>2, <2>1 DEF Written, SameRequest, SameSnoops, SameAnswer, SameName, Holds
<1>6. \A t \in SID \ {s} : sab'[t] = sab[t]
  BY <1>2 DEF Only
<1>7. Gone(e) => /\ \A t \in SID \ {s} : Silent(t)
                 /\ \A c \in CORE : l1[c][l].st = "I"
  <2> SUFFICES ASSUME Gone(e)
               PROVE  /\ \A t \in SID \ {s} : Silent(t)
                      /\ \A c \in CORE : l1[c][l].st = "I"
    OBVIOUS
  <2>1. inv(e) /\ Seeker(e)
    BY DEF Gone, inv, Seeker, ReadKind
  <2>2. \A t \in SID \ {s} : Silent(t)
    BY <1>1, <1>5, <2>1, OthersSilent
  <2>3. \A c \in CORE : l1[c][l].st = "I"
    BY <1>0, <1>1, <2>1, GoneEverywhere DEF CopyInv
  <2> QED
    BY <2>2, <2>3
\* The CP bit of a read.
<1>8. e.kind \in {"rs", "ru"} => InFilter(e.mid, l)'
  <2> SUFFICES ASSUME e.kind \in {"rs", "ru"}
               PROVE  InFilter(e.mid, l)'
    OBVIOUS
  <2>1. rd_alct(e) /\ ~Gone(e) /\ set_cp(e) = {e.mid}
    BY DEF rd_alct, rs, Gone, inv, set_cp
  <2>2. ~Writes(e) => e.l2_hit
    BY <2>1 DEF Writes, wtud, wtuc
  <2>3. Hit(l) # {} \/ Writes(e)
    BY <1>0, <1>1, <1>5, <2>1, <2>2 DEF CopyInv, HitStays, NeedsHit
  <2>4. PICK v \in Hit(l)' : set_cp(e) \subseteq l2'[v].cp
    BY <1>3, <2>1, <2>3
  <2>5. sab'[s].mid = e.mid
    BY <1>5 DEF SameName
  <2>6. e.mid \in l2'[v].cp
    BY <2>1, <2>4
  <2> QED
    BY <2>4, <2>5, <2>6 DEF InFilter
<1> HIDE DEF e, f
<1>9. ASSUME NEW c, NEW m, InFilter(c, m), ~(Gone(e) /\ m = l)
      PROVE  InFilter(c, m)'
  <2>1. PICK v \in Hit(m) : c \in l2[v].cp
    BY <1>9 DEF InFilter
  <2>2. v \in Hit(m)' /\ c \in l2'[v].cp
    BY <1>3, <1>9, <2>1
  <2> QED
    BY <2>2 DEF InFilter
<1>10. SWMR'
  BY <1>1, FadesSame, SWMRFades DEF CopyInv
<1>11. Inclusion'
  <2> SUFFICES ASSUME NEW c \in CORE, NEW m \in LINE, l1'[c][m].st # "I"
               PROVE  Known(c, m)'
    BY DEF Inclusion
  <2>1. l1[c][m].st # "I" /\ Known(c, m)
    BY <1>1 DEF CopyInv, Inclusion
  <2>2. ~(Gone(e) /\ m = l)
    BY <1>7, <2>1
  <2>3. CASE InFilter(c, m)
    BY <1>9, <2>2, <2>3 DEF Known
  <2>4. CASE ~InFilter(c, m)
    <3>1. PICK t \in SID : /\ sab[t].line = m
                           /\ \/ Taker(sab[t]) /\ c \in Holds(sab[t])
                              \/ Filled(sab[t]) /\ sab[t].mid = c
      BY <2>1, <2>4 DEF Known
    <3>2. CASE t # s
      BY <1>6, <3>1, <3>2 DEF Known, Taker, Holds, Filled
    <3>3. CASE t = s
      <4>1. e.kind \in {"rs", "ru"} /\ e.mid = c /\ m = l
        BY <1>0, <1>5, <3>1, <3>3 DEF Filled, e
      <4>2. sab'[s].mid = e.mid
        BY <1>5 DEF SameName, f
      <4>3. InFilter(c, m)'
        BY <1>8, <4>1, <4>2 DEF InFilter, e
      <4> QED
        BY <4>3 DEF Known
    <3> QED
      BY <3>2, <3>3
  <2> QED
    BY <2>3, <2>4
<1>12. Found'
  <2>1. ASSUME NEW t \in SID, Seeks(sab'[t]),
               NEW c \in CORE, c # sab'[t].mid, l1'[c][sab'[t].line].st # "I"
        PROVE  c \in Holds(sab'[t]) \/ (/\ sab'[t].kind = "rs" /\ sab'[t].l1_sh
                                       /\ l1'[c][sab'[t].line].st = "S")
    <3>1. CASE t # s
      BY <1>1, <1>6, <2>1, <3>1 DEF CopyInv, Found, MayStay
    <3>2. CASE t = s
      <4>1. /\ Taker(e) \/ e.kind = "rs"
            /\ c # e.mid /\ l1[c][e.line].st # "I" /\ f.line = e.line /\ f.kind = e.kind
        BY <1>1, <1>5, <2>1, <3>2 DEF Seeks, Taker, SameName, f
      <4>2. MayStay(e, c)
        BY <1>5, <4>1 DEF CopyInv, Found, Seeks, e
      <4> QED
        BY <1>1, <1>5, <3>2, <4>1, <4>2 DEF MayStay, f
    <3> QED
      BY <3>1, <3>2
  <2> QED
    BY <2>1 DEF Found, Seeks, Taker, Looked, Acting, Holds, MayStay
<1>13. FillKnown'
  <2>1. ASSUME NEW t \in SID, FillReady(sab'[t])
        PROVE  InFilter(sab[t].mid, sab[t].line)' 
    <3>1. CASE t = s
      <4>1. e.kind \in {"rs", "ru"} /\ sab'[t].mid = e.mid /\ sab'[t].line = l
        BY <1>0, <1>5, <2>1, <3>1 DEF FillReady, SameName, f
      <4>2. InFilter(e.mid, l)'
        BY <1>8, <4>1
      <4> QED
        BY <3>1, <4>1, <4>2, <1>5 DEF InFilter, Hit, e, SameName, f
    <3>2. CASE t # s
      <4>1. sab'[t] = sab[t] /\ FillReady(sab[t])
        BY <1>6, <2>1, <3>2
      <4>2. InFilter(sab[t].mid, sab[t].line)
        BY <4>1 DEF CopyInv, FillKnown
      <4>3. ~Gone(e)
        BY <1>7, <3>2, <4>1 DEF Silent
      <4>4. PICK c, m : c = sab[t].mid /\ m = sab[t].line
        OBVIOUS
      <4>5. InFilter(c, m)'
        BY <1>9, <4>2, <4>3, <4>4
      <4> QED
        BY <4>1, <4>4, <4>5 DEF InFilter, Hit
    <3> QED
      BY <3>1, <3>2
  <2> QED
    BY <2>1 DEF FillKnown, FillReady
<1>14. HitStays'
  <2>1. ASSUME NEW t \in SID, NeedsHit(sab'[t])
        PROVE  Hit(sab[t].line)' # {}
    <3>1. t # s
      BY <1>1, <1>5, <2>1 DEF NeedsHit, f
    <3>2. sab'[t] = sab[t] /\ NeedsHit(sab[t])
      BY <1>6, <2>1, <3>1
    <3>3. ~Gone(e)
      BY <1>7, <3>1, <3>2 DEF Silent
    <3>4. PICK m : m = sab[t].line
      OBVIOUS
    <3>5. Hit(m) # {}
      BY <3>2, <3>4 DEF CopyInv, HitStays
    <3>6. Hit(m)' # {}
      BY <1>3, <3>3, <3>5
    <3> QED
      BY <3>2, <3>4, <3>6 DEF Hit
  <2> QED
    BY <2>1 DEF HitStays, NeedsHit, rd_alct, rs, Looked, Acting
<1> QED
  BY <1>3, <1>10, <1>11, <1>12, <1>13, <1>14 DEF CopyInv

LEMMA InitCopy == Init => CopyInv
<1> SUFFICES ASSUME Init
             PROVE  CopyInv
  OBVIOUS
<1>1. /\ \A s \in SID : sab[s].st = "IDLE" /\ sab[s].kind = "none"
      /\ \A w \in WAY : ~l2[w].vld
      /\ \A c \in CORE, l \in LINE : l1[c][l].st = "I"
  BY DEF Init, IdleEntry, InvalidWay
<1>2. \A s \in SID : ~Seeks(sab[s]) /\ ~FillReady(sab[s]) /\ ~NeedsHit(sab[s])
  BY <1>1 DEF Seeks, Looked, Acting, FillReady, NeedsHit
<1> QED
  BY <1>1, <1>2 DEF CopyInv, OneTag, Inclusion, Found, FillKnown, HitStays, SWMR

LEMMA StepCopy == OrderInv /\ TurnInv /\ ClaimInv /\ CopyInv /\ [Next]_vars => CopyInv'
<1> SUFFICES ASSUME OrderInv, TurnInv, ClaimInv, CopyInv, [Next]_vars
             PROVE  CopyInv'
  OBVIOUS
<1>1. TypeInv
  BY DEF OrderInv
<1>2. CASE \E c \in CORE : CoreStep(c) \/ CreateStep(c)
  BY <1>1, <1>2, CoreCopy, CreateCopy DEF CreateStep
<1>3. CASE \E s \in SID : EntryStep(s)
  <2>1. PICK s \in SID : EntryStep(s)
    BY <1>3
  <2>2. CASE WriteData(s) \/ MemRead(s) \/ SendB(s) \/ SendR(s) \/ Pop(s)
    BY <1>1, <2>2, DataCopy, SendBCopy, SendRCopy, PopCopy
  <2>3. CASE L2Lookup(s) \/ L2Allocate(s) \/ L2Write(s)
    BY <1>1, <2>3, L2LookupCopy, L2AllocateCopy, L2WriteCopy
  <2>4. CASE LeaveDepd(s) \/ LeaveL2(s) \/ LeaveSnop(s) \/ LeaveMemr(s) \/ MemWrite(s)
    BY <1>1, <2>4, MovesCopy
  <2>5. CASE \E c \in CORE : SnpResp(s, c)
    BY <1>1, <2>5, SnpRespCopy
  <2> QED
    BY <2>1, <2>2, <2>3, <2>4, <2>5 DEF EntryStep
<1>4. CASE UNCHANGED vars
  <2>1. UNCHANGED sab /\ UNCHANGED l2 /\ UNCHANGED l1
    BY <1>4 DEF vars
  <2>2. \A t \in SID : SameCopy(sab[t], sab'[t])
    BY <2>1 DEF SameCopy, SameName
  <2> QED
    BY <1>1, <2>1, <2>2, KeepsSame, FadesSame, FilterUnchanged, CopyQuiet
<1> QED
  BY <1>2, <1>3, <1>4 DEF Next

\* What the entries, the CP bits and the copies of the L1 caches have to do with
\* each other in every state of the bank (ct_ciu_snb_sab_entry, the CP bits that
\* L2C clears and L2CW sets): an entry that has looked its line up knows every
\* copy there is besides that of its own core.
THEOREM CopyInvariant == Spec => [](OrderInv /\ TurnInv /\ ClaimInv /\ CopyInv)
<1>1. Init => OrderInv /\ TurnInv /\ ClaimInv /\ CopyInv
  BY InitOrder, InitTurn, InitClaim, InitCopy
<1>2. (OrderInv /\ TurnInv /\ ClaimInv /\ CopyInv) /\ [Next]_vars
        => (OrderInv /\ TurnInv /\ ClaimInv /\ CopyInv)'
  BY StepOrder, StepTurn, StepClaim, StepCopy
<1> QED
  BY <1>1, <1>2, PTL DEF Spec

\* Single writer or multiple readers, for any number of cores, lines, entries
\* and ways: a core that may store without asking (its line is E or M) is the
\* only one that has the line. Snoops, replacements of the L1 and of the L2 and
\* answers may cross in any order that the SAB allows.
THEOREM SingleWriter == Spec => []SWMR
<1>1. OrderInv /\ TurnInv /\ ClaimInv /\ CopyInv => SWMR
  BY DEF CopyInv
<1> QED
  BY <1>1, CopyInvariant, PTL

\* The snoop filter is inclusive: no core has a line that neither its CP bit
\* nor a request under way knows of, so that no snoop is missed, although CP
\* bits are cleared before the snoops are sent and set after the fill.
THEOREM FilterKnowsCopies == Spec => []SnoopFilter
<1>1. OrderInv /\ TurnInv /\ ClaimInv /\ CopyInv => SnoopFilter
  <2> SUFFICES ASSUME CopyInv, NEW c \in CORE, NEW l \in LINE, l1[c][l].st # "I"
               PROVE  \/ \E w \in Hit(l) : c \in l2[w].cp
                      \/ \E s \in SID :
                           /\ sab[s].line = l
                           /\ \/ c \in sab[s].cp \cup sab[s].snp
                              \/ /\ sab[s].mid = c /\ sab[s].resp = "sent"
                                 /\ sab[s].st = "L2CW"
    BY DEF SnoopFilter
  <2>1. Known(c, l)
    BY DEF CopyInv, Inclusion
  <2> QED
    BY <2>1 DEF Known, InFilter, Holds, Filled
<1> QED
  BY <1>1, CopyInvariant, PTL

-----------------------------------------------------------------------------
(***************************************************************************)
(* When the writes act.  An entry that has still to meet the writes of its *)
(* index waits for all of them, those that came later included, and the    *)
(* writes act one after the other.                                         *)
(***************************************************************************)
AWrite(e) == e.kind \in WriteKind
ToMeet(e) == Seeker(e) /\ (e.st \in {"DEPD", "L2C"} \/ (e.st = "SNOP" /\ e.snp # {}))

\* A write that comes while an entry asks for its look-up is looked up later.
Asks(e) == e.st = "L2C" /\ e.l2c_req
WritesMet == \A s, t \in SID : ToMeet(sab[s]) /\ AWrite(sab[t]) =>
  /\ t \in sab[s].depd
  /\ sab[s].st = "L2C" => s \in sab[t].older
  /\ Asks(sab[s]) => ~Looked(sab[t])

WritesInTurn == \A s, t \in SID : AWrite(sab[s]) /\ AWrite(sab[t]) =>
  /\ s \in sab[t].older => s \in sab[t].depd
  /\ Acting(sab[t]) => sab[t].depd = {}

WriteInv == WritesMet /\ WritesInTurn

\* What the layer reads of an entry, for an entry that goes on.
GoesOn(t) == LET e == sab[t] f == sab'[t] IN
  /\ SameRequest(e, f)
  /\ ToMeet(f) => ToMeet(e)
  /\ f.st = "L2C" => e.st = "L2C" \/ e.depd = {}
  /\ Asks(f) => Asks(e) \/ e.depd = {}
  /\ Acting(f) => Acting(e) \/ e.depd = {}
  /\ AWrite(f) /\ Looked(f) => Looked(e) \/ \A r \in e.older : ~sab[r].l2c_req

LEMMA WriteGoesOn ==
  ASSUME WriteInv, \A t \in SID : GoesOn(t)
  PROVE  WriteInv'
<1>1. \A t \in SID : AWrite(sab'[t]) <=> AWrite(sab[t])
  BY DEF GoesOn, SameRequest, AWrite
<1>2. ASSUME NEW s \in SID, NEW t \in SID, ToMeet(sab'[s]), AWrite(sab'[t])
      PROVE  /\ t \in sab'[s].depd
             /\ sab'[s].st = "L2C" => s \in sab'[t].older
             /\ Asks(sab'[s]) => ~Looked(sab'[t])
  <2>1. /\ ToMeet(sab[s]) /\ AWrite(sab[t])
        /\ sab'[s].depd = sab[s].depd /\ sab'[t].older = sab[t].older
    BY <1>1, <1>2 DEF GoesOn, SameRequest
  <2>2. /\ t \in sab[s].depd /\ (sab[s].st = "L2C" => s \in sab[t].older)
        /\ Asks(sab[s]) => ~Looked(sab[t])
    BY <2>1 DEF WriteInv, WritesMet
  <2>3. Asks(sab'[s]) => Asks(sab[s])
    BY <2>2 DEF GoesOn
  <2>4. sab'[s].st = "L2C" => sab[s].st = "L2C"
    BY <2>2 DEF GoesOn
  <2>5. Asks(sab[s]) => ~Looked(sab'[t])
    BY <1>1, <1>2, <2>2 DEF GoesOn, Asks
  <2> QED
    BY <2>1, <2>2, <2>3, <2>4, <2>5
<1>3. WritesMet'
  BY <1>2 DEF WritesMet, ToMeet, Seeker, AWrite, Asks, Looked, Acting
<1>4. WritesInTurn'
  BY <1>1 DEF WriteInv, WritesInTurn, GoesOn, SameRequest, AWrite, Acting
<1> QED
  BY <1>3, <1>4 DEF WriteInv

LEMMA GoesOnOthers ==
  ASSUME NEW s \in SID, Only(s), GoesOn(s)
  PROVE  \A t \in SID : GoesOn(t)
BY DEF Only, GoesOn, SameRequest

\* Moves of an entry.
LEMMA WriteMove ==
  ASSUME TypeInv, TurnInv, NEW s \in SID, NEW to \in MainState,
         sab' = [sab EXCEPT ![s] = Goto(sab[s], to)],
         to \notin {"IDLE", "DEPD"},
         to = "SNOP" => sab[s].st = "L2C",
         to = "L2C" <=> sab[s].st = "DEPD",
         to = "L2C" => sab[s].depd = {},
         sab[s].st # "IDLE",
         sab[s].st = "L2C" => ~sab[s].l2c_req
  PROVE  \A t \in SID : GoesOn(t)
<1> DEFINE e == sab[s]
           f == sab'[s]
<1>1. Only(s) /\ GoesTo(e, f, to)
  BY Moved
<1>2. SameRequest(e, f) /\ f.st = to
  BY <1>1 DEF GoesTo
<1>3. to = "L2C" => f.l2c_req
  BY <1>1 DEF GoesTo
<1> HIDE DEF f
<1>4. ToMeet(f) => ToMeet(e)
  <2>1. Seeker(f) => Seeker(e)
    BY <1>2 DEF Seeker, SameRequest
  <2> QED
    BY <1>2, <2>1 DEF ToMeet
<1>5. Looked(f) => to # "L2C"
  BY <1>2, <1>3 DEF Looked
<1>6. GoesOn(s)
  BY <1>2, <1>3, <1>4, <1>5 DEF GoesOn, Asks, Acting, Looked, f
<1> QED
  BY <1>1, <1>6, GoesOnOthers

LEMMA MovesWrite ==
  ASSUME TypeInv, TurnInv, NEW s \in SID,
         LeaveDepd(s) \/ LeaveL2(s) \/ LeaveSnop(s) \/ LeaveMemr(s) \/ MemWrite(s)
  PROVE  \A t \in SID : GoesOn(t)
<1>0. PICK to \in MainState :
        /\ sab' = [sab EXCEPT ![s] = Goto(sab[s], to)]
        /\ to \notin {"IDLE", "DEPD"} /\ sab[s].st # "IDLE"
        /\ to = "SNOP" => sab[s].st = "L2C"
        /\ to = "L2C" <=> sab[s].st = "DEPD"
        /\ to = "L2C" => sab[s].depd = {}
        /\ sab[s].st = "L2C" => ~sab[s].l2c_req
  <2>0. sab[s].st # "IDLE"
    BY DEF LeaveDepd, LeaveL2, LeaveSnop, LeaveMemr, MemWrite
  <2>1. sab[s].kind \in Kind \ {"none"}
    BY <2>0, UsedShape
  <2>2. CASE LeaveDepd(s)
    BY <2>2 DEF LeaveDepd, MainState
  <2>3. CASE LeaveL2(s) /\ sab[s].st = "L2C"
    <3> DEFINE to == AfterL2C(sab[s])
    <3>1. to \in MainState \ {"IDLE", "DEPD"}
      BY <2>1, AfterL2CCases, Zenon
    <3>2. /\ sab' = [sab EXCEPT ![s] = Goto(sab[s], to)] /\ to # "L2C"
          /\ ~sab[s].l2c_req
      BY <2>3 DEF LeaveL2, Step
    <3> HIDE DEF to
    <3> QED
      BY <2>3, <3>1, <3>2
  <2>4. CASE LeaveL2(s) /\ sab[s].st \in {"L2CR", "L2CT"}
    BY <2>4 DEF LeaveL2, Step, MainState
  <2>5. CASE LeaveL2(s) /\ sab[s].st = "L2CW"
    <3> DEFINE to == AfterL2CW(sab[s])
    <3>1. to \in {"MEMW", "POP"}
      BY DEF AfterL2CW
    <3>2. sab' = [sab EXCEPT ![s] = Goto(sab[s], to)]
      BY <2>5 DEF LeaveL2, Step
    <3> HIDE DEF to
    <3> QED
      BY <2>5, <3>1, <3>2 DEF MainState
  <2>6. CASE LeaveSnop(s)
    <3> DEFINE to == AfterSnop(sab[s])
    <3>1. to \in {"L2CR", "POP", "L2CW"}
      BY DEF AfterSnop
    <3>2. sab' = [sab EXCEPT ![s] = Goto(sab[s], to)] /\ sab[s].st = "SNOP"
      BY <2>6 DEF LeaveSnop, Step
    <3> HIDE DEF to
    <3> QED
      BY <3>1, <3>2 DEF MainState
  <2>7. CASE LeaveMemr(s)
    <3> DEFINE to == IF sab[s].kind = "ru" THEN "L2CT" ELSE "L2CW"
    <3>1. to \in {"L2CT", "L2CW"}
      OBVIOUS
    <3>2. sab' = [sab EXCEPT ![s] = Goto(sab[s], to)] /\ sab[s].st = "MEMR"
      BY <2>7 DEF LeaveMemr, Step
    <3> HIDE DEF to
    <3> QED
      BY <3>1, <3>2 DEF MainState
  <2>8. CASE MemWrite(s)
    BY <2>8 DEF MemWrite, MainState
  <2> QED
    BY <2>2, <2>3, <2>4, <2>5, <2>6, <2>7, <2>8 DEF LeaveL2
<1> QED
  BY <1>0, WriteMove

\* Accesses, data, snoops and responses.
LEMMA AccessWrite ==
  ASSUME TypeInv, TurnInv, NEW s \in SID,
         \/ WriteData(s) \/ MemRead(s) \/ L2Lookup(s) \/ L2Write(s)
         \/ SendB(s) \/ SendR(s) \/ \E c \in CORE : SnpResp(s, c)
  PROVE  \A t \in SID : GoesOn(t)
<1>1. Only(s)
  BY WriteDataFull, MemReadFull, L2LookupFull, L2WriteFull, SendBFull, SendRFull, SnpRespFull
<1>2. SameRequest(sab[s], sab'[s]) /\ sab'[s].st = sab[s].st
  <2>1. CASE WriteData(s)
    BY <2>1, WriteDataFull DEF SameAccess
  <2>2. CASE MemRead(s)
    BY <2>2, MemReadFull
  <2>3. CASE L2Lookup(s)
    BY <2>3, L2LookupFull DEF LooksUp
  <2>4. CASE L2Write(s)
    BY <2>4, L2WriteFull DEF Written
  <2>5. CASE SendB(s)
    BY <2>5, SendBFull DEF Answered, SameAccess
  <2>6. CASE SendR(s)
    BY <2>6, SendRFull DEF Answered, SameAccess
  <2>7. CASE \E c \in CORE : SnpResp(s, c)
    BY <2>7, SnpRespFull DEF Snooped, SameAccess
  <2> QED
    BY <2>1, <2>2, <2>3, <2>4, <2>5, <2>6, <2>7
<1>3. sab'[s].snp = sab[s].snp \/ \E c : sab'[s].snp = sab[s].snp \ {c}
  <2>1. CASE WriteData(s)
    BY <2>1, WriteDataFull DEF SameSnoops
  <2>2. CASE MemRead(s)
    BY <2>2, MemReadFull DEF SameSnoops
  <2>3. CASE L2Lookup(s)
    BY <2>3, L2LookupFull DEF LooksUp
  <2>4. CASE L2Write(s)
    BY <2>4, L2WriteFull DEF Written, SameSnoops
  <2>5. CASE SendB(s)
    BY <2>5, SendBFull DEF Answered, SameSnoops
  <2>6. CASE SendR(s)
    BY <2>6, SendRFull DEF Answered, SameSnoops
  <2>7. CASE \E c \in CORE : SnpResp(s, c)
    BY <2>7, SnpRespFull DEF Snooped
  <2> QED
    BY <2>1, <2>2, <2>3, <2>4, <2>5, <2>6, <2>7
<1>4. \/ sab'[s].l2c_req = sab[s].l2c_req
      \/ ~sab'[s].l2c_req /\ \A t \in sab[s].older : ~sab[t].l2c_req
  <2>1. CASE WriteData(s)
    BY <2>1, WriteDataFull DEF SameAccess
  <2>2. CASE MemRead(s)
    BY <2>2, MemReadFull
  <2>3. CASE L2Lookup(s)
    <3>1. ~sab'[s].l2c_req
      BY <2>3, L2LookupFull DEF LooksUp
    <3> QED
      BY <2>3, <3>1 DEF L2Lookup, Granted
  <2>4. CASE L2Write(s)
    <3>1. ~sab'[s].l2c_req
      BY <2>4, L2WriteFull DEF Written
    <3> QED
      BY <2>4, <3>1 DEF L2Write, Granted
  <2>5. CASE SendB(s)
    BY <2>5, SendBFull DEF Answered, SameAccess
  <2>6. CASE SendR(s)
    BY <2>6, SendRFull DEF Answered, SameAccess
  <2>7. CASE \E c \in CORE : SnpResp(s, c)
    BY <2>7, SnpRespFull DEF Snooped, SameAccess
  <2> QED
    BY <2>1, <2>2, <2>3, <2>4, <2>5, <2>6, <2>7
<1>5. GoesOn(s)
  BY <1>2, <1>3, <1>4 DEF GoesOn, SameRequest, ToMeet, Seeker, Asks, Acting, AWrite, Looked
<1> QED
  BY <1>1, <1>5, GoesOnOthers

\* The steps of the cores.
LEMMA CoreWrite ==
  ASSUME TypeInv, NEW c \in CORE, CoreStep(c)
  PROVE  \A t \in SID : GoesOn(t)
<1>1. \A t \in SID : SameButNew(sab[t], sab'[t])
  BY CoreSame
<1> QED
  BY <1>1 DEF GoesOn, SameButNew, SameSnoops, SameAccess, ToMeet, Seeker, SameRequest,
     Asks, Acting, Looked, AWrite

\* Entries that come and go.
LEMMA WritesValid ==
  ASSUME TypeInv, NEW t \in SID, AWrite(sab[t])
  PROVE  t \in WnsEntries /\ t \in Valid
<1>1. sab[t].st # "IDLE"
  BY DEF TypeInv, Entries, EntryShape, AWrite, WriteKind
<1> QED
  BY <1>1 DEF AWrite, WriteKind, WnsEntries, Valid, wns, evict

LEMMA NewSeeker ==
  ASSUME OrderInv, WriteInv, NEW n \in SID, n \notin Valid, NEW kind, kind \notin WriteKind,
         NEW line, NEW mid, NEW ini, NEW D, WnsEntries \subseteq D,
         IsNew(sab'[n], kind, line, mid, D, ini),
         \A t \in SID \ {n} : GoesOn(t)
  PROVE  WriteInv'
<1>0. TypeInv
  BY DEF OrderInv
<1>1. /\ sab'[n].kind = kind /\ sab'[n].depd = D
      /\ sab'[n].st \in {"DEPD", "L2C"} /\ (sab'[n].st = "L2C" => D = {})
  BY DEF IsNew
<1>2. ~AWrite(sab'[n])
  BY <1>1 DEF AWrite
<1>3. ASSUME NEW t \in SID, AWrite(sab'[t])
      PROVE  t # n /\ AWrite(sab[t]) /\ t \in D
  BY <1>0, <1>2, <1>3, WritesValid DEF GoesOn, SameRequest, AWrite
<1>4. ASSUME NEW s \in SID, NEW t \in SID, ToMeet(sab'[s]), AWrite(sab'[t]), s # n
      PROVE  /\ t \in sab'[s].depd
             /\ sab'[s].st = "L2C" => s \in sab'[t].older
             /\ Asks(sab'[s]) => ~Looked(sab'[t])
  <2>1. /\ ToMeet(sab[s]) /\ AWrite(sab[t]) /\ t # n
        /\ sab'[s].depd = sab[s].depd /\ sab'[t].older = sab[t].older
    BY <1>3, <1>4 DEF GoesOn, SameRequest
  <2>2. /\ t \in sab[s].depd /\ (sab[s].st = "L2C" => s \in sab[t].older)
        /\ Asks(sab[s]) => ~Looked(sab[t])
    BY <2>1 DEF WriteInv, WritesMet
  <2>3. /\ Asks(sab'[s]) => Asks(sab[s])
        /\ sab'[s].st = "L2C" => sab[s].st = "L2C"
    BY <1>4, <2>2 DEF GoesOn
  <2>4. Asks(sab[s]) => ~Looked(sab'[t])
    BY <1>4, <2>1, <2>2 DEF GoesOn, Asks
  <2> QED
    BY <2>1, <2>2, <2>3, <2>4
<1>5. WritesMet'
  BY <1>1, <1>3, <1>4 DEF WritesMet, ToMeet, Seeker, AWrite, Asks, Looked, Acting
<1>6. WritesInTurn'
  BY <1>3 DEF WriteInv, WritesInTurn, GoesOn, SameRequest, AWrite, Acting
<1> QED
  BY <1>5, <1>6 DEF WriteInv

LEMMA CreateReadWrite ==
  ASSUME OrderInv, WriteInv, NEW c \in CORE, CreateRead(c)
  PROVE  WriteInv'
<1> DEFINE n == Lowest(FreeEntries(PiuSid))
<1>1. /\ n \in SID /\ n \notin Valid /\ req[c].kind \in ReadKind
      /\ Only(n) /\ IsNew(sab'[n], req[c].kind, req[c].line, c, Valid, 0)
  BY CreateReadFull DEF OrderInv
<1> HIDE DEF n
<1>2. \A t \in SID \ {n} : GoesOn(t)
  BY <1>1 DEF Only, GoesOn, SameRequest
<1>3. WnsEntries \subseteq Valid /\ req[c].kind \notin WriteKind
  BY <1>1 DEF WnsEntries, ReadKind, WriteKind
<1> QED
  BY <1>1, <1>2, <1>3, NewSeeker

LEMMA L2AllocateWrite ==
  ASSUME OrderInv, TurnInv, WriteInv, NEW s \in SID, L2Allocate(s)
  PROVE  WriteInv'
<1> DEFINE w == way_fifo
           n == Lowest(FreeEntries(RSID))
<1>1. /\ Fetches(sab[s], sab'[s])
      /\ ~l2[w].vld => Only(s)
      /\ l2[w].vld => /\ n \in RSID /\ n \notin Valid /\ n # s
                      /\ IsNew(sab'[n], "snpl2", l2[w].tag, NONE, SnpL2Depd, s)
                      /\ \A t \in SID \ {s, n} : sab'[t] = sab[t]
  BY L2AllocateFull DEF OrderInv
<1>2. sab[s].st = "L2CA"
  BY DEF L2Allocate
<1> HIDE DEF w, n
<1>3. GoesOn(s)
  BY <1>1, <1>2 DEF Fetches, GoesOn, ToMeet, SameRequest, Asks, Acting, Looked
<1>4. CASE ~l2[w].vld
  BY <1>1, <1>3, <1>4, GoesOnOthers, WriteGoesOn
<1>5. CASE l2[w].vld
  <2>1. \A t \in SID \ {n} : GoesOn(t)
    BY <1>1, <1>3, <1>5 DEF GoesOn, SameRequest
  <2>2. n \in SID /\ "snpl2" \notin WriteKind /\ WnsEntries \subseteq SnpL2Depd
    BY <1>1, <1>5, Sizes DEF WriteKind, SnpL2Depd
  <2> QED
    BY <1>1, <1>5, <2>1, <2>2, NewSeeker
<1> QED
  BY <1>4, <1>5

LEMMA CreateWriteWrite ==
  ASSUME OrderInv, WriteInv, NEW c \in CORE, CreateWrite(c)
  PROVE  WriteInv'
<1> DEFINE n == Lowest(FreeEntries(WSID))
<1>0. TypeInv
  BY DEF OrderInv
<1>1. /\ n \in SID /\ n \notin Valid /\ vb[c].kind \in WriteKind
      /\ IsNew(sab'[n], vb[c].kind, vb[c].line, c, WriteDepd, 0)
      /\ \A s \in SID \ {n} : MarkedBack(sab[s], sab'[s], n)
  BY <1>0, CreateWriteFull
<1> HIDE DEF n
<1>2. /\ AWrite(sab'[n]) /\ sab'[n].st = "DEPD" /\ sab'[n].depd = WnsEntries
      /\ sab'[n].older = Valid /\ ~Looked(sab'[n]) /\ ~ToMeet(sab'[n])
  BY <1>1 DEF IsNew, AWrite, WriteDepd, Looked, Acting, ToMeet, Seeker, ReadKind, WriteKind
<1>3. ASSUME NEW t \in SID \ {n}
      PROVE  /\ AWrite(sab'[t]) <=> AWrite(sab[t])
             /\ ToMeet(sab'[t]) <=> ToMeet(sab[t])
             /\ Asks(sab'[t]) <=> Asks(sab[t])
             /\ Looked(sab'[t]) <=> Looked(sab[t])
             /\ Acting(sab'[t]) <=> Acting(sab[t])
             /\ sab'[t].older = sab[t].older /\ sab'[t].st = sab[t].st
             /\ sab[t].depd \subseteq sab'[t].depd
             /\ AWrite(sab[t]) => sab'[t].depd = sab[t].depd
             /\ ToMeet(sab[t]) => t \in Valid /\ n \in sab'[t].depd
  <2>1. MarkedBack(sab[t], sab'[t], n)
    BY <1>1
  <2>2. ToMeet(sab[t]) => t \in Valid /\ back_mark(sab[t])
    BY DEF ToMeet, Seeker, back_mark, Valid, ReadKind, WriteKind
  <2>3. AWrite(sab[t]) => ~back_mark(sab[t])
    BY DEF AWrite, back_mark
  <2> QED
    BY <2>1, <2>2, <2>3 DEF MarkedBack, SameAccess, AWrite, ToMeet, Seeker, Asks, Looked, Acting
<1>4. ASSUME NEW s \in SID, NEW t \in SID, ToMeet(sab'[s]), AWrite(sab'[t])
      PROVE  /\ t \in sab'[s].depd
             /\ sab'[s].st = "L2C" => s \in sab'[t].older
             /\ Asks(sab'[s]) => ~Looked(sab'[t])
  <2>1. s # n /\ ToMeet(sab[s]) /\ s \in Valid
    BY <1>2, <1>3, <1>4
  <2>2. CASE t = n
    BY <1>2, <1>3, <2>1, <2>2
  <2>3. CASE t # n
    BY <1>3, <1>4, <2>1, <2>3 DEF WriteInv, WritesMet
  <2> QED
    BY <2>2, <2>3
<1>5. WritesMet'
  BY <1>4 DEF WritesMet, ToMeet, Seeker, AWrite, Asks, Looked, Acting
<1>6. ASSUME NEW s \in SID, NEW t \in SID, AWrite(sab'[s]), AWrite(sab'[t])
      PROVE  /\ s \in sab'[t].older => s \in sab'[t].depd
             /\ Acting(sab'[t]) => sab'[t].depd = {}
  <2>1. CASE t = n
    <3>1. s # n => s \in WnsEntries
      BY <1>0, <1>3, <1>6, WritesValid
    <3> QED
      BY <1>1, <1>2, <2>1, <3>1 DEF Acting
  <2>2. CASE t # n
    <3>1. AWrite(sab[t]) /\ t \in Valid
      BY <1>0, <1>3, <1>6, <2>2, WritesValid
    <3>2. n \notin sab'[t].older
      BY <1>1, <1>3, <2>2, <3>1 DEF OrderInv, AgeOrder
    <3>3. s # n => AWrite(sab[s])
      BY <1>3, <1>6
    <3>4. /\ s # n /\ s \in sab[t].older => s \in sab[t].depd
          /\ Acting(sab[t]) /\ s # n => sab[t].depd = {}
          /\ Acting(sab[t]) => sab[t].depd = {}
      BY <3>1, <3>3 DEF WriteInv, WritesInTurn
    <3> QED
      BY <1>3, <2>2, <3>1, <3>2, <3>4
  <2> QED
    BY <2>1, <2>2
<1>7. WritesInTurn'
  BY <1>6 DEF WritesInTurn, AWrite, Acting
<1> QED
  BY <1>5, <1>7 DEF WriteInv

LEMMA PopWrite ==
  ASSUME TypeInv, WriteInv, NEW s \in SID, Pop(s)
  PROVE  WriteInv'
<1>1. /\ sab'[s] = IdleEntry
      /\ \A t \in SID \ {s} :
           Released(sab[t], sab'[t], s, snpl2(sab[s]) /\ sab[s].ini = t)
  BY PopFull
<1>2. ~AWrite(sab'[s]) /\ ~ToMeet(sab'[s])
  BY <1>1 DEF IdleEntry, AWrite, ToMeet, Seeker, ReadKind, WriteKind
<1>3. ASSUME NEW t \in SID \ {s}
      PROVE  /\ AWrite(sab'[t]) <=> AWrite(sab[t])
             /\ ToMeet(sab'[t]) <=> ToMeet(sab[t])
             /\ Asks(sab'[t]) <=> Asks(sab[t])
             /\ Looked(sab'[t]) <=> Looked(sab[t])
             /\ Acting(sab'[t]) <=> Acting(sab[t])
             /\ sab'[t].older = sab[t].older \ {s} /\ sab'[t].st = sab[t].st
             /\ sab'[t].depd = sab[t].depd \ {s}
  BY <1>1 DEF Released, SameSnoops, AWrite, ToMeet, Seeker, Asks, Looked, Acting
<1>4. ASSUME NEW u \in SID, NEW t \in SID, ToMeet(sab'[u]), AWrite(sab'[t])
      PROVE  /\ t \in sab'[u].depd
             /\ sab'[u].st = "L2C" => u \in sab'[t].older
             /\ Asks(sab'[u]) => ~Looked(sab'[t])
  BY <1>2, <1>3, <1>4 DEF WriteInv, WritesMet
<1>5. ASSUME NEW u \in SID, NEW t \in SID, AWrite(sab'[u]), AWrite(sab'[t])
      PROVE  /\ u \in sab'[t].older => u \in sab'[t].depd
             /\ Acting(sab'[t]) => sab'[t].depd = {}
  BY <1>2, <1>3, <1>5 DEF WriteInv, WritesInTurn
<1>6. WritesMet'
  BY <1>4 DEF WritesMet, ToMeet, Seeker, AWrite, Asks, Looked, Acting
<1>7. WritesInTurn'
  BY <1>5 DEF WritesInTurn, AWrite, Acting
<1> QED
  BY <1>6, <1>7 DEF WriteInv

LEMMA InitWrite == Init => WriteInv
<1> SUFFICES ASSUME Init
             PROVE  WriteInv
  OBVIOUS
<1>1. \A s \in SID : sab[s] = IdleEntry
  BY DEF Init
<1>2. ~AWrite(IdleEntry)
  BY DEF IdleEntry, AWrite, WriteKind
<1> QED
  BY <1>1, <1>2 DEF WriteInv, WritesMet, WritesInTurn

LEMMA StepWrite == OrderInv /\ TurnInv /\ WriteInv /\ [Next]_vars => WriteInv'
<1> SUFFICES ASSUME OrderInv, TurnInv, WriteInv, [Next]_vars
             PROVE  WriteInv'
  OBVIOUS
<1>1. TypeInv
  BY DEF OrderInv
<1>2. CASE \E c \in CORE : CoreStep(c)
  BY <1>1, <1>2, CoreWrite, WriteGoesOn
<1>3. CASE \E c \in CORE : CreateStep(c)
  BY <1>3, CreateReadWrite, CreateWriteWrite DEF CreateStep
<1>4. CASE \E s \in SID : EntryStep(s)
  <2>1. PICK s \in SID : EntryStep(s)
    BY <1>4
  <2>2. CASE Pop(s)
    BY <1>1, <2>2, PopWrite
  <2>3. CASE L2Allocate(s)
    BY <2>3, L2AllocateWrite
  <2>4. CASE \/ WriteData(s) \/ MemRead(s) \/ L2Lookup(s) \/ L2Write(s)
             \/ SendB(s) \/ SendR(s) \/ \E c \in CORE : SnpResp(s, c)
    BY <1>1, <2>4, AccessWrite, WriteGoesOn
  <2>5. CASE LeaveDepd(s) \/ LeaveL2(s) \/ LeaveSnop(s) \/ LeaveMemr(s) \/ MemWrite(s)
    BY <1>1, <2>5, MovesWrite, WriteGoesOn
  <2> QED
    BY <2>1, <2>2, <2>3, <2>4, <2>5 DEF EntryStep
<1>5. CASE UNCHANGED vars
  BY <1>5, WriteGoesOn DEF vars, GoesOn, SameRequest
<1> QED
  BY <1>2, <1>3, <1>4, <1>5 DEF Next

-----------------------------------------------------------------------------
(***************************************************************************)
(* What a step does to an entry, seen by the layers above: it is created,  *)
(* it pops, or it goes on.                                                 *)
(***************************************************************************)
BornWrite(t) == \E c \in CORE :
  /\ CreateWrite(c)
  /\ sab'[t].kind = vb[c].kind /\ sab'[t].line = vb[c].line /\ sab'[t].mid = c
  /\ sab'[t].kind \in WriteKind /\ sab'[t].line \in LINE
  /\ sab'[t].st = "DEPD" /\ sab'[t].older = Valid /\ ~sab'[t].l1_pd
  /\ ~sab'[t].l1_dt /\ ~sab'[t].wt
  /\ \A u \in SID \ {t} : MarkedBack(sab[u], sab'[u], t)
BornSeeker(t) ==
  /\ sab'[t].kind \notin WriteKind /\ sab'[t].st # "IDLE" /\ ~Looked(sab'[t])
  /\ ~sab'[t].l1_pd
  /\ snpl2(sab'[t]) => \E s \in SID :
       /\ L2Allocate(s) /\ sab'[t].ini = s
       /\ l2[way_fifo].vld /\ sab'[t].line = l2[way_fifo].tag
  /\ Acting(sab'[t]) => WnsEntries = {}
  /\ ~sab'[t].l1_dt
  /\ Acting(sab'[t]) => sab'[t].depd = {}
Born(t) == t \notin Valid /\ (BornWrite(t) \/ BornSeeker(t))

Dies(t) == Pop(t) /\ sab'[t] = IdleEntry

GoesNext(t) == LET e == sab[t] f == sab'[t] IN
  /\ SameName(e, f) /\ (f.st = "IDLE" <=> e.st = "IDLE")
  /\ Acting(e) => Acting(f)
  /\ Acting(f) => Acting(e) \/ (e.st = "DEPD" /\ e.depd = {})
  /\ Looked(e) => Looked(f)
  /\ Looked(f) => Looked(e) \/ (L2Lookup(t) /\ e.st = "L2C")
GoesSnoops(t) == LET e == sab[t] f == sab'[t] IN
  /\ Looked(e) => Holds(f) \subseteq Holds(e)
  /\ \A c \in Holds(e) : c \in Holds(f) \/ SnpResp(t, c)
  /\ e.st = "SNOP" => f.st = "SNOP" \/ LeaveSnop(t)
  /\ Holds(e) # {} => f.st = "SNOP" \/ Holds(f) # {}
  /\ Filled(e) => Filled(f) \/ L2Write(t)
GoesRest(t) == LET e == sab[t] f == sab'[t] IN
  /\ e.kind \in ReadKind /\ e.resp = "sent" => f.resp = "sent"
  /\ \A u \in SID : sab'[u].st # "IDLE" =>
       /\ u \in e.older => u \in f.older
       /\ u \in e.depd => u \in f.depd
Lives(t) == GoesNext(t) /\ GoesSnoops(t) /\ GoesRest(t)

LEMMA LivesSame ==
  ASSUME NEW t \in SID, SameButNew(sab[t], sab'[t])
  PROVE  Lives(t)
BY DEF SameButNew, SameRequest, SameSnoops, SameAccess, SameAnswer, Lives, GoesNext,
   GoesSnoops, GoesRest, SameName, Acting, Looked, Holds, Filled

LEMMA LivesOnly ==
  ASSUME NEW s \in SID, Only(s), NEW t \in SID \ {s}
  PROVE  Lives(t)
<1>1. sab'[t] = sab[t]
  BY DEF Only
<1> QED
  BY <1>1, LivesSame DEF SameButNew, SameRequest, SameSnoops, SameAccess, SameAnswer

\* The moves of the main FSM.
Advances(s, to) == LET e == sab[s] IN
  /\ sab' = [sab EXCEPT ![s] = Goto(sab[s], to)]
  /\ UNCHANGED <<l2, rplc, l1, vb, req>>
  /\ to \notin {"IDLE", "DEPD"} /\ e.st \notin {"IDLE", "POP"}
  /\ ~e.l2c_req /\ e.snp = {}
  /\ to = "L2C" <=> e.st = "DEPD"
  /\ to = "L2C" => e.depd = {} /\ LeaveDepd(s)
  /\ to = "SNOP" <=> e.cp # {}
  /\ to = "SNOP" => e.st = "L2C"
  /\ to = "L2CR" => e.st = "SNOP"
  /\ to = "L2CA" => e.st = "L2C" /\ rd_alct(e) /\ ~e.l2_hit
  /\ to = "MEMR" => e.st = "L2C" /\ e.kind = "ro"
  /\ to = "L2CT" => e.st = "MEMR"
  /\ to = "L2CW" /\ e.st = "L2C" => cml2(e) \/ snpl2(e) \/ e.kind = "cu" \/ e.l2_hit
  /\ to = "MEMW" => \/ e.st = "L2C" /\ wns(e) /\ ~e.l2_hit
                    \/ e.st = "L2CW" /\ (cml2(e) \/ snpl2(e))
  /\ e.st = "SNOP" => LeaveSnop(s)
  /\ e.st = "MEMR" => e.snpl2_done /\ e.memr = "cmplt" /\ to \in {"L2CT", "L2CW"}
  /\ e.st = "L2CW" => to \in {"MEMW", "POP"}
  /\ e.st = "L2CT" => to = "L2CW"
  /\ e.st = "MEMW" => to = "POP"
  /\ e.st # "L2CA"
  /\ to = "POP" => e.st \in {"L2CW", "MEMW"} \/ evict(e) \/ e.kind = "csl1"

LEMMA AdvancesTo ==
  ASSUME TypeInv, TurnInv, NEW s \in SID,
         LeaveDepd(s) \/ LeaveL2(s) \/ LeaveSnop(s) \/ LeaveMemr(s) \/ MemWrite(s)
  PROVE  \E to \in MainState : Advances(s, to)
<1> USE DEF MainState
<1>0. sab[s].st # "IDLE"
  BY DEF LeaveDepd, LeaveL2, LeaveSnop, LeaveMemr, MemWrite
<1>00. StateShape(sab[s]) /\ sab[s].kind \in Kind \ {"none"}
  BY <1>0, UsedShape
<1>1. CASE LeaveDepd(s)
  <2>1. Advances(s, "L2C")
    BY <1>00, <1>1 DEF LeaveDepd, Advances, StateShape
  <2> QED
    BY <2>1
<1>2. CASE LeaveL2(s) /\ sab[s].st = "L2C"
  <2> DEFINE to == AfterL2C(sab[s])
  <2>1. /\ to \in MainState \ {"IDLE", "DEPD", "L2CR", "L2CT"}
        /\ sab[s].cp # {} <=> to = "SNOP"
        /\ to = "L2CA" => rd_alct(sab[s]) /\ ~sab[s].l2_hit
        /\ to = "MEMR" => sab[s].kind = "ro" /\ ~sab[s].l2_hit
        /\ to = "MEMW" => wns(sab[s]) /\ ~sab[s].l2_hit
        /\ to = "L2CW" => cml2(sab[s]) \/ snpl2(sab[s]) \/ sab[s].kind = "cu" \/ sab[s].l2_hit
        /\ to = "POP" => evict(sab[s]) \/ sab[s].kind = "csl1"
    BY <1>00, AfterL2CCases, Zenon
  <2>2. to # "L2C" /\ Step(s, to) /\ ~sab[s].l2c_req
    BY <1>2 DEF LeaveL2
  <2>3. sab[s].snp = {}
    BY <1>00, <1>2 DEF StateShape
  <2> HIDE DEF to
  <2>4. Advances(s, to)
    BY <1>2, <2>1, <2>2, <2>3 DEF Advances, Step
  <2> QED
    BY <2>1, <2>4
<1>3. CASE LeaveL2(s) /\ sab[s].st \in {"L2CR", "L2CT"}
  <2>1. Step(s, "L2CW") /\ ~sab[s].l2c_req
    BY <1>3 DEF LeaveL2
  <2>2. sab[s].snp = {} /\ sab[s].cp = {}
    BY <1>00, <1>3 DEF StateShape
  <2>3. Advances(s, "L2CW")
    BY <1>3, <2>1, <2>2 DEF Advances, Step
  <2> QED
    BY <2>3
<1>4. CASE LeaveL2(s) /\ sab[s].st = "L2CW"
  <2> DEFINE to == AfterL2CW(sab[s])
  <2>1. to \in {"MEMW", "POP"} /\ (to = "MEMW" => cml2(sab[s]) \/ snpl2(sab[s]))
    BY DEF AfterL2CW
  <2>2. Step(s, to) /\ ~sab[s].l2c_req
    BY <1>4 DEF LeaveL2
  <2> HIDE DEF to
  <2>3. sab[s].snp = {} /\ sab[s].cp = {}
    BY <1>00, <1>4 DEF StateShape
  <2>4. Advances(s, to)
    BY <1>4, <2>1, <2>2, <2>3 DEF Advances, Step
  <2> QED
    BY <2>1, <2>4
<1>5. CASE LeaveSnop(s)
  <2> DEFINE to == AfterSnop(sab[s])
  <2>1. to \in {"L2CR", "POP", "L2CW"} /\ (to = "POP" => sab[s].kind = "csl1")
    BY DEF AfterSnop
  <2>2. Step(s, to) /\ sab[s].st = "SNOP" /\ sab[s].snp = {}
    BY <1>5 DEF LeaveSnop
  <2> HIDE DEF to
  <2>3. ~sab[s].l2c_req /\ sab[s].cp = {}
    BY <1>00, <2>2 DEF StateShape
  <2>4. Advances(s, to)
    BY <1>5, <2>1, <2>2, <2>3 DEF Advances, Step
  <2> QED
    BY <2>1, <2>4
<1>6. CASE LeaveMemr(s)
  <2> DEFINE to == IF sab[s].kind = "ru" THEN "L2CT" ELSE "L2CW"
  <2>1. to \in {"L2CT", "L2CW"}
    OBVIOUS
  <2>2. /\ Step(s, to) /\ sab[s].st = "MEMR" /\ sab[s].snpl2_done
        /\ sab[s].memr = "cmplt"
    BY <1>6 DEF LeaveMemr, MemrDone
  <2> HIDE DEF to
  <2>3. ~sab[s].l2c_req /\ sab[s].cp = {} /\ sab[s].snp = {}
    BY <1>00, <2>2 DEF StateShape
  <2>4. Advances(s, to)
    BY <2>1, <2>2, <2>3 DEF Advances, Step
  <2> QED
    BY <2>1, <2>4
<1>7. CASE MemWrite(s)
  <2>1. ~sab[s].l2c_req /\ sab[s].snp = {} /\ sab[s].cp = {} /\ sab[s].st = "MEMW"
    BY <1>00, <1>7 DEF StateShape, MemWrite
  <2>2. Advances(s, "POP")
    BY <1>7, <2>1 DEF Advances, MemWrite
  <2> QED
    BY <2>2
<1> QED
  BY <1>1, <1>2, <1>3, <1>4, <1>5, <1>6, <1>7 DEF LeaveL2

LEMMA MoveLives ==
  ASSUME TypeInv, TurnInv, NEW s \in SID, NEW to \in MainState, Advances(s, to)
  PROVE  Only(s) /\ Lives(s)
<1> DEFINE e == sab[s]
           f == sab'[s]
<1>1. Only(s) /\ GoesTo(e, f, to)
  BY Moved DEF Advances
<1>2. StateShape(e)
  BY DEF TurnInv, StateShapes
<1>3. /\ SameRequest(e, f) /\ f.st = to
      /\ f.l2c_req => to \in {"L2C", "L2CR", "L2CA", "L2CT", "L2CW"}
      /\ to = "L2C" => f.l2c_req
      /\ f.resp = IF rresp_rdy(e, to) THEN "rdy" ELSE e.resp
  BY <1>1 DEF GoesTo
<1>31. Holds(f) = Holds(e)
  <2>1. e.snp = {} /\ (to = "SNOP" <=> e.cp # {})
    BY DEF Advances
  <2>2. f.snp = (IF to = "SNOP" THEN e.cp ELSE e.snp) /\ f.cp = {}
    BY <1>1 DEF GoesTo
  <2> QED
    BY <2>1, <2>2 DEF Holds
<1> HIDE DEF f
<1>4. ~Filled(e)
  BY DEF Filled, Advances
<1>5. e.kind \in ReadKind /\ e.resp = "sent" => f.resp = "sent"
  <2> SUFFICES ASSUME e.kind \in ReadKind, e.resp = "sent"
               PROVE  ~rresp_rdy(e, to)
    BY <1>3
  <2>1. e.st = "L2CW" /\ ~cml2(e)
    BY <1>2 DEF StateShape, Advances
  <2> QED
    BY <2>1 DEF rresp_rdy, cml2, Advances
<1>6. GoesNext(s)
  BY <1>3 DEF GoesNext, SameRequest, SameName, Acting, Looked, Advances, f
<1>7. GoesSnoops(s)
  <2>1. \A c \in CORE : c \in Holds(e) => c \in Holds(f)
    BY <1>31
  <2>2. e.st # "SNOP" /\ Holds(e) # {} => to = "SNOP"
    BY DEF Advances, Holds
  <2>3. e.st = "SNOP" => LeaveSnop(s) /\ Holds(e) = {}
    <3>1. e.st = "SNOP" => to # "SNOP"
      BY DEF Advances
    <3> QED
      BY <3>1 DEF Advances, Holds
  <2> QED
    BY <1>3, <1>31, <1>4, <2>1, <2>2, <2>3 DEF GoesSnoops, f
<1>8. GoesRest(s)
  BY <1>3, <1>5 DEF GoesRest, SameRequest, f
<1> QED
  BY <1>1, <1>6, <1>7, <1>8 DEF Lives

LEMMA CoreLives ==
  ASSUME TypeInv, NEW c \in CORE, CoreStep(c), NEW t \in SID
  PROVE  Lives(t)
BY CoreSame, LivesSame

LEMMA CreateReadLives ==
  ASSUME TypeInv, NEW c \in CORE, CreateRead(c), NEW t \in SID
  PROVE  Born(t) \/ Lives(t)
<1>1. PICK n \in SID : n = Lowest(FreeEntries(PiuSid))
  BY CreateReadFull
<1>2. /\ n \notin Valid /\ req[c].kind \in ReadKind /\ Only(n)
      /\ IsNew(sab'[n], req[c].kind, req[c].line, c, Valid, 0)
  BY <1>1, CreateReadFull
<1>3. BornSeeker(n)
  <2>1. /\ sab'[n].kind \in ReadKind /\ sab'[n].st \in {"DEPD", "L2C"}
        /\ sab'[n].l2c_req <=> sab'[n].st = "L2C"
        /\ sab'[n].st = "L2C" => Valid = {} /\ sab'[n].depd = {}
        /\ ~sab'[n].l1_pd /\ ~sab'[n].l1_dt
    BY <1>2 DEF IsNew
  <2> QED
    BY <2>1 DEF BornSeeker, ReadKind, WriteKind, Looked, Acting, WnsEntries, snpl2
<1>4. CASE t = n
  BY <1>2, <1>3, <1>4 DEF Born
<1>5. CASE t # n
  BY <1>2, <1>5, LivesOnly
<1> QED
  BY <1>4, <1>5

LEMMA CreateWriteLives ==
  ASSUME TypeInv, NEW c \in CORE, CreateWrite(c), NEW t \in SID
  PROVE  Born(t) \/ Lives(t)
<1>1. PICK n \in SID : n = Lowest(FreeEntries(WSID))
  BY CreateWriteFull
<1>2. /\ n \notin Valid /\ vb[c].kind \in WriteKind /\ vb[c].line \in LINE
      /\ IsNew(sab'[n], vb[c].kind, vb[c].line, c, WriteDepd, 0)
      /\ \A u \in SID \ {n} : MarkedBack(sab[u], sab'[u], n)
  BY <1>1, CreateWriteFull
<1>3. BornWrite(n)
  BY <1>2 DEF IsNew, BornWrite
<1>4. CASE t = n
  BY <1>2, <1>3, <1>4 DEF Born
<1>5. CASE t # n
  <2>1. MarkedBack(sab[t], sab'[t], n)
    BY <1>2, <1>5
  <2>2. GoesNext(t)
    BY <2>1 DEF MarkedBack, SameAccess, GoesNext, SameName, Acting, Looked
  <2>3. GoesSnoops(t)
    BY <2>1 DEF MarkedBack, SameAccess, SameAnswer, GoesSnoops, Holds, Filled
  <2>4. GoesRest(t)
    BY <2>1 DEF MarkedBack, SameAnswer, GoesRest
  <2> QED
    BY <2>2, <2>3, <2>4 DEF Lives
<1> QED
  BY <1>4, <1>5

LEMMA L2AllocateLives ==
  ASSUME OrderInv, TurnInv, NEW s \in SID, L2Allocate(s), NEW t \in SID
  PROVE  Born(t) \/ Lives(t)
<1> DEFINE n == Lowest(FreeEntries(RSID))
           w == way_fifo
<1>1. TypeInv /\ Fetches(sab[s], sab'[s]) /\ sab[s].st = "L2CA"
  BY L2AllocateFull DEF OrderInv, L2Allocate
<1>2. /\ ~l2[w].vld => Only(s)
      /\ l2[w].vld => /\ n \in RSID /\ n \notin Valid /\ n # s
                      /\ IsNew(sab'[n], "snpl2", l2[w].tag, NONE, SnpL2Depd, s)
                      /\ \A u \in SID \ {s, n} : sab'[u] = sab[u]
  BY <1>1, L2AllocateFull
<1> HIDE DEF n, w
<1>3. Lives(s)
  <2>1. StateShape(sab[s])
    BY DEF TurnInv, StateShapes
  <2>2. sab[s].snp = {} /\ sab[s].cp = {} /\ rd_alct(sab[s]) /\ sab[s].resp = "no" /\ sab[s].kind \notin WriteKind
    <3>1. sab[s].resp \in {"no", "rdy", "sent"}
      BY <1>1, InUse DEF EntryType
    <3> QED
      BY <1>1, <2>1, <3>1 DEF StateShape, rd_alct, rs, ReadKind, WriteKind
  <2>3. SameRequest(sab[s], sab'[s]) /\ sab'[s].st = "MEMR" /\ sab'[s].snp = {} /\ sab'[s].cp = {}
    BY <1>1, <2>2 DEF Fetches
  <2>4. GoesNext(s)
    BY <1>1, <2>3 DEF GoesNext, SameRequest, SameName, Acting, Looked
  <2>5. GoesSnoops(s)
    BY <1>1, <2>2, <2>3 DEF GoesSnoops, Holds, Filled
  <2>6. GoesRest(s)
    BY <2>2, <2>3 DEF GoesRest, SameRequest
  <2> QED
    BY <2>4, <2>5, <2>6 DEF Lives
<1>4. ASSUME t # s, ~l2[w].vld
      PROVE  Lives(t)
  BY <1>2, <1>4, LivesOnly
<1>5. ASSUME t # s, l2[w].vld, t # n
      PROVE  Lives(t)
  <2>1. sab'[t] = sab[t]
    BY <1>2, <1>5
  <2> QED
    BY <2>1, LivesSame DEF SameButNew, SameRequest, SameSnoops, SameAccess, SameAnswer
<1>6. ASSUME t = n, l2[w].vld
      PROVE  Born(t)
  <2>1. /\ sab'[t].kind = "snpl2" /\ sab'[t].st \in {"DEPD", "L2C"}
        /\ sab'[t].l2c_req <=> sab'[t].st = "L2C"
        /\ sab'[t].st = "L2C" => SnpL2Depd = {} /\ sab'[t].depd = {}
        /\ ~sab'[t].l1_pd /\ ~sab'[t].l1_dt /\ sab'[t].ini = s /\ sab'[t].line = l2[w].tag
    BY <1>2, <1>6 DEF IsNew, WriteKind
  <2>2. BornSeeker(t)
    BY <1>6, <2>1 DEF BornSeeker, WriteKind, Looked, Acting, SnpL2Depd, w
  <2> QED
    BY <1>2, <1>6, <2>2 DEF Born
<1> QED
  BY <1>3, <1>4, <1>5, <1>6

LEMMA SameLives ==
  ASSUME NEW s \in SID, SameRequest(sab[s], sab'[s]), SameSnoops(sab[s], sab'[s]),
         sab'[s].st = sab[s].st,
         \/ sab'[s].l2c_req = sab[s].l2c_req
         \/ ~sab'[s].l2c_req /\ sab[s].st # "L2C",
         sab[s].kind \in ReadKind /\ sab[s].resp = "sent" => sab'[s].resp = "sent",
         Filled(sab[s]) /\ ~sab'[s].l2c_req => L2Write(s)
  PROVE  Lives(s)
<1>1. GoesNext(s)
  BY DEF GoesNext, SameRequest, SameName, Acting, Looked
<1>2. Filled(sab[s]) => Filled(sab'[s]) \/ L2Write(s)
  BY DEF Filled, SameRequest, ReadKind
<1>3. GoesSnoops(s)
  BY <1>2 DEF GoesSnoops, SameSnoops, Holds
<1>4. GoesRest(s)
  BY DEF GoesRest, SameRequest
<1> QED
  BY <1>1, <1>3, <1>4 DEF Lives

LEMMA L2LookupLives ==
  ASSUME TypeInv, TurnInv, NEW s \in SID, L2Lookup(s)
  PROVE  Only(s) /\ Lives(s)
<1> DEFINE e == sab[s]
           f == sab'[s]
<1>1. Only(s) /\ LooksUp(e, f)
  BY L2LookupFull
<1>2. e.l2c_req /\ e.st \in {"L2C", "L2CR", "L2CT"} /\ StateShape(e)
  BY DEF L2Lookup, Granted, TurnInv, StateShapes
<1>3. SameRequest(e, f) /\ SameAnswer(e, f) /\ f.st = e.st /\ ~f.l2c_req /\ f.snp = e.snp
  BY <1>1 DEF LooksUp
<1>4. e.st # "L2C" => f.cp = {}
  BY <1>1 DEF LooksUp
<1>5. e.cp = {} /\ e.snp = {}
  BY <1>2 DEF StateShape
<1> HIDE DEF f
<1>6. GoesNext(s)
  BY <1>2, <1>3 DEF GoesNext, SameRequest, SameName, Acting, Looked, f
<1>7. GoesSnoops(s)
  BY <1>2, <1>3, <1>4, <1>5 DEF GoesSnoops, Holds, Filled, Looked, f
<1>8. GoesRest(s)
  BY <1>3 DEF GoesRest, SameRequest, SameAnswer, f
<1> QED
  BY <1>1, <1>6, <1>7, <1>8 DEF Lives

LEMMA SnpRespLives ==
  ASSUME TypeInv, TurnInv, NEW s \in SID, NEW c \in CORE, SnpResp(s, c)
  PROVE  Only(s) /\ Lives(s)
<1> DEFINE e == sab[s]
           f == sab'[s]
<1>1. Only(s) /\ Snooped(e, f, c)
  BY SnpRespFull
<1>2. /\ SameRequest(e, f) /\ SameAccess(e, f) /\ SameAnswer(e, f)
      /\ f.cp = e.cp /\ f.snp = e.snp \ {c}
  BY <1>1 DEF Snooped
<1>3. e.st = "SNOP" /\ SnpResp(s, c)
  BY DEF SnpResp
<1> HIDE DEF f
<1>4. GoesNext(s)
  BY <1>2 DEF GoesNext, SameRequest, SameAccess, SameName, Acting, Looked, f
<1>5. GoesSnoops(s)
  BY <1>2, <1>3 DEF GoesSnoops, SameAccess, Holds, Filled, f
<1>6. GoesRest(s)
  BY <1>2 DEF GoesRest, SameRequest, SameAnswer, f
<1> QED
  BY <1>1, <1>4, <1>5, <1>6 DEF Lives

LEMMA PopLives ==
  ASSUME TypeInv, TurnInv, NEW s \in SID, Pop(s), NEW t \in SID
  PROVE  Dies(t) \/ Lives(t)
<1>1. /\ sab'[s] = IdleEntry
      /\ \A u \in SID \ {s} : Released(sab[u], sab'[u], s, snpl2(sab[s]) /\ sab[s].ini = u)
  BY PopFull
<1>2. CASE t = s
  BY <1>1, <1>2 DEF Dies
<1>3. CASE t # s
  <2> DEFINE e == sab[t]
             f == sab'[t]
  <2>1. Released(e, f, s, snpl2(sab[s]) /\ sab[s].ini = t)
    BY <1>1, <1>3
  <2>2. /\ f.kind = e.kind /\ f.line = e.line /\ f.mid = e.mid
        /\ f.depd = e.depd \ {s} /\ f.older = e.older \ {s}
        /\ f.st = e.st /\ f.l2c_req = e.l2c_req
        /\ SameSnoops(e, f) /\ SameAnswer(e, f)
    BY <2>1 DEF Released
  <2>3. sab'[s].st = "IDLE"
    BY <1>1 DEF IdleEntry
  <2> HIDE DEF f
  <2>4. GoesNext(t)
    BY <2>2 DEF GoesNext, SameName, Acting, Looked, f
  <2>5. GoesSnoops(t)
    BY <2>2 DEF GoesSnoops, SameSnoops, SameAnswer, Holds, Filled, f
  <2>6. GoesRest(t)
    BY <2>2, <2>3 DEF GoesRest, SameAnswer, f
  <2> QED
    BY <2>4, <2>5, <2>6 DEF Lives
<1> QED
  BY <1>2, <1>3

\* Every step leaves each entry where it was, creates it, pops it or moves it on.
LEMMA EntryMoves ==
  ASSUME OrderInv, TurnInv, [Next]_vars, NEW t \in SID
  PROVE  Born(t) \/ Dies(t) \/ Lives(t)
<1>1. TypeInv
  BY DEF OrderInv
<1>2. CASE UNCHANGED vars
  BY <1>2, SabSame, LivesSame DEF vars
<1>3. ASSUME NEW c \in CORE, CoreStep(c) \/ CreateStep(c)
      PROVE  Born(t) \/ Lives(t)
  BY <1>1, <1>3, CoreLives, CreateReadLives, CreateWriteLives DEF CreateStep
<1>4. ASSUME NEW s \in SID, EntryStep(s)
      PROVE  Born(t) \/ Dies(t) \/ Lives(t)
  <2>1. ASSUME Only(s) /\ Lives(s)
        PROVE  Lives(t)
    BY <2>1, LivesOnly
  <2>2. CASE WriteData(s)
    <3>1. Only(s) /\ SameRequest(sab[s], sab'[s]) /\ SameSnoops(sab[s], sab'[s]) /\ SameAccess(sab[s], sab'[s])
      BY <1>1, <2>2, WriteDataFull
    <3>2. sab[s].kind \notin ReadKind
      BY <2>2 DEF WriteData, wns, ReadKind
    <3>3. ~Filled(sab[s])
      BY <2>2 DEF WriteData, Filled
    <3> QED
      BY <2>1, <3>1, <3>2, <3>3, SameLives DEF SameAccess
  <2>3. CASE LeaveDepd(s) \/ LeaveL2(s) \/ LeaveSnop(s) \/ LeaveMemr(s) \/ MemWrite(s)
    BY <1>1, <2>1, <2>3, AdvancesTo, MoveLives
  <2>4. CASE L2Lookup(s)
    BY <1>1, <2>1, <2>4, L2LookupLives
  <2>5. CASE L2Allocate(s)
    BY <2>5, L2AllocateLives
  <2>6. CASE L2Write(s)
    <3>1. Only(s) /\ Written(sab[s], sab'[s]) /\ sab[s].st = "L2CW"
      BY <1>1, <2>6, L2WriteFull DEF L2Write
    <3> QED
      BY <2>1, <2>6, <3>1, SameLives DEF Written, SameAnswer
  <2>7. CASE MemRead(s)
    <3>1. /\ Only(s) /\ SameRequest(sab[s], sab'[s]) /\ SameSnoops(sab[s], sab'[s])
          /\ SameAnswer(sab[s], sab'[s]) /\ sab'[s].st = sab[s].st
          /\ sab'[s].l2c_req = sab[s].l2c_req /\ sab[s].st = "MEMR"
      BY <1>1, <2>7, MemReadFull DEF MemRead
    <3> QED
      BY <2>1, <3>1, SameLives DEF SameAnswer, Filled
  <2>8. CASE SendB(s) \/ SendR(s)
    <3>1. Only(s) /\ Answered(sab[s], sab'[s])
      BY <1>1, <2>8, SendBFull, SendRFull
    <3>2. ~Filled(sab[s])
      BY <2>8 DEF SendB, SendR, Filled
    <3> QED
      BY <2>1, <3>1, <3>2, SameLives DEF Answered, SameAccess
  <2>9. CASE Pop(s)
    BY <1>1, <2>9, PopLives
  <2>10. CASE \E c \in CORE : SnpResp(s, c)
    BY <1>1, <2>1, <2>10, SnpRespLives
  <2> QED
    BY <1>4, <2>2, <2>3, <2>4, <2>5, <2>6, <2>7, <2>8, <2>9, <2>10 DEF EntryStep
<1> QED
  BY <1>2, <1>3, <1>4 DEF Next

-----------------------------------------------------------------------------
(***************************************************************************)
(* What a step does to a copy, a victim buffer and a request of a core.    *)
(***************************************************************************)

\* The victim buffer holds data of the line that no entry has taken over yet.
Owing(c, l) == /\ vb[c].st \in {"hold", "sent"} /\ vb[c].line = l
               /\ vb[c].kind \in {"wb", "wc"}

OwingFrom(c, l) == Owing(c, l)' =>
  Owing(c, l) \/ (l1[c][l].st = "M" /\ UNCHANGED <<sab, l2>>)
UniqueFrom(c, l) == l1'[c][l].st \in Unique =>
  \/ l1[c][l].st \in Unique
  \/ \E s \in SID : /\ SendR(s) /\ sab[s].mid = c /\ sab[s].line = l
                    /\ sab[s].kind \in {"rs", "ru", "cu"}
ModifiedFrom(c, l) == l1'[c][l].st = "M" => l1[c][l].st = "M" \/ Store(c, l)
AskedFrom(c) == req'[c].kind # "none" =>
  \/ req'[c].kind = req[c].kind /\ req'[c].line = req[c].line
  \/ \E k \in READS, l \in LINE : IssueRead(c, k, l)
CoreFrom(c, l) == OwingFrom(c, l) /\ UniqueFrom(c, l) /\ ModifiedFrom(c, l) /\ AskedFrom(c)

LEMMA CoreUnchanged ==
  ASSUME UNCHANGED <<l1, vb, req>>, NEW c \in CORE, NEW l \in LINE
  PROVE  CoreFrom(c, l)
BY DEF CoreFrom, OwingFrom, UniqueFrom, ModifiedFrom, AskedFrom, Owing

LEMMA IssueReadFrom ==
  ASSUME TypeInv, NEW d \in CORE, NEW k \in READS, NEW m \in LINE, IssueRead(d, k, m),
         NEW c \in CORE, NEW l \in LINE
  PROVE  CoreFrom(c, l)
<1>1. UNCHANGED <<l1, vb>> /\ (d # c => req'[c] = req[c])
  BY IssueReadFull
<1>2. OwingFrom(c, l) /\ UniqueFrom(c, l) /\ ModifiedFrom(c, l)
  BY <1>1 DEF OwingFrom, UniqueFrom, ModifiedFrom, Owing
<1>3. AskedFrom(c)
  BY <1>1 DEF AskedFrom
<1> QED
  BY <1>2, <1>3 DEF CoreFrom

LEMMA StoreFrom ==
  ASSUME TypeInv, NEW d \in CORE, NEW m \in LINE, Store(d, m),
         NEW c \in CORE, NEW l \in LINE
  PROVE  CoreFrom(c, l)
<1>1. /\ vb'[c].st = vb[c].st /\ vb'[c].kind = vb[c].kind /\ vb'[c].line = vb[c].line
      /\ req'[c].kind = req[c].kind /\ req'[c].line = req[c].line
      /\ ~(c = d /\ l = m) => l1'[c][l].st = l1[c][l].st
  <2>1. /\ \A x \in CORE, y \in LINE : y # m => l1'[x][y] = l1[x][y]
        /\ \A x \in CORE : x # d => l1'[x][m].st = l1[x][m].st
    BY StoreFull
  <2> QED
    BY <2>1, StoreFull
<1>2. l1[d][m].st \in Unique
  BY DEF Store, Unique
<1>3. OwingFrom(c, l) /\ AskedFrom(c)
  BY <1>1 DEF OwingFrom, Owing, AskedFrom
<1>4. UniqueFrom(c, l) /\ ModifiedFrom(c, l)
  BY <1>1, <1>2 DEF UniqueFrom, ModifiedFrom
<1> QED
  BY <1>3, <1>4 DEF CoreFrom

LEMMA LeavesFrom ==
  ASSUME TypeInv, NEW d \in CORE, NEW m \in LINE,
         Replace(d, m) \/ CleanOwn(d, m) \/ CleanInvOwn(d, m),
         NEW c \in CORE, NEW l \in LINE
  PROVE  CoreFrom(c, l)
<1> DEFINE copy == [l1[d][m] EXCEPT !.st = "E"]
<1>1. /\ Invalid \in LineInL1 /\ Invalid.st = "I"
      /\ copy \in LineInL1 /\ copy.st = "E"
  BY DEF Invalid, TypeInv, Rest, Level1, LineInL1
<1> HIDE DEF copy
<1>2. ASSUME NEW k \in WriteKind, NEW r \in LineInL1, ToVictimBuffer(d, m, k, r),
             k # "evict" => l1[d][m].st = "M",
             r.st = "I" \/ (r.st = "E" /\ l1[d][m].st = "M")
      PROVE  CoreFrom(c, l)
  <2>1. /\ UNCHANGED <<sab, l2, rplc, mem, req>>
        /\ vb[d].st = "none"
        /\ \A x \in CORE : x # d => vb'[x] = vb[x]
        /\ vb'[d] = [st |-> "hold", kind |-> k, line |-> m, new |-> l1[d][m].new]
        /\ OtherLines(d, m) /\ l1'[d][m] = r
    BY <1>2, ToVictimBufferFull
  <2>2. vb'[d].kind = k /\ vb'[d].line = m
    BY <2>1
  <2>3. OwingFrom(c, l)
    BY <1>2, <2>1, <2>2 DEF OwingFrom, Owing, WriteKind
  <2>4. UniqueFrom(c, l) /\ ModifiedFrom(c, l)
    BY <1>2, <2>1 DEF UniqueFrom, ModifiedFrom, OtherLines, Unique
  <2>5. AskedFrom(c)
    BY <2>1 DEF AskedFrom
  <2> QED
    BY <2>3, <2>4, <2>5 DEF CoreFrom
<1>3. CASE Replace(d, m)
  BY <1>1, <1>2, <1>3 DEF Replace, WriteKind
<1>4. CASE CleanOwn(d, m)
  BY <1>1, <1>2, <1>4 DEF CleanOwn, WriteKind, copy
<1>5. CASE CleanInvOwn(d, m)
  <2>1. UNCHANGED <<vb, req>> /\ OtherLines(d, m) /\ l1'[d][m] = Invalid
    BY <1>5, CleanInvOwnFull
  <2>2. OwingFrom(c, l) /\ AskedFrom(c)
    BY <2>1 DEF OwingFrom, Owing, AskedFrom
  <2>3. UniqueFrom(c, l) /\ ModifiedFrom(c, l)
    BY <1>1, <2>1 DEF UniqueFrom, ModifiedFrom, OtherLines, Unique
  <2> QED
    BY <2>2, <2>3 DEF CoreFrom
<1> QED
  BY <1>3, <1>4, <1>5

LEMMA SendAwFrom ==
  ASSUME TypeInv, NEW d \in CORE, SendAw(d), NEW c \in CORE, NEW l \in LINE
  PROVE  CoreFrom(c, l)
<1>1. /\ UNCHANGED <<l1, req>> /\ (d # c => vb'[c] = vb[c])
      /\ vb[d].st = "hold" /\ vb'[d].kind = vb[d].kind /\ vb'[d].line = vb[d].line
  BY SendAwFull
<1>2. OwingFrom(c, l)
  BY <1>1 DEF OwingFrom, Owing
<1>3. UniqueFrom(c, l) /\ ModifiedFrom(c, l) /\ AskedFrom(c)
  BY <1>1 DEF UniqueFrom, ModifiedFrom, AskedFrom
<1> QED
  BY <1>2, <1>3 DEF CoreFrom

LEMMA CreateFrom ==
  ASSUME TypeInv, NEW d \in CORE, CreateRead(d) \/ CreateWrite(d),
         NEW c \in CORE, NEW l \in LINE
  PROVE  CoreFrom(c, l)
<1>1. CASE CreateRead(d)
  <2>1. /\ UNCHANGED <<l1, vb>>
        /\ req'[c].kind = req[c].kind /\ req'[c].line = req[c].line
    <3>1. /\ d # c => req'[c] = req[c]
          /\ req'[d].kind = req[d].kind /\ req'[d].line = req[d].line
      BY <1>1, CreateReadFull
    <3> QED
      BY <1>1, <3>1 DEF CreateRead
  <2> QED
    BY <2>1 DEF CoreFrom, OwingFrom, Owing, UniqueFrom, ModifiedFrom, AskedFrom
<1>2. CASE CreateWrite(d)
  <2>1. UNCHANGED <<l1, req>> /\ (d # c => vb'[c] = vb[c]) /\ vb'[d].st = "sab"
    BY <1>2, CreateWriteFull DEF CreateWrite
  <2> QED
    BY <2>1 DEF CoreFrom, OwingFrom, Owing, UniqueFrom, ModifiedFrom, AskedFrom
<1> QED
  BY <1>1, <1>2

LEMMA SnpRespFrom ==
  ASSUME TypeInv, NEW s \in SID, NEW d \in CORE, SnpResp(s, d),
         NEW c \in CORE, NEW l \in LINE
  PROVE  CoreFrom(c, l)
<1> DEFINE m == sab[s].line
           k == acsnoop(sab[s])
<1>1. /\ m \in LINE
      /\ d # c => vb'[c] = vb[c]
      /\ vb'[d] = NoVB \/ vb'[d] = vb[d]
      /\ OtherLines(d, m)
      /\ k = "CI" => l1'[d][m] = Invalid
      /\ k = "CS" => l1'[d][m].st = IF l1[d][m].st = "I" THEN "I" ELSE "S"
      /\ k \notin {"CI", "CS"} => l1'[d][m].st = l1[d][m].st
  BY SnpRespFull
<1>2. UNCHANGED req
  BY DEF SnpResp
<1> HIDE DEF k, m
<1>3. ~(c = d /\ l = m) => l1'[c][l] = l1[c][l]
  BY <1>1 DEF OtherLines
<1>4. l1'[d][m].st \in {"I", "S"} \/ l1'[d][m].st = l1[d][m].st
  BY <1>1 DEF Invalid
<1>5. OwingFrom(c, l)
  BY <1>1 DEF OwingFrom, Owing, NoVB
<1>6. UniqueFrom(c, l) /\ ModifiedFrom(c, l)
  BY <1>3, <1>4 DEF UniqueFrom, ModifiedFrom, Unique
<1> QED
  BY <1>2, <1>5, <1>6 DEF CoreFrom, AskedFrom

LEMMA AnswerFrom ==
  ASSUME TypeInv, NEW s \in SID, SendB(s) \/ SendR(s), NEW c \in CORE, NEW l \in LINE
  PROVE  CoreFrom(c, l)
<1>1. CASE SendB(s)
  <2>1. UNCHANGED <<l1, req>> /\ vb'[c] = IF c = sab[s].mid THEN NoVB ELSE vb[c]
    BY <1>1, SendBFull DEF SendB
  <2>2. OwingFrom(c, l)
    BY <2>1 DEF OwingFrom, Owing, NoVB
  <2> QED
    BY <2>1, <2>2 DEF CoreFrom, UniqueFrom, ModifiedFrom, AskedFrom
<1>2. CASE SendR(s)
  <2> DEFINE e == sab[s]
  <2>1. /\ e.mid \in CORE /\ e.line \in LINE
        /\ req'[c] = IF c = e.mid THEN NoReq ELSE req[c]
        /\ OtherLines(e.mid, e.line)
        /\ e.kind = "rs" => l1'[e.mid][e.line] = [st |-> IF e.l1_sh THEN "S" ELSE "E", new |-> e.new]
        /\ e.kind = "ru" => l1'[e.mid][e.line] = [st |-> "E", new |-> e.new]
        /\ e.kind = "cu" /\ l1[e.mid][e.line].st = "S" => l1'[e.mid][e.line].st = "E"
        /\ e.kind \notin {"rs", "ru"} /\ ~(e.kind = "cu" /\ l1[e.mid][e.line].st = "S")
             => l1'[e.mid][e.line].st = l1[e.mid][e.line].st
    BY <1>2, SendRFull
  <2>2. UNCHANGED vb
    BY <1>2 DEF SendR
  <2>3. /\ e.kind \in {"rs", "ru", "cu"} => l1'[e.mid][e.line].st # "M" \/ l1[e.mid][e.line].st = "M"
        /\ e.kind \notin {"rs", "ru", "cu"} => l1'[e.mid][e.line].st = l1[e.mid][e.line].st
    BY <2>1
  <2>4. ~(c = e.mid /\ l = e.line) => l1'[c][l] = l1[c][l]
    BY <2>1 DEF OtherLines
  <2>5. UniqueFrom(c, l) /\ ModifiedFrom(c, l)
    BY <1>2, <2>3, <2>4 DEF UniqueFrom, ModifiedFrom
  <2>6. AskedFrom(c)
    BY <2>1 DEF AskedFrom, NoReq
  <2>7. OwingFrom(c, l)
    BY <2>2 DEF OwingFrom, Owing
  <2> QED
    BY <2>5, <2>6, <2>7 DEF CoreFrom
<1> QED
  BY <1>1, <1>2

LEMMA CoreSide ==
  ASSUME TypeInv, [Next]_vars, NEW c \in CORE, NEW l \in LINE
  PROVE  CoreFrom(c, l)
<1>1. CASE UNCHANGED vars
  BY <1>1, CoreUnchanged DEF vars
<1>2. ASSUME NEW d \in CORE, CoreStep(d)
      PROVE  CoreFrom(c, l)
  BY <1>2, IssueReadFrom, StoreFrom, LeavesFrom, SendAwFrom DEF CoreStep
<1>3. ASSUME NEW d \in CORE, CreateStep(d)
      PROVE  CoreFrom(c, l)
  BY <1>3, CreateFrom DEF CreateStep
<1>4. ASSUME NEW s \in SID, EntryStep(s)
      PROVE  CoreFrom(c, l)
  <2>1. CASE \E d \in CORE : SnpResp(s, d)
    BY <2>1, SnpRespFrom
  <2>2. CASE SendB(s) \/ SendR(s)
    BY <2>2, AnswerFrom
  <2>3. CASE ~(\E d \in CORE : SnpResp(s, d)) /\ ~SendB(s) /\ ~SendR(s)
    <3>1. UNCHANGED <<l1, vb, req>>
      BY <1>4, <2>3 DEF EntryStep, WriteData, LeaveDepd, L2Lookup, L2Allocate, L2Write,
         LeaveL2, LeaveSnop, MemRead, LeaveMemr, MemWrite, Pop, Step
    <3> QED
      BY <3>1, CoreUnchanged
  <2> QED
    BY <2>1, <2>2, <2>3
<1> QED
  BY <1>1, <1>2, <1>3, <1>4 DEF Next
-----------------------------------------------------------------------------
(***************************************************************************)
(* How it is forgotten that a core may have a line: the snoop has reached   *)
(* the core, the core's own write has told the L2 that it left, or the L2   *)
(* gives the line up.                                                      *)
(***************************************************************************)
Forgets(s, c, l) ==
  /\ sab[s].line = l
  /\ \/ SnpResp(s, c) /\ Taker(sab[s])
     \/ L2Lookup(s) /\ sab[s].st = "L2C" /\ Goes(sab[s].kind) /\ sab[s].mid = c
     \/ L2Write(s) /\ Gone(sab[s])

\* The CP bit of a read that writes the L2.
LEMMA WritesFilter ==
  ASSUME OrderInv, TurnInv, CopyInv, NEW s \in SID, L2Write(s),
         sab[s].kind \in {"rs", "ru"}, NEW c, c = sab[s].mid, NEW l, l = sab[s].line
  PROVE  InFilter(c, l)'
<1> DEFINE e == sab[s]
<1>1. TypeInv /\ e.st = "L2CW" /\ e.l2c_req
  BY DEF OrderInv, L2Write, Granted
<1>2. ~Gone(e) /\ (Hit(l) # {} \/ Writes(e)) =>
           \E v \in Hit(l)' : set_cp(e) \subseteq l2'[v].cp
  BY <1>1, WrittenWays DEF CopyInv
<1>3. rd_alct(e) /\ ~Gone(e) /\ set_cp(e) = {c}
  BY DEF rd_alct, rs, Gone, inv, set_cp
<1>4. ~Writes(e) => e.l2_hit
  BY <1>3 DEF Writes, wtud, wtuc
<1>5. Looked(e)
  BY <1>1 DEF Looked, Acting
<1>6. Hit(l) # {} \/ Writes(e)
  BY <1>1, <1>3, <1>4, <1>5 DEF CopyInv, HitStays, NeedsHit
<1>7. PICK v \in Hit(l)' : set_cp(e) \subseteq l2'[v].cp
  BY <1>2, <1>3, <1>6
<1>8. c \in l2'[v].cp
  BY <1>3, <1>7
<1> QED
  BY <1>7, <1>8 DEF InFilter

LEMMA LookupFilter ==
  ASSUME TypeInv, CopyInv, NEW s \in SID, L2Lookup(s),
         NEW c \in CORE, NEW l \in LINE, InFilter(c, l)
  PROVE  \/ InFilter(c, l)'
         \/ Forgets(s, c, l)
         \/ sab'[s].line = l /\ Taker(sab'[s]) /\ c \in Holds(sab'[s])
<1> DEFINE e == sab[s]
           f == sab'[s]
<1>1. /\ LooksUp(e, f) /\ SameTags
      /\ \A w \in WAY : l2'[w].cp = IF ClearsCp(e, w) THEN l2[w].cp \ clr_cp(e)
                                                      ELSE l2[w].cp
  BY L2LookupFull
<1>2. \A m : Hit(m)' = Hit(m)
  BY <1>1 DEF SameTags, Hit
<1>3. PICK w \in Hit(l) : c \in l2[w].cp
  BY DEF InFilter
<1>4. CASE c \in l2'[w].cp
  BY <1>2, <1>3, <1>4 DEF InFilter
<1>5. CASE c \notin l2'[w].cp
  <2>1. w \in WAY /\ l2[w].tag = l
    BY <1>3 DEF Hit
  <2>2. ClearsCp(e, w) /\ c \in clr_cp(e)
    BY <1>1, <1>3, <1>5, <2>1
  <2>3. w = HitWay(e.line) /\ Hit(e.line) # {} /\ e.st = "L2C"
    BY <2>2 DEF ClearsCp
  <2>4. e.line = l
    BY <2>1, <2>3, HitWayIn DEF Hit
  <2>5. CASE Goes(e.kind)
    <3>1. c = e.mid
      BY <2>2, <2>5 DEF Goes, clr_cp
    <3> QED
      BY <2>3, <2>4, <2>5, <3>1 DEF Forgets
  <2>6. CASE ~Goes(e.kind)
    <3>1. Taker(e) /\ c # e.mid
      BY <2>2, <2>6 DEF Goes, Taker, clr_cp
    <3>2. f.cp = cp_after_mask(e, l2[w].cp) /\ f.kind = e.kind /\ f.line = e.line
      BY <1>1, <2>3 DEF LooksUp, SameRequest
    <3>3. c \in f.cp
      BY <1>3, <3>1, <3>2 DEF Taker, cp_after_mask, wns, evict, inst
    <3> QED
      BY <2>4, <3>1, <3>2, <3>3 DEF Taker, Holds
  <2> QED
    BY <2>5, <2>6
<1> QED
  BY <1>4, <1>5

LEMMA FilterForgets ==
  ASSUME OrderInv, TurnInv, CopyInv, [Next]_vars, NEW c \in CORE, NEW l \in LINE,
         InFilter(c, l)
  PROVE  Known(c, l)' \/ \E s \in SID : Forgets(s, c, l)
<1>1. TypeInv
  BY DEF OrderInv
<1>2. CASE SameFilter
  <2>1. InFilter(c, l)'
    BY <1>2, FilterSame
  <2> QED
    BY <2>1 DEF Known
<1>3. ASSUME NEW d \in CORE, CoreStep(d)
      PROVE  SameFilter
  <2>1. CASE \E m \in LINE : Store(d, m)
    BY <1>1, <2>1, StoreFull DEF SameFilter, WaysButNew
  <2>2. CASE ~\E m \in LINE : Store(d, m)
    BY <1>3, <2>2, FilterUnchanged DEF CoreStep, IssueRead, Replace, CleanOwn, CleanInvOwn, SendAw,
       ToVictimBuffer
  <2> QED
    BY <2>1, <2>2
<1>4. ASSUME NEW d \in CORE, CreateStep(d)
      PROVE  SameFilter
  BY <1>4, FilterUnchanged DEF CreateStep, CreateRead, CreateWrite
<1>5. ASSUME NEW s \in SID, EntryStep(s)
      PROVE  SameFilter \/ L2Lookup(s) \/ L2Write(s)
  <2>1. CASE L2Allocate(s)
    <3>1. /\ \A v \in WAY : v # way_fifo => l2'[v] = l2[v]
          /\ l2'[way_fifo].vld = l2[way_fifo].vld /\ l2'[way_fifo].tag = l2[way_fifo].tag
          /\ l2'[way_fifo].cp = l2[way_fifo].cp
      BY <1>1, <2>1, L2AllocateFull
    <3> QED
      BY <3>1 DEF SameFilter
  <2>2. CASE ~L2Allocate(s) /\ ~L2Lookup(s) /\ ~L2Write(s)
    <3>1. UNCHANGED l2
      BY <1>5, <2>2 DEF EntryStep, WriteData, LeaveDepd,
         LeaveL2, LeaveSnop, MemRead, LeaveMemr, MemWrite, Pop, Step, SendB, SendR, SnpResp
    <3> QED
      BY <3>1, FilterUnchanged
  <2> QED
    BY <2>1, <2>2
<1>6. ASSUME NEW s \in SID, L2Lookup(s)
      PROVE  Known(c, l)' \/ Forgets(s, c, l)
  <2>1. ASSUME sab'[s].line = l /\ Taker(sab'[s]) /\ c \in Holds(sab'[s])
        PROVE  Known(c, l)'
    BY <2>1 DEF Known, Taker, Holds
  <2> QED
    BY <1>1, <1>6, <2>1, LookupFilter DEF Known
<1>7. ASSUME NEW s \in SID, L2Write(s)
      PROVE  Known(c, l)' \/ Forgets(s, c, l)
  <2>1. PICK m : m = sab[s].line
    OBVIOUS
  <2>2. /\ \A k : k # m => Hit(k)' = Hit(k)
        /\ \A k : k # m => \A v \in Hit(k) : l2'[v] = l2[v]
        /\ ~Gone(sab[s]) => \A v \in Hit(m) : v \in Hit(m)' /\ l2[v].cp \subseteq l2'[v].cp
    BY <1>1, <1>7, <2>1, WrittenWays DEF CopyInv
  <2>3. CASE Gone(sab[s]) /\ m = l
    BY <1>7, <2>1, <2>3 DEF Forgets
  <2>4. CASE ~(Gone(sab[s]) /\ m = l)
    <3>1. PICK v \in Hit(l) : c \in l2[v].cp
      BY DEF InFilter
    <3>2. v \in Hit(l)' /\ c \in l2'[v].cp
      BY <2>2, <2>4, <3>1
    <3> QED
      BY <3>2 DEF InFilter, Known
  <2> QED
    BY <2>3, <2>4
<1>8. CASE UNCHANGED vars
  BY <1>2, <1>8, FilterUnchanged DEF vars
<1> QED
  BY <1>2, <1>3, <1>4, <1>5, <1>6, <1>7, <1>8 DEF Next

LEMMA KnownForgets ==
  ASSUME OrderInv, TurnInv, CopyInv, [Next]_vars, NEW c \in CORE, NEW l \in LINE,
         Known(c, l)
  PROVE  Known(c, l)' \/ \E s \in SID : Forgets(s, c, l)
<1>1. TypeInv
  BY DEF OrderInv
<1>2. CASE InFilter(c, l)
  BY <1>2, FilterForgets
<1>3. CASE \E s \in SID : sab[s].line = l /\ Taker(sab[s]) /\ c \in Holds(sab[s])
  <2>1. PICK s \in SID : sab[s].line = l /\ Taker(sab[s]) /\ c \in Holds(sab[s])
    BY <1>3
  <2>2. StateShape(sab[s])
    BY DEF TurnInv, StateShapes
  <2>3. sab[s].st \in {"L2C", "SNOP"} /\ (sab[s].st = "L2C" => ~sab[s].l2c_req)
    BY <2>1, <2>2 DEF StateShape, Holds
  <2>4. Lives(s)
    <3>1. ~Born(s) /\ ~Dies(s)
      BY <2>3 DEF Born, Dies, Valid, Pop
    <3> QED
      BY <3>1, EntryMoves
  <2>5. c \in Holds(sab'[s]) \/ SnpResp(s, c)
    BY <2>1, <2>4 DEF Lives, GoesSnoops
  <2>6. CASE c \in Holds(sab'[s])
    <3>1. sab'[s].line = l /\ Taker(sab'[s])
      BY <2>1, <2>4 DEF Lives, GoesNext, SameName, Taker
    <3> QED
      BY <2>6, <3>1 DEF Known, Taker, Holds
  <2>7. CASE SnpResp(s, c)
    BY <2>1, <2>7 DEF Forgets
  <2> QED
    BY <2>5, <2>6, <2>7
<1>4. CASE \E s \in SID : sab[s].line = l /\ Filled(sab[s]) /\ sab[s].mid = c
  <2>1. PICK s \in SID : sab[s].line = l /\ Filled(sab[s]) /\ sab[s].mid = c
    BY <1>4
  <2>2. Lives(s)
    <3>1. ~Born(s) /\ ~Dies(s)
      BY <2>1 DEF Filled, Born, Dies, Valid, Pop
    <3> QED
      BY <3>1, EntryMoves
  <2>3. Filled(sab'[s]) \/ L2Write(s)
    BY <2>1, <2>2 DEF Lives, GoesSnoops
  <2>4. CASE Filled(sab'[s])
    <3>1. sab'[s].line = l /\ sab'[s].mid = c
      BY <2>1, <2>2 DEF Lives, GoesNext, SameName
    <3> QED
      BY <2>4, <3>1 DEF Known, Filled
  <2>5. CASE L2Write(s)
    <3>1. InFilter(c, l)'
      BY <2>1, <2>5, WritesFilter DEF Filled
    <3> QED
      BY <3>1 DEF Known
  <2> QED
    BY <2>3, <2>4, <2>5
<1> QED
  BY <1>2, <1>3, <1>4 DEF Known

-----------------------------------------------------------------------------
(***************************************************************************)
(* Dirty data on its way down.  Where a core may have stored to a line, an  *)
(* entry that has looked the line up and is to clean it still snoops the    *)
(* core, and the core's write of the line comes in time for it.            *)
(***************************************************************************)
DirtyAt(c, l)  == l1[c][l].st = "M" \/ Owing(c, l)
MayDirty(c, l) == l1[c][l].st \in Unique \/ Owing(c, l)

\* A request whose own core is not snooped: the core has cleaned its copy.
OwnKind == ReadKind \ {"irs", "ro"}
OwnClean == \A c \in CORE : req[c].kind \in OwnKind =>
  /\ ~DirtyAt(c, req[c].line)
  /\ req[c].kind = "cu" => l1[c][req[c].line].st \in {"I", "S"}

\* A line that is leaving is written once, and then no later write of the same
\* core is looked up before it.
LeftOnce == \A s \in SID : ToLeave(sab[s]) => ~Owing(sab[s].mid, sab[s].line)
LeaveLast == \A s, t \in SID :
  /\ s # t /\ ToLeave(sab[s]) /\ wns(sab[t])
  /\ sab[t].mid = sab[s].mid /\ sab[t].line = sab[s].line
  => t \in sab[s].older

\* The line in a victim buffer is known as a copy is.
VictimKnown == \A c \in CORE, l \in LINE : Owing(c, l) => Known(c, l)

\* An entry that leaves the line clean, once it has looked it up.
Cleans(e) == Seeker(e) /\ e.kind # "ro" /\ Looked(e)
Swept == \A s \in SID : Cleans(sab[s]) =>
  \A c \in CORE : MayDirty(c, sab[s].line) =>
    c \in Holds(sab[s]) \/ (c = sab[s].mid /\ ~inst(sab[s]))

OwesInv == OwnClean /\ LeftOnce /\ LeaveLast /\ VictimKnown /\ Swept

LEMMA OwnCleanStep ==
  ASSUME OrderInv, ClaimInv, OwnClean, [Next]_vars
  PROVE  OwnClean'
<1>1. TypeInv /\ TypeInv'
  BY StepOrder DEF OrderInv
<1> SUFFICES ASSUME NEW c \in CORE, req'[c].kind \in OwnKind,
                    NEW l, l = req'[c].line
             PROVE  /\ ~(l1'[c][l].st = "M" \/ Owing(c, l)')
                    /\ req'[c].kind = "cu" => l1'[c][l].st \in {"I", "S"}
  BY DEF OwnClean, DirtyAt, Owing
<1>2. l \in LINE
  BY <1>1 DEF TypeInv, Rest, Requests, OwnKind, ReadKind
<1>3. l1'[c][l].st \in {"I", "S", "E", "M"}
  BY <1>1, <1>2 DEF TypeInv, Rest, Level1, LineInL1
<1>4. OwingFrom(c, l) /\ UniqueFrom(c, l) /\ ModifiedFrom(c, l) /\ AskedFrom(c)
  BY <1>1, <1>2, CoreSide DEF CoreFrom
<1>5. CASE req'[c].kind = req[c].kind /\ req'[c].line = req[c].line
  <2>1. /\ ~DirtyAt(c, l)
        /\ req[c].kind = "cu" => l1[c][l].st \in {"I", "S"}
        /\ req[c].kind \in FillKind => l1[c][l].st = "I"
    BY <1>2, <1>5 DEF OwnClean, ClaimInv, Asking
  <2>2. ~Owing(c, l)'
    BY <1>4, <2>1 DEF OwingFrom, DirtyAt
  <2>3. ~Store(c, l)
    <3> SUFFICES ASSUME Store(c, l) PROVE FALSE
      OBVIOUS
    <3>1. /\ l1[c][l].st \in {"E", "M"}
          /\ ~(req[c].line = l /\ req[c].kind \in {"ci", "csl1", "csl2"})
      BY DEF Store
    <3> QED
      BY <1>2, <1>5, <2>1, <3>1 DEF OwnKind, ReadKind, FillKind
  <2>4. l1'[c][l].st # "M"
    BY <1>4, <2>1, <2>3 DEF ModifiedFrom, DirtyAt
  <2>5. ASSUME req[c].kind = "cu"
        PROVE  l1'[c][l].st \notin Unique
    <3>1. l1[c][l].st \notin Unique
      BY <2>1, <2>5 DEF Unique
    <3>2. ASSUME NEW s \in SID, SendR(s), sab[s].mid = c
          PROVE  FALSE
      <4>1. req'[c] = NoReq
        BY <1>1, <3>2, SendRFull
      <4> QED
        BY <4>1 DEF NoReq, OwnKind, ReadKind
    <3> QED
      BY <1>4, <3>1, <3>2 DEF UniqueFrom
  <2> QED
    BY <1>2, <1>3, <1>5, <2>2, <2>4, <2>5 DEF Unique, Owing
<1>6. CASE \E k \in READS, m \in LINE : IssueRead(c, k, m)
  <2>1. PICK k \in READS, m \in LINE : IssueRead(c, k, m)
    BY <1>6
  <2>2. /\ UNCHANGED <<l1, vb>>
        /\ req'[c] = [kind |-> k, line |-> m, sent |-> FALSE, stored |-> FALSE]
    BY <1>1, <2>1, IssueReadFull
  <2>3. k = req'[c].kind /\ m = l
    BY <1>2, <2>2
  <2>4. vb[c].st = "none" /\ MayIssue(k, l1[c][l].st)
    BY <2>1, <2>3 DEF IssueRead, OwnKind
  <2>5. /\ k \in {"rs", "ru", "ci"} => l1[c][l].st = "I"
        /\ k = "cu" => l1[c][l].st = "S"
        /\ k \in {"csl1", "csl2"} => l1[c][l].st # "M"
    BY <2>4 DEF MayIssue
  <2> QED
    BY <1>2, <2>2, <2>3, <2>4, <2>5 DEF Owing, OwnKind, ReadKind
<1> QED
  BY <1>4, <1>5, <1>6 DEF AskedFrom, OwnKind, ReadKind

\* What a new write finds: its line is in its core's victim buffer, and no other
\* entry is new.
LEMMA NewWrite ==
  ASSUME TypeInv, NEW t \in SID, t \notin Valid, NEW c \in CORE, CreateWrite(c),
         sab'[t].kind = vb[c].kind, sab'[t].line = vb[c].line, sab'[t].mid = c,
         sab'[t].kind \in WriteKind, sab'[t].line \in LINE,
         \A u \in SID \ {t} : MarkedBack(sab[u], sab'[u], t)
  PROVE  /\ wns(sab'[t]) => Owing(sab'[t].mid, sab'[t].line)
         /\ \A l : ~Owing(c, l)'
         /\ UNCHANGED <<l2, rplc, mem, l1, req>>
         /\ sab'[t].mid \in CORE
         /\ \A u \in SID \ {t} : ~Born(u)
<1>1. /\ vb[c].st = "sent" /\ UNCHANGED <<l2, rplc, mem, l1, req>>
      /\ vb'[c].st = "sab"
  BY CreateWriteFull DEF CreateWrite
<1>2. ASSUME NEW u \in SID \ {t}
      PROVE  ~Born(u)
  <2> SUFFICES ASSUME Born(u) PROVE FALSE
    OBVIOUS
  <2>1. sab[u].st = "IDLE" /\ MarkedBack(sab[u], sab'[u], t)
    BY <1>2 DEF Born, Valid
  <2>2. sab[u].kind = "none"
    BY <2>1 DEF TypeInv, Entries, EntryShape
  <2>3. sab'[u].st = "IDLE" /\ sab'[u].kind = "none"
    BY <2>1, <2>2 DEF MarkedBack, SameAccess
  <2> QED
    BY <2>3 DEF Born, BornWrite, BornSeeker, WriteKind
<1> QED
  BY <1>1, <1>2 DEF Owing, wns

LEMMA LeftOnceStep ==
  ASSUME OrderInv, TurnInv, ClaimInv, LeftOnce, [Next]_vars
  PROVE  LeftOnce'
<1>1. TypeInv
  BY DEF OrderInv
<1> SUFFICES ASSUME NEW s \in SID, ToLeave(sab'[s]), NEW c, NEW l,
                    c = sab'[s].mid, l = sab'[s].line, Owing(c, l)'
             PROVE  FALSE
  BY DEF LeftOnce, ToLeave, Goes, Looked, Acting, Owing
<1>2. ~Dies(s)
  BY DEF Dies, IdleEntry, ToLeave, Goes
<1>3. ~Born(s)
  <2> SUFFICES ASSUME Born(s) PROVE FALSE
    OBVIOUS
  <2>1. ~BornSeeker(s)
    BY DEF BornSeeker, ToLeave, Goes, WriteKind
  <2>2. PICK d \in CORE : /\ CreateWrite(d)
            /\ sab'[s].kind = vb[d].kind /\ sab'[s].line = vb[d].line /\ sab'[s].mid = d
            /\ sab'[s].kind \in WriteKind /\ sab'[s].line \in LINE
            /\ \A u \in SID \ {s} : MarkedBack(sab[u], sab'[u], s)
    BY <2>1 DEF Born, BornWrite
  <2>3. s \notin Valid
    BY DEF Born
  <2> QED
    BY <1>1, <2>2, <2>3, NewWrite
<1>4. Lives(s)
  BY <1>2, <1>3, EntryMoves
<1>5. ToLeave(sab[s]) /\ sab'[s].mid = sab[s].mid /\ sab'[s].line = sab[s].line
  BY <1>4 DEF Lives, GoesNext, SameName, ToLeave
<1>6. c \in CORE /\ l \in LINE /\ c = sab[s].mid /\ l = sab[s].line
  BY <1>1, <1>5, Mids
<1>7. ~Owing(c, l) /\ l1[c][l].st = "I"
  BY <1>5, <1>6 DEF LeftOnce, ClaimInv, Left
<1>8. OwingFrom(c, l)
  BY <1>1, <1>6, CoreSide DEF CoreFrom
<1> QED
  BY <1>7, <1>8 DEF OwingFrom

LEMMA LeaveLastStep ==
  ASSUME OrderInv, TurnInv, LeftOnce, LeaveLast, [Next]_vars
  PROVE  LeaveLast'
<1>1. TypeInv /\ TypeInv'
  BY StepOrder DEF OrderInv
<1> SUFFICES ASSUME NEW s \in SID, NEW t \in SID, s # t, ToLeave(sab'[s]), wns(sab'[t]),
                    sab'[t].mid = sab'[s].mid, sab'[t].line = sab'[s].line
             PROVE  t \in sab'[s].older
  BY DEF LeaveLast, ToLeave, Goes, Looked, Acting, wns
<1>2. ~Dies(s) /\ ~Dies(t)
  BY DEF Dies, IdleEntry, ToLeave, Goes, wns
<1>3. ~BornSeeker(s) /\ ~BornSeeker(t)
  BY DEF BornSeeker, ToLeave, Goes, WriteKind, wns
<1>4. CASE BornWrite(s) /\ s \notin Valid
  <2>1. ~Born(t)
    BY <1>1, <1>4, NewWrite DEF BornWrite
  <2>2. Lives(t)
    BY <1>2, <2>1, EntryMoves
  <2>3. wns(sab[t])
    BY <2>2 DEF Lives, GoesNext, SameName, wns
  <2>4. t \in Valid
    BY <1>1, <2>3 DEF TypeInv, Entries, EntryShape, Valid, wns
  <2> QED
    BY <1>4, <2>4 DEF BornWrite
<1>5. CASE BornWrite(t) /\ t \notin Valid
  <2>1. PICK c \in CORE : /\ CreateWrite(c)
            /\ sab'[t].kind = vb[c].kind /\ sab'[t].line = vb[c].line /\ sab'[t].mid = c
            /\ sab'[t].kind \in WriteKind /\ sab'[t].line \in LINE
            /\ \A u \in SID \ {t} : MarkedBack(sab[u], sab'[u], t)
    BY <1>5 DEF BornWrite
  <2>2. Owing(sab'[t].mid, sab'[t].line)
    BY <1>1, <1>5, <2>1, NewWrite
  <2>3. MarkedBack(sab[s], sab'[s], t)
    BY <2>1
  <2>4. ToLeave(sab[s]) /\ sab'[s].mid = sab[s].mid /\ sab'[s].line = sab[s].line
    BY <2>3 DEF MarkedBack, SameAccess, ToLeave, Looked, Acting
  <2> QED
    BY <2>2, <2>4 DEF LeftOnce
<1>6. CASE Lives(s) /\ Lives(t)
  <2>1. /\ ToLeave(sab[s]) /\ sab'[s].mid = sab[s].mid /\ sab'[s].line = sab[s].line
        /\ wns(sab[t]) /\ sab'[t].mid = sab[t].mid /\ sab'[t].line = sab[t].line
    BY <1>6 DEF Lives, GoesNext, SameName, ToLeave, wns
  <2>2. t \in sab[s].older
    BY <2>1 DEF LeaveLast
  <2>3. sab'[t].st # "IDLE"
    BY <1>1 DEF TypeInv, Entries, EntryShape, wns
  <2> QED
    BY <1>6, <2>2, <2>3 DEF Lives, GoesRest
<1> QED
  BY <1>2, <1>3, <1>4, <1>5, <1>6, EntryMoves DEF Born

\* A snoop that cleans leaves nothing to write back.
LEMMA SnoopedClean ==
  ASSUME TypeInv, NEW s \in SID, NEW c \in CORE, SnpResp(s, c),
         Seeker(sab[s]), sab[s].kind # "ro", NEW l, l = sab[s].line
  PROVE  ~Owing(c, l)' /\ l1'[c][l].st \notin Unique
<1> DEFINE k == acsnoop(sab[s])
<1>1. k \in {"CI", "CS"}
  BY DEF acsnoop, Seeker, ReadKind, rs
<1>2. /\ l \in LINE
      /\ vb'[c] = IF Cancel(c, l) \/ (Bypass(c, l) /\ k # "RO") THEN NoVB ELSE vb[c]
      /\ k = "CI" => l1'[c][l] = Invalid
      /\ k = "CS" => l1'[c][l].st = IF l1[c][l].st = "I" THEN "I" ELSE "S"
  BY SnpRespFull
<1>3. vb[c].line = l => vb[c].st = "hold"
  BY DEF SnpResp
<1> HIDE DEF k
<1>4. l1'[c][l].st \in {"I", "S"}
  BY <1>1, <1>2 DEF Invalid
<1>5. ~Owing(c, l)'
  BY <1>1, <1>2, <1>3 DEF Owing, Cancel, Bypass, NoVB
<1> QED
  BY <1>4, <1>5 DEF Unique

\* A core whose line is known is snooped, or it is the one that asks.
LEMMA LookedUp ==
  ASSUME OrderInv, TurnInv, CopyInv, NEW s \in SID, L2Lookup(s),
         sab[s].st = "L2C", Seeker(sab[s]),
         NEW c \in CORE, NEW l, l = sab[s].line, Known(c, l)
  PROVE  c \in Holds(sab'[s]) \/ (c = sab[s].mid /\ ~inst(sab[s]))
<1> DEFINE e == sab[s]
<1>1. TypeInv /\ StateShape(e) /\ e.l2c_req /\ Acting(e)
  BY DEF OrderInv, TurnInv, StateShapes, L2Lookup, Granted, Acting
<1>2. l \in LINE
  BY <1>1, ActingLine
<1>3. \A t \in SID \ {s} : Silent(t)
  BY <1>1, OthersSilent
<1>4. Holds(e) = {} /\ ~Filled(e)
  BY <1>1 DEF StateShape, Holds, Filled
<1>5. InFilter(c, l)
  BY <1>2, <1>3, <1>4, SilentKnown
<1>6. PICK w \in Hit(l) : c \in l2[w].cp
  BY <1>5 DEF InFilter
<1>7. HitWay(l) = w
  BY <1>6, HitWayIn DEF CopyInv, OneTag, Hit
<1>8. sab'[s].cp = cp_after_mask(e, l2[w].cp)
  BY <1>1, <1>6, <1>7, L2LookupFull DEF LooksUp
<1>9. inst(e) \/ c # e.mid => c \in cp_after_mask(e, l2[w].cp)
  BY <1>6 DEF cp_after_mask, wns, evict, Seeker, ReadKind
<1> QED
  BY <1>8, <1>9 DEF Holds

\* Nothing of a line is on its way down when the L2 gives it up.
LEMMA GoneNotOwed ==
  ASSUME OrderInv, TurnInv, ClaimInv, OwnClean, Swept, NEW s \in SID,
         inv(sab[s]), sab[s].st = "L2CW", NEW c \in CORE
  PROVE  ~Owing(c, sab[s].line)
<1> DEFINE e == sab[s]
<1>1. StateShape(e) /\ e.kind \in {"ci", "snpl2"}
  BY DEF TurnInv, StateShapes, inv
<1>2. Holds(e) = {} /\ Cleans(e)
  BY <1>1 DEF StateShape, Holds, Cleans, Seeker, ReadKind, Looked, Acting
<1>3. CASE c # e.mid
  BY <1>2, <1>3 DEF Swept, MayDirty
<1>4. CASE c = e.mid
  <2>1. e.kind = "ci"
    BY <1>1, <1>4, SizeAssumption DEF StateShape, snpl2
  <2>2. Open(e)
    BY <1>1, <2>1 DEF StateShape, Open, ReadKind, cml2
  <2>3. req[c].kind = "ci" /\ req[c].line = e.line
    BY <1>4, <2>1, <2>2 DEF ClaimInv, Answering
  <2> QED
    BY <2>3 DEF OwnClean, OwnKind, ReadKind, DirtyAt
<1> QED
  BY <1>3, <1>4

LEMMA VictimKnownStep ==
  ASSUME OrderInv, TurnInv, ClaimInv, CopyInv, OwesInv, [Next]_vars
  PROVE  VictimKnown'
<1>1. TypeInv
  BY DEF OrderInv
<1> SUFFICES ASSUME NEW c \in CORE, NEW l \in LINE, Owing(c, l)'
             PROVE  Known(c, l)'
  BY DEF VictimKnown
<1>2. OwingFrom(c, l)
  BY <1>1, CoreSide DEF CoreFrom
<1>3. CASE Owing(c, l)
  <2>1. Known(c, l)
    BY <1>3 DEF OwesInv, VictimKnown
  <2>2. ASSUME NEW s \in SID, Forgets(s, c, l)
        PROVE  FALSE
    <3>1. sab[s].line = l
      BY <2>2 DEF Forgets
    <3>2. CASE SnpResp(s, c) /\ Taker(sab[s])
      <4>1. Seeker(sab[s]) /\ sab[s].kind # "ro"
        BY <3>2 DEF Taker, Seeker, ReadKind
      <4> QED
        BY <1>1, <3>1, <3>2, <4>1, SnoopedClean
    <3>3. CASE L2Lookup(s) /\ sab[s].st = "L2C" /\ Goes(sab[s].kind) /\ sab[s].mid = c
      <4>1. ToLeave(sab[s])
        BY <3>3 DEF L2Lookup, Granted, ToLeave, Looked
      <4> QED
        BY <1>3, <3>1, <3>3, <4>1 DEF OwesInv, LeftOnce
    <3>4. CASE L2Write(s) /\ Gone(sab[s])
      <4>1. inv(sab[s]) /\ sab[s].st = "L2CW"
        BY <3>4 DEF Gone, L2Write
      <4> QED
        BY <1>3, <3>1, <4>1, GoneNotOwed DEF OwesInv
    <3> QED
      BY <2>2, <3>2, <3>3, <3>4 DEF Forgets
  <2> QED
    BY <2>1, <2>2, KnownForgets
<1>4. CASE l1[c][l].st = "M" /\ UNCHANGED <<sab, l2>>
  <2>1. Known(c, l)
    BY <1>4 DEF CopyInv, Inclusion
  <2>2. Hit(l)' = Hit(l) /\ InFilter(c, l)' = InFilter(c, l)
    BY <1>4 DEF Hit, InFilter
  <2> QED
    BY <1>4, <2>1, <2>2 DEF Known, Taker, Holds, Filled
<1> QED
  BY <1>2, <1>3, <1>4 DEF OwingFrom

LEMMA SweptStep ==
  ASSUME OrderInv, TurnInv, ClaimInv, CopyInv, OwesInv, [Next]_vars
  PROVE  Swept'
<1>1. TypeInv
  BY DEF OrderInv
<1> SUFFICES ASSUME NEW s \in SID, Cleans(sab'[s]), NEW c \in CORE,
                    NEW l, l = sab'[s].line, l1'[c][l].st \in Unique \/ Owing(c, l)'
             PROVE  c \in Holds(sab'[s]) \/ (c = sab'[s].mid /\ ~inst(sab'[s]))
  BY DEF Swept, Cleans, Seeker, Looked, Acting, Holds, inst, MayDirty, Owing
<1>2. Lives(s)
  <2>1. ~Dies(s)
    BY DEF Dies, IdleEntry, Cleans, Looked, Acting
  <2>2. ~Born(s)
    BY DEF Born, BornWrite, BornSeeker, Cleans, Looked, Acting
  <2> QED
    BY <2>1, <2>2, EntryMoves
<1>3. /\ SameName(sab[s], sab'[s]) /\ Seeker(sab[s]) /\ sab[s].kind # "ro"
      /\ Looked(sab[s]) \/ (L2Lookup(s) /\ sab[s].st = "L2C")
  BY <1>2 DEF Lives, GoesNext, SameName, Cleans, Seeker
<1>4. Acting(sab[s]) /\ l = sab[s].line /\ l \in LINE
  BY <1>1, <1>3, ActingLine DEF Looked, Acting, SameName
<1>5. OwingFrom(c, l) /\ UniqueFrom(c, l)
  BY <1>1, <1>4, CoreSide DEF CoreFrom
<1>6. inst(sab'[s]) <=> inst(sab[s])
  BY <1>3 DEF SameName, inst
<1>7. CASE Looked(sab[s]) /\ MayDirty(c, l)
  <2>1. c \in Holds(sab[s]) \/ (c = sab[s].mid /\ ~inst(sab[s]))
    BY <1>3, <1>4, <1>7 DEF OwesInv, Swept, Cleans
  <2>2. CASE c \in Holds(sab[s])
    <3>1. ~SnpResp(s, c)
      BY <1>1, <1>3, <1>4, SnoopedClean
    <3> QED
      BY <1>2, <2>2, <3>1 DEF Lives, GoesSnoops
  <2> QED
    BY <1>3, <1>6, <2>1, <2>2 DEF SameName
<1>8. CASE Looked(sab[s]) /\ ~MayDirty(c, l)
  <2>1. PICK u \in SID : /\ SendR(u) /\ sab[u].mid = c /\ sab[u].line = l
                         /\ sab[u].kind \in {"rs", "ru", "cu"}
    BY <1>5, <1>8 DEF OwingFrom, UniqueFrom, MayDirty, Unique
  <2>2. sab[u].st \in {"L2CW", "POP"}
    BY <2>1 DEF SendR, TurnInv, StateShapes, StateShape
  <2>3. u = s
    <3> SUFFICES ASSUME u # s PROVE FALSE
      OBVIOUS
    <3>1. Seeker(sab[u]) /\ Acting(sab[u])
      BY <2>1, <2>2 DEF Seeker, ReadKind, Acting
    <3> QED
      BY <1>3, <1>4, <2>1, <2>2, <3>1, NoTwo DEF snpl2
  <2> QED
    BY <1>3, <1>6, <2>1, <2>3 DEF SameName, inst
<1>9. CASE L2Lookup(s) /\ sab[s].st = "L2C"
  <2>1. UNCHANGED <<l1, vb>>
    BY <1>9 DEF L2Lookup
  <2>2. l1[c][l].st # "I" \/ Owing(c, l)
    BY <2>1 DEF Owing, Unique
  <2>3. Known(c, l)
    BY <1>4, <2>2 DEF OwesInv, VictimKnown, CopyInv, Inclusion
  <2>4. c \in Holds(sab'[s]) \/ (c = sab[s].mid /\ ~inst(sab[s]))
    BY <1>3, <1>4, <1>9, <2>3, LookedUp
  <2> QED
    BY <1>3, <1>6, <2>4 DEF SameName
<1> QED
  BY <1>3, <1>7, <1>8, <1>9

LEMMA InitOwes == Init => OwesInv
<1> SUFFICES ASSUME Init
             PROVE  OwesInv
  OBVIOUS
<1>1. /\ \A s \in SID : sab[s].st = "IDLE" /\ sab[s].kind = "none"
      /\ \A c \in CORE, l \in LINE : l1[c][l].st = "I"
      /\ \A c \in CORE : vb[c].st = "none" /\ req[c].kind = "none"
  BY DEF Init, IdleEntry, NoVB, NoReq
<1> QED
  BY <1>1 DEF OwesInv, OwnClean, OwnKind, ReadKind, LeftOnce, LeaveLast, ToLeave, Goes,
     VictimKnown, Owing, Swept, Cleans, Looked, Acting

LEMMA StepOwes ==
  OrderInv /\ TurnInv /\ ClaimInv /\ CopyInv /\ OwesInv /\ [Next]_vars => OwesInv'
<1> SUFFICES ASSUME OrderInv, TurnInv, ClaimInv, CopyInv, OwesInv, [Next]_vars
             PROVE  OwesInv'
  OBVIOUS
<1>1. OwnClean' /\ LeftOnce' /\ LeaveLast'
  BY OwnCleanStep, LeftOnceStep, LeaveLastStep DEF OwesInv
<1>2. VictimKnown' /\ Swept'
  BY VictimKnownStep, SweptStep
<1> QED
  BY <1>1, <1>2 DEF OwesInv

-----------------------------------------------------------------------------
(***************************************************************************)
(* The writes that come while an entry cleans the line.  The entry waits   *)
(* for them; once it has the line clean, only the core it has answered     *)
(* since writes the line.  Until a write is looked up, its line is known   *)
(* as a copy is, or an entry that takes the line away waits for the write. *)
(***************************************************************************)
OwnWrite == \A s, t \in SID :
  /\ Open(sab[s]) /\ Acting(sab[s]) /\ sab[s].kind \in OwnKind
  /\ wns(sab[t]) /\ sab[t].mid = sab[s].mid
  => sab[t].line # sab[s].line

Settled(e) == Cleans(e) /\ e.st # "SNOP" /\ Holds(e) = {}
Late(s, t) == sab[t].mid = sab[s].mid /\ sab[s].resp = "sent"
NoLateWrite == \A s, t \in SID :
  Cleans(sab[s]) /\ wns(sab[t]) /\ sab[t].line = sab[s].line =>
    /\ t \in sab[s].depd \/ Late(s, t)
    /\ Settled(sab[s]) => Late(s, t)

TakesAway(s, l) ==
  sab[s].line = l /\ Taker(sab[s]) /\ Cleans(sab[s]) /\ ~Settled(sab[s])
WnsKnown == \A t \in SID : wns(sab[t]) /\ ~Looked(sab[t]) =>
  Known(sab[t].mid, sab[t].line) \/ \E s \in SID : TakesAway(s, sab[t].line)

LateInv == OwnWrite /\ NoLateWrite /\ WnsKnown

\* A write names a core and a line.
LEMMA WnsNames ==
  ASSUME TypeInv, NEW t \in SID, wns(sab[t])
  PROVE  /\ sab[t].mid \in CORE /\ sab[t].line \in LINE
         /\ t \in WnsEntries /\ t \in Valid /\ AWrite(sab[t])
<1>1. AWrite(sab[t])
  BY DEF AWrite, wns, WriteKind
<1>2. t \in Valid
  BY <1>1, WritesValid
<1> QED
  BY <1>1, <1>2, WritesValid, InUse DEF Valid, AWrite

LEMMA NoOwnerOfSnpL2 ==
  ASSUME TypeInv, TurnInv, NEW s \in SID, NEW t \in SID, wns(sab[t]), snpl2(sab[s])
  PROVE  sab[t].mid # sab[s].mid
BY WnsNames, SizeAssumption DEF TurnInv, StateShapes, StateShape

LEMMA OwnWriteStep ==
  ASSUME OrderInv, TurnInv, ClaimInv, WriteInv, OwesInv, OwnWrite, [Next]_vars
  PROVE  OwnWrite'
<1>0. TypeInv
  BY DEF OrderInv
<1> SUFFICES ASSUME NEW s \in SID, NEW t \in SID,
                    Open(sab'[s]), Acting(sab'[s]), sab'[s].kind \in OwnKind,
                    wns(sab'[t]), sab'[t].mid = sab'[s].mid, sab'[t].line = sab'[s].line
             PROVE  FALSE
  BY DEF OwnWrite, Open, Acting, wns
<1>1. ~Dies(s) /\ ~Dies(t)
  BY DEF Dies, IdleEntry, Acting, wns
<1>2. ~BornWrite(s) /\ ~BornSeeker(t) /\ s # t
  BY DEF BornWrite, BornSeeker, OwnKind, ReadKind, WriteKind, wns
<1>3. CASE Born(t)
  <2>1. PICK c \in CORE : /\ CreateWrite(c)
            /\ sab'[t].kind = vb[c].kind /\ sab'[t].line = vb[c].line /\ sab'[t].mid = c
            /\ sab'[t].kind \in WriteKind /\ sab'[t].line \in LINE
            /\ \A u \in SID \ {t} : MarkedBack(sab[u], sab'[u], t)
    BY <1>2, <1>3 DEF Born, BornWrite
  <2>2. t \notin Valid
    BY <1>3 DEF Born
  <2>3. Owing(sab'[t].mid, sab'[t].line)
    BY <1>0, <2>1, <2>2, NewWrite
  <2>4. MarkedBack(sab[s], sab'[s], t)
    BY <1>2, <2>1
  <2>5. /\ Open(sab[s]) /\ sab[s].kind \in OwnKind
        /\ sab[s].mid = c /\ sab[s].line = sab'[t].line
    BY <2>1, <2>4 DEF MarkedBack, SameAnswer, Open
  <2>6. req[c].kind \in OwnKind /\ req[c].line = sab'[t].line
    BY <2>5 DEF ClaimInv, Answering
  <2> QED
    BY <2>1, <2>3, <2>6 DEF OwesInv, OwnClean, DirtyAt
<1>4. CASE Lives(t)
  <2>1. /\ wns(sab[t]) /\ sab'[t].mid = sab[t].mid /\ sab'[t].line = sab[t].line
    BY <1>4 DEF Lives, GoesNext, SameName, wns
  <2>2. t \in WnsEntries /\ AWrite(sab[t])
    BY <1>0, <2>1, WnsNames
  <2>3. ~Born(s)
    BY <1>2, <2>2 DEF Born, BornSeeker
  <2>4. Lives(s)
    BY <1>1, <2>3, EntryMoves
  <2>5. /\ SameName(sab[s], sab'[s]) /\ Open(sab[s])
        /\ Acting(sab[s]) \/ (sab[s].st = "DEPD" /\ sab[s].depd = {})
    BY <2>4 DEF Lives, GoesNext, GoesRest, Open, SameName
  <2>6. sab[s].st = "DEPD" => ToMeet(sab[s])
    BY <2>5 DEF ToMeet, Seeker, Open
  <2>7. Acting(sab[s])
    BY <2>2, <2>5, <2>6 DEF WriteInv, WritesMet
  <2> QED
    BY <2>1, <2>5, <2>7 DEF OwnWrite, SameName
<1> QED
  BY <1>1, <1>3, <1>4, EntryMoves

\* An entry that is to clean a line, through a step.
LEMMA CleansOn ==
  ASSUME OrderInv, TurnInv, NEW s \in SID, [Next]_vars, Cleans(sab'[s])
  PROVE  /\ Lives(s) /\ SameName(sab[s], sab'[s])
         /\ Seeker(sab[s]) /\ sab[s].kind # "ro"
         /\ \/ Cleans(sab[s])
            \/ L2Lookup(s) /\ Asks(sab[s]) /\ ~Looked(sab[s])
         /\ Cleans(sab[s]) /\ Settled(sab'[s]) => Settled(sab[s]) \/ LeaveSnop(s)
         /\ sab[s].resp = "sent" /\ sab[s].kind \in ReadKind => sab'[s].resp = "sent"
<1>1. ~Dies(s)
  BY DEF Dies, IdleEntry, Cleans, Looked, Acting
<1>2. ~Born(s)
  BY DEF Born, BornWrite, BornSeeker, Cleans, Looked, Acting
<1>3. Lives(s)
  BY <1>1, <1>2, EntryMoves
<1>4. /\ SameName(sab[s], sab'[s]) /\ Seeker(sab[s]) /\ sab[s].kind # "ro"
      /\ Looked(sab[s]) \/ (L2Lookup(s) /\ sab[s].st = "L2C")
  BY <1>3 DEF Lives, GoesNext, SameName, Cleans, Seeker
<1>5. L2Lookup(s) /\ sab[s].st = "L2C" => Asks(sab[s]) /\ ~Looked(sab[s])
  BY DEF L2Lookup, Granted, Asks, Looked
<1>6. Cleans(sab[s]) /\ Settled(sab'[s]) => Settled(sab[s]) \/ LeaveSnop(s)
  BY <1>3 DEF Lives, GoesSnoops, Settled
<1>7. sab[s].resp = "sent" /\ sab[s].kind \in ReadKind => sab'[s].resp = "sent"
  BY <1>3 DEF Lives, GoesRest
<1> QED
  BY <1>3, <1>4, <1>5, <1>6, <1>7 DEF Cleans

\* A write, through a step.
LEMMA WnsOn ==
  ASSUME OrderInv, TurnInv, NEW t \in SID, [Next]_vars, wns(sab'[t])
  PROVE  /\ \/ BornWrite(t) /\ t \notin Valid
            \/ Lives(t) /\ SameName(sab[t], sab'[t]) /\ wns(sab[t])
         /\ sab'[t].st # "IDLE"
<1>1. TypeInv'
  BY StepOrder DEF OrderInv
<1>2. ~Dies(t) /\ ~BornSeeker(t)
  BY DEF Dies, IdleEntry, BornSeeker, wns, WriteKind
<1>3. sab'[t].st # "IDLE"
  BY <1>1 DEF TypeInv, Entries, EntryShape, wns
<1>4. Lives(t) => SameName(sab[t], sab'[t]) /\ wns(sab[t])
  BY DEF Lives, GoesNext, SameName, wns
<1> QED
  BY <1>2, <1>3, <1>4, EntryMoves DEF Born

\* A write that comes: the entry waits for it, or has answered its core.
LEMMA LateBorn ==
  ASSUME OrderInv, TurnInv, ClaimInv, OwesInv, NEW s \in SID, NEW t \in SID,
         BornWrite(t), t \notin Valid, wns(sab'[t]),
         Cleans(sab'[s]), sab'[t].line = sab'[s].line
  PROVE  /\ t \in sab'[s].depd \/ (sab'[t].mid = sab'[s].mid /\ sab'[s].resp = "sent")
         /\ Holds(sab'[s]) = {} => sab'[t].mid = sab'[s].mid /\ sab'[s].resp = "sent"
<1>1. TypeInv /\ StateShape(sab[s])
  BY DEF OrderInv, TurnInv, StateShapes
<1>2. PICK c \in CORE : /\ CreateWrite(c)
          /\ sab'[t].kind = vb[c].kind /\ sab'[t].line = vb[c].line /\ sab'[t].mid = c
          /\ sab'[t].kind \in WriteKind /\ sab'[t].line \in LINE
          /\ \A u \in SID \ {t} : MarkedBack(sab[u], sab'[u], t)
  BY DEF BornWrite
<1>3. Owing(c, sab'[t].line)
  BY <1>1, <1>2, NewWrite
<1>4. s # t
  BY DEF Cleans, Looked, Acting, BornWrite
<1>5. MarkedBack(sab[s], sab'[s], t)
  BY <1>2, <1>4
<1>6. /\ Cleans(sab[s]) /\ Holds(sab[s]) = Holds(sab'[s]) /\ sab[s].line = sab'[t].line
      /\ sab[s].kind = sab'[s].kind /\ sab[s].mid = sab'[s].mid
      /\ sab[s].resp = sab'[s].resp
      /\ back_mark(sab[s]) => t \in sab'[s].depd
  BY <1>5 DEF MarkedBack, SameAccess, SameAnswer, Cleans, Seeker, Looked, Acting, Holds
<1>7. c \in Holds(sab[s]) \/ (c = sab[s].mid /\ ~inst(sab[s]))
  BY <1>3, <1>6 DEF OwesInv, Swept, MayDirty
<1>8. c \in Holds(sab[s]) => back_mark(sab[s])
  BY <1>1, <1>6 DEF Holds, StateShape, back_mark, Cleans, Seeker, ReadKind, WriteKind
<1>9. ASSUME c = sab[s].mid, ~inst(sab[s])
      PROVE  sab[s].resp = "sent"
  <2>1. sab[s].kind \in OwnKind
    BY <1>1, <1>6, <1>9, SizeAssumption DEF StateShape, snpl2, Cleans, Seeker, inst, OwnKind
  <2>2. ~Open(sab[s])
    BY <1>3, <1>6, <1>9, <2>1 DEF ClaimInv, Answering, OwesInv, OwnClean, DirtyAt
  <2> QED
    BY <2>1, <2>2 DEF Open, OwnKind
<1> QED
  BY <1>2, <1>6, <1>7, <1>8, <1>9

LEMMA NoLateWriteStep ==
  ASSUME OrderInv, TurnInv, ClaimInv, CopyInv, WriteInv, OwesInv, LateInv, [Next]_vars
  PROVE  NoLateWrite'
<1>0. TypeInv
  BY DEF OrderInv
<1> SUFFICES ASSUME NEW s \in SID, NEW t \in SID,
                    Cleans(sab'[s]), wns(sab'[t]), sab'[t].line = sab'[s].line
             PROVE  /\ t \in sab'[s].depd \/ (sab'[t].mid = sab'[s].mid /\ sab'[s].resp = "sent")
                    /\ Settled(sab'[s]) => sab'[t].mid = sab'[s].mid /\ sab'[s].resp = "sent"
  BY DEF NoLateWrite, Cleans, Seeker, Looked, Acting, wns, Settled, Late, Holds
<1>1. CASE BornWrite(t) /\ t \notin Valid
  BY <1>1, LateBorn DEF Settled
<1>2. CASE Lives(t) /\ SameName(sab[t], sab'[t]) /\ wns(sab[t])
  <2>1. /\ Lives(s) /\ SameName(sab[s], sab'[s])
        /\ Seeker(sab[s]) /\ sab[s].kind # "ro"
        /\ Cleans(sab[s]) \/ (L2Lookup(s) /\ Asks(sab[s]) /\ ~Looked(sab[s]))
        /\ Cleans(sab[s]) /\ Settled(sab'[s]) => Settled(sab[s]) \/ LeaveSnop(s)
        /\ sab[s].resp = "sent" /\ sab[s].kind \in ReadKind => sab'[s].resp = "sent"
    BY CleansOn
  <2>2. sab[t].line = sab[s].line /\ AWrite(sab[t]) /\ sab[t].mid \in CORE /\ sab[t].line \in LINE
    BY <1>0, <1>2, <2>1, WnsNames DEF SameName
  <2>3. t \in sab[s].depd => t \in sab'[s].depd
    BY <2>1, WnsOn DEF Lives, GoesRest
  <2>4. Late(s, t) => sab'[t].mid = sab'[s].mid /\ sab'[s].resp = "sent"
    <3>1. Late(s, t) => sab[s].kind \in ReadKind
      BY <1>0, <1>2, <2>1, NoOwnerOfSnpL2 DEF Late, Seeker, snpl2
    <3> QED
      BY <1>2, <2>1, <3>1 DEF Late, SameName
  <2>5. CASE Cleans(sab[s])
    <3>1. /\ t \in sab[s].depd \/ Late(s, t)
          /\ Settled(sab[s]) => Late(s, t)
      BY <1>2, <2>2, <2>5 DEF LateInv, NoLateWrite
    <3>2. LeaveSnop(s) => sab[s].depd = {}
      BY DEF LeaveSnop
    <3> QED
      BY <2>1, <2>3, <2>4, <2>5, <3>1, <3>2
  <2>6. CASE L2Lookup(s) /\ Asks(sab[s]) /\ ~Looked(sab[s])
    <3>1. sab[s].st = "L2C" /\ StateShape(sab[s]) /\ Acting(sab[s])
      BY <2>6 DEF Asks, TurnInv, StateShapes, Acting
    <3>2. ToMeet(sab[s])
      BY <2>1, <3>1 DEF ToMeet
    <3>3. t \in sab[s].depd /\ ~Looked(sab[t])
      BY <2>2, <2>6, <3>2 DEF WriteInv, WritesMet
    <3>4. ASSUME Holds(sab'[s]) = {}
          PROVE  FALSE
      <4>1. ASSUME Known(sab[t].mid, sab[t].line)
            PROVE  FALSE
        <5>1. sab[t].mid = sab[s].mid /\ ~inst(sab[s])
          BY <2>1, <2>2, <2>6, <3>1, <3>4, <4>1, LookedUp
        <5>2. sab[s].kind \in OwnKind /\ Open(sab[s])
          BY <1>0, <1>2, <2>1, <3>1, <5>1, NoOwnerOfSnpL2
             DEF Seeker, snpl2, inst, OwnKind, Open, StateShape
        <5> QED
          BY <1>2, <2>2, <3>1, <5>1, <5>2 DEF LateInv, OwnWrite
      <4>2. ASSUME NEW u \in SID, TakesAway(u, sab[t].line)
            PROVE  FALSE
        <5>1. u # s /\ Seeker(sab[u]) /\ Acting(sab[u])
          BY <2>6, <4>2 DEF TakesAway, Cleans, Looked
        <5>2. sab[u].st = "MEMR"
          BY <2>1, <3>1, <5>1, NoTwo
        <5>3. StateShape(sab[u])
          BY DEF TurnInv, StateShapes
        <5> QED
          BY <4>2, <5>2, <5>3 DEF TakesAway, Settled, Holds, StateShape
      <4> QED
        BY <1>2, <3>3, <4>1, <4>2 DEF LateInv, WnsKnown
    <3> QED
      BY <2>3, <3>3, <3>4 DEF Settled
  <2> QED
    BY <2>1, <2>5, <2>6
<1> QED
  BY <1>1, <1>2, WnsOn

\* What is known of a line is not forgotten for a write to come.
LEMMA BornKnown ==
  ASSUME OrderInv, TurnInv, NEW t \in SID, BornWrite(t), t \notin Valid,
         NEW c \in CORE, NEW l, Known(c, l)
  PROVE  Known(c, l)'
<1>1. TypeInv
  BY DEF OrderInv
<1>2. PICK d \in CORE : /\ CreateWrite(d)
                         /\ \A u \in SID \ {t} : MarkedBack(sab[u], sab'[u], t)
  BY DEF BornWrite
<1>3. UNCHANGED l2
  BY <1>2 DEF CreateWrite
<1>4. InFilter(c, l)' = InFilter(c, l)
  BY <1>3, FilterUnchanged DEF InFilter, Hit
<1>5. Holds(sab[t]) = {} /\ ~Filled(sab[t])
  BY DEF TurnInv, StateShapes, StateShape, Valid, Holds, Filled
<1>6. ASSUME NEW u \in SID, sab[u].line = l,
             (Taker(sab[u]) /\ c \in Holds(sab[u])) \/ (Filled(sab[u]) /\ sab[u].mid = c)
      PROVE  /\ sab'[u].line = l
             /\ \/ Taker(sab'[u]) /\ c \in Holds(sab'[u])
                \/ Filled(sab'[u]) /\ sab'[u].mid = c
  <2>1. u # t
    BY <1>5, <1>6
  <2>2. MarkedBack(sab[u], sab'[u], t)
    BY <1>2, <2>1
  <2> QED
    BY <1>6, <2>2 DEF MarkedBack, SameAccess, SameAnswer, Taker, Holds, Filled
<1> QED
  BY <1>4, <1>6 DEF Known, Taker, Holds, Filled

LEMMA WnsKnownStep ==
  ASSUME OrderInv, TurnInv, ClaimInv, CopyInv, WriteInv, OwesInv, LateInv, [Next]_vars
  PROVE  WnsKnown'
<1>0. TypeInv
  BY DEF OrderInv
<1> SUFFICES ASSUME NEW t \in SID, wns(sab'[t]), ~Looked(sab'[t]),
                    NEW c, c = sab'[t].mid, NEW l, l = sab'[t].line
             PROVE  Known(c, l)' \/ \E s \in SID : TakesAway(s, l)'
  <2>1. ASSUME NEW t \in SID, wns(sab'[t]), ~Looked(sab'[t])
        PROVE  (Known(sab[t].mid, sab[t].line) \/ \E s \in SID : TakesAway(s, sab[t].line))'
    <3>1. /\ Known(sab[t].mid, sab[t].line)' <=> \E c, l : c = sab'[t].mid /\ l = sab'[t].line /\ Known(c, l)'
          /\ \A s \in SID : TakesAway(s, sab[t].line)' <=> \E l : l = sab'[t].line /\ TakesAway(s, l)'
      BY DEF Known, InFilter, Hit, TakesAway
    <3> QED
      BY <2>1, <3>1
  <2> QED
    BY <2>1 DEF WnsKnown
<1>1. CASE BornWrite(t) /\ t \notin Valid
  <2>1. Owing(c, l) /\ c \in CORE /\ l \in LINE
    <3>1. PICK d \in CORE : /\ CreateWrite(d)
            /\ sab'[t].kind = vb[d].kind /\ sab'[t].line = vb[d].line /\ sab'[t].mid = d
            /\ sab'[t].kind \in WriteKind /\ sab'[t].line \in LINE
            /\ \A u \in SID \ {t} : MarkedBack(sab[u], sab'[u], t)
      BY <1>1 DEF BornWrite
    <3> QED
      BY <1>0, <1>1, <3>1, NewWrite
  <2>2. Known(c, l)
    BY <2>1 DEF OwesInv, VictimKnown
  <2> QED
    BY <1>1, <2>1, <2>2, BornKnown
<1>2. CASE Lives(t) /\ SameName(sab[t], sab'[t]) /\ wns(sab[t])
  <2>1. c = sab[t].mid /\ l = sab[t].line /\ c \in CORE /\ l \in LINE /\ AWrite(sab[t])
    BY <1>0, <1>2, WnsNames DEF SameName
  <2>2. ~Looked(sab[t])
    BY <1>2 DEF Lives, GoesNext
  <2>3. CASE Known(c, l)
    <3>1. ASSUME NEW u \in SID, Forgets(u, c, l)
          PROVE  \E s \in SID : TakesAway(s, l)'
      <4>0. StateShape(sab[u]) /\ sab[u].line = l
        BY <3>1 DEF TurnInv, StateShapes, Forgets
      <4>1. CASE SnpResp(u, c) /\ Taker(sab[u])
        <5>0. sab[u].st = "SNOP"
          BY <4>1 DEF SnpResp
        <5>1. Snooped(sab[u], sab'[u], c)
          BY <1>0, <2>1, <4>1, SnpRespFull
        <5>2. sab'[u].st = "SNOP" /\ sab'[u].line = l /\ Taker(sab'[u])
          BY <4>0, <4>1, <5>0, <5>1 DEF Snooped, SameRequest, SameAccess, Taker
        <5>3. TakesAway(u, l)'
          BY <5>2 DEF TakesAway, Taker, Cleans, Settled, Seeker, ReadKind, Looked, Acting
        <5> QED
          BY <5>3
      <4>2. CASE L2Lookup(u) /\ sab[u].st = "L2C" /\ Goes(sab[u].kind) /\ sab[u].mid = c
        <5>1. LooksUp(sab[u], sab'[u]) /\ Asks(sab[u])
          BY <1>0, <4>2, L2LookupFull DEF L2Lookup, Granted, Asks
        <5>2. u # t
          BY <4>2, <5>1 DEF LooksUp, Looked, Acting
        <5>3. ToLeave(sab[u]) /\ AWrite(sab[u]) /\ Acting(sab[u])
          BY <4>2, <5>1 DEF ToLeave, Goes, Looked, Asks, AWrite, WriteKind, Acting
        <5>4. t \in sab[u].older
          BY <1>2, <2>1, <4>0, <4>2, <5>2, <5>3 DEF OwesInv, LeaveLast
        <5> QED
          BY <2>1, <5>3, <5>4 DEF WriteInv, WritesInTurn
      <4>3. CASE L2Write(u) /\ Gone(sab[u])
        <5>1. sab[u].st = "L2CW" /\ sab[u].kind \in {"ci", "snpl2"}
          BY <4>3 DEF L2Write, Gone, inv
        <5>2. Settled(sab[u]) /\ Cleans(sab[u])
          BY <4>0, <5>1 DEF Settled, Cleans, Seeker, ReadKind, Looked, Acting, Holds, StateShape
        <5>3. Late(u, t)
          BY <1>2, <2>1, <4>0, <5>2 DEF LateInv, NoLateWrite
        <5>4. ~snpl2(sab[u])
          BY <1>0, <1>2, <5>3, NoOwnerOfSnpL2 DEF Late
        <5> QED
          BY <4>0, <5>1, <5>3, <5>4 DEF Late, snpl2, StateShape, cml2
      <4> QED
        BY <3>1, <4>1, <4>2, <4>3 DEF Forgets
    <3> QED
      BY <2>1, <2>3, <3>1, KnownForgets
  <2>4. ASSUME NEW u \in SID, TakesAway(u, l)
        PROVE  TakesAway(u, l)'
    <3>0. StateShape(sab[u])
      BY DEF TurnInv, StateShapes
    <3>1. sab[u].line = l /\ Taker(sab[u]) /\ Cleans(sab[u]) /\ ~Settled(sab[u])
      BY <2>4 DEF TakesAway
    <3>2. ~Dies(u) /\ ~Born(u)
      BY <3>0, <3>1 DEF Dies, Pop, Born, Valid, Settled, Cleans, Looked, Acting, Holds, StateShape
    <3>3. Lives(u)
      BY <3>2, EntryMoves
    <3>4. /\ sab'[u].line = l /\ Taker(sab'[u]) /\ Cleans(sab'[u])
      BY <3>1, <3>3 DEF Lives, GoesNext, SameName, Taker, Cleans, Seeker
    <3>5. ASSUME Settled(sab'[u])
          PROVE  FALSE
      <4>1. LeaveSnop(u)
        BY <3>1, <3>4, <3>5, CleansOn
      <4>2. sab[u].depd = {} /\ sab[u].st = "SNOP"
        BY <4>1 DEF LeaveSnop
      <4>3. Late(u, t)
        BY <1>2, <2>1, <3>1, <4>2 DEF LateInv, NoLateWrite
      <4>4. sab[u].kind \in ReadKind
        BY <1>0, <1>2, <3>1, <4>3, NoOwnerOfSnpL2 DEF Late, Taker, snpl2, ReadKind
      <4> QED
        BY <3>0, <4>2, <4>3, <4>4 DEF Late, StateShape
    <3> QED
      BY <3>4, <3>5 DEF TakesAway, Taker, Cleans, Seeker, Looked, Acting, Settled, Holds
  <2>5. Known(c, l) \/ \E s \in SID : TakesAway(s, l)
    BY <1>2, <2>1, <2>2 DEF LateInv, WnsKnown
  <2> QED
    BY <2>3, <2>4, <2>5
<1> QED
  BY <1>1, <1>2, WnsOn

LEMMA InitLate == Init => LateInv
<1> SUFFICES ASSUME Init
             PROVE  LateInv
  OBVIOUS
<1>1. \A s \in SID : sab[s].st = "IDLE" /\ sab[s].kind = "none"
  BY DEF Init, IdleEntry
<1> QED
  BY <1>1 DEF LateInv, OwnWrite, NoLateWrite, WnsKnown, Acting, Cleans, Looked, wns

LEMMA StepLate ==
  OrderInv /\ TurnInv /\ ClaimInv /\ CopyInv /\ WriteInv /\ OwesInv /\ LateInv /\ [Next]_vars
    => LateInv'
<1> SUFFICES ASSUME OrderInv, TurnInv, ClaimInv, CopyInv, WriteInv, OwesInv, LateInv,
                    [Next]_vars
             PROVE  LateInv'
  OBVIOUS
<1>1. OwnWrite'
  BY OwnWriteStep DEF LateInv
<1> QED
  BY <1>1, NoLateWriteStep, WnsKnownStep DEF LateInv

-----------------------------------------------------------------------------
(***************************************************************************)
(* What an entry knows of the L2, and the ways that are given away.        *)
(***************************************************************************)

\* The entry is still to write the L2.
Unwritten(e) == e.st \notin {"POP", "MEMW"} /\ (e.st = "L2CW" => e.l2c_req)

\* What a look-up found stays true until the entry writes.
ReadHit == \A s \in SID :
  Seeker(sab[s]) /\ Looked(sab[s]) /\ Unwritten(sab[s])
    => (sab[s].l2_hit <=> Hit(sab[s].line) # {})

\* An entry snoops cores for a line that it hit.
SnoopsHit == \A s \in SID :
  sab[s].st \in {"SNOP", "L2CR"} \/ Holds(sab[s]) # {} => sab[s].l2_hit

\* So does dirty data that an entry has taken from a core.
PdHit == \A s \in Valid : sab[s].l1_pd =>
  /\ Seeker(sab[s]) /\ Looked(sab[s])
  /\ Unwritten(sab[s]) => sab[s].l2_hit

\* A write of a core always hits.
WriteHit == \A s \in SID : wns(sab[s]) /\ Looked(sab[s]) =>
  /\ sab[s].st # "MEMW" /\ sab[s].l2_hit
  /\ Unwritten(sab[s]) => Hit(sab[s].line) # {}

\* Who reads the memory and who writes it.
MemKinds == \A s \in SID :
  /\ sab[s].st = "MEMR" => rd(sab[s])
  /\ sab[s].st = "MEMW" => cml2(sab[s]) \/ snpl2(sab[s])

\* The line to replace is not the line to come.
SnpLine == \A s \in SID : snpl2(sab[s]) => sab[s].line # sab[sab[s].ini].line

\* At most one way is given away, while a read is to refill it; what is in it is
\* the line of the snoop of the L2.
OnePend == \A v, w \in WAY : l2[v].pend /\ l2[w].pend => v = w
PendHas == \A w \in WAY : l2[w].pend => \E s \in SID : HasWay(sab[s])
HasPend == \A s \in SID : HasWay(sab[s]) => \E w \in WAY : l2[w].pend
PendSnp == \A w \in WAY : l2[w].pend /\ l2[w].vld =>
  \E s \in SID : snpl2(sab[s]) /\ sab[s].line = l2[w].tag /\ Unwritten(sab[s])
PendWays == OnePend /\ PendHas /\ HasPend /\ PendSnp

HitInv == /\ ReadHit /\ SnoopsHit /\ PdHit /\ WriteHit
          /\ MemKinds /\ SnpLine /\ PendWays

\* An entry that goes on, again: what becomes of its hit and of its way.
WorksHit(t) == LET e == sab[t] f == sab'[t] IN
  /\ f.ini = e.ini
  /\ \/ f.l2_hit = e.l2_hit
     \/ L2Lookup(t)
     \/ L2Write(t)
  /\ f.l1_pd = e.l1_pd \/ (e.st = "SNOP" /\ f.st = "SNOP")
  /\ Unwritten(f) => Unwritten(e)
  /\ f.st \in {"SNOP", "L2CR"} => e.st \in {"SNOP", "L2CR"} \/ e.cp # {}
  /\ Holds(f) # {} => Holds(e) # {} \/ (L2Lookup(t) /\ f.l2_hit)
WorksWay(t) == LET e == sab[t] f == sab'[t] IN
  /\ f.st = "MEMW" => \/ e.st = "MEMW" \/ cml2(e) \/ snpl2(e)
                      \/ (wns(e) /\ Looked(e) /\ ~e.l2_hit)
  /\ f.st = "MEMR" => e.st = "MEMR" \/ rd(e)
  /\ \/ HasWay(f) <=> HasWay(e)
     \/ e.st \in {"SNOP", "L2CR"} /\ ~e.l2_hit
     \/ L2Lookup(t) \/ L2Write(t) \/ L2Allocate(t)
  /\ snpl2(e) /\ Unwritten(e) => Unwritten(f) \/ L2Write(t)
Works(t) == WorksHit(t) /\ WorksWay(t)

SameWork(e, f) ==
  /\ SameName(e, f) /\ f.ini = e.ini /\ f.st = e.st /\ f.l2c_req = e.l2c_req
  /\ f.l2_hit = e.l2_hit /\ f.l1_pd = e.l1_pd /\ f.cp = e.cp /\ f.snp = e.snp

LEMMA WorksSame ==
  ASSUME NEW t \in SID, SameWork(sab[t], sab'[t])
  PROVE  Works(t)
<1> DEFINE e == sab[t]
           f == sab'[t]
<1> HIDE DEF e, f
<1>1. /\ f.kind = e.kind /\ f.line = e.line /\ f.mid = e.mid
      /\ f.ini = e.ini /\ f.st = e.st /\ f.l2c_req = e.l2c_req
      /\ f.l2_hit = e.l2_hit /\ f.l1_pd = e.l1_pd /\ f.cp = e.cp /\ f.snp = e.snp
  BY DEF SameWork, SameName, e, f
<1>2. (Unwritten(f) <=> Unwritten(e)) /\ Holds(f) = Holds(e)
  BY <1>1 DEF Unwritten, Holds
<1>3. HasWay(f) <=> HasWay(e)
  BY <1>1 DEF HasWay, rd_alct, rs
<1>4. f.st = "MEMR" => e.st = "MEMR" \/ rd(e)
  BY <1>1
<1>5. WorksHit(t)
  BY <1>1, <1>2 DEF WorksHit, e, f
<1>6. WorksWay(t)
  BY <1>1, <1>2, <1>3 DEF WorksWay, e, f
<1> QED
  BY <1>5, <1>6 DEF Works

LEMMA WorksOnly ==
  ASSUME NEW s \in SID, Only(s), Works(s), NEW t \in SID
  PROVE  Works(t)
<1>1. CASE t # s
  <2>1. sab'[t] = sab[t]
    BY <1>1 DEF Only
  <2> QED
    BY <2>1, WorksSame DEF SameWork, SameName
<1> QED
  BY <1>1

LEMMA MoveWorks ==
  ASSUME TypeInv, TurnInv, NEW s \in SID, NEW to \in MainState, Advances(s, to)
  PROVE  Only(s) /\ Works(s)
<1> DEFINE e == sab[s]
           f == sab'[s]
<1>1. Only(s) /\ GoesTo(e, f, to)
  BY Moved DEF Advances
<1>2. StateShape(e)
  BY DEF TurnInv, StateShapes
<1>3. /\ f.kind = e.kind /\ f.ini = e.ini /\ f.st = to
      /\ f.l2c_req <=> \/ to \in {"L2C", "L2CR", "L2CA", "L2CT"}
                       \/ to = "L2CW" /\ e.kind # "ro"
      /\ f.l2_hit = e.l2_hit /\ f.l1_pd = e.l1_pd
  BY <1>1 DEF GoesTo, SameRequest
<1>4. f.snp = (IF to = "SNOP" THEN e.cp ELSE e.snp) /\ f.cp = {}
  BY <1>1 DEF GoesTo
<1>5. Advances(s, to)
  OBVIOUS
<1> HIDE DEF f, e
<1>6. Holds(f) # {} => Holds(e) # {}
  BY <1>4 DEF Holds
<1>7. Unwritten(f) => Unwritten(e)
  BY <1>3, <1>5 DEF Unwritten, Advances, e
<1>8. WorksHit(s)
  BY <1>3, <1>5, <1>6, <1>7 DEF WorksHit, Advances, e, f
<1>9. to = "MEMW" => \/ cml2(e) \/ snpl2(e) \/ (wns(e) /\ Looked(e) /\ ~e.l2_hit)
  BY <1>5 DEF Advances, Looked, Acting, e
<1>10. to = "MEMR" => rd(e)
  BY <1>5 DEF Advances, rd, e
<1>11. \/ HasWay(f) <=> HasWay(e)
       \/ e.st \in {"SNOP", "L2CR"} /\ ~e.l2_hit
  <2>1. CASE rd_alct(e) /\ ~e.l2_hit /\ e.st \notin {"SNOP", "L2CR"}
    <3>1. e.kind # "ro" /\ ~cml2(e) /\ ~snpl2(e) /\ e.kind # "cu" /\ ~wns(e) /\ ~evict(e) /\ e.kind # "csl1"
      BY <2>1 DEF rd_alct, rs, cml2, snpl2, wns, evict
    <3>2. to = "L2CW" => e.st \in {"MEMR", "L2CT"}
      <4>1. /\ to = "L2CW" /\ e.st = "L2C" => cml2(e) \/ snpl2(e) \/ e.kind = "cu" \/ e.l2_hit
            /\ e.st = "L2CW" => to \in {"MEMW", "POP"}
            /\ e.st = "MEMW" => to = "POP"
            /\ to = "L2C" <=> e.st = "DEPD"
            /\ e.st # "L2CA" /\ e.st \notin {"IDLE", "POP"}
        BY <1>5 DEF Advances, e
      <4>2. e.st \in MainState
        BY InUse DEF EntryType, e
      <4> QED
        BY <2>1, <3>1, <4>1, <4>2 DEF MainState
    <3>3. /\ e.st = "MEMR" => to \in {"L2CT", "L2CW"}
          /\ e.st = "L2CT" => to = "L2CW"
          /\ to = "L2CT" => e.st = "MEMR"
          /\ to = "MEMR" => e.kind = "ro"
          /\ ~e.l2c_req
      BY <1>5 DEF Advances, e
    <3>4. HasWay(f) <=> f.st \in {"MEMR", "L2CT"} \/ (f.st = "L2CW" /\ f.l2c_req)
      BY <1>3, <2>1 DEF HasWay, rd_alct, rs
    <3>5. HasWay(e) <=> e.st \in {"MEMR", "L2CT"}
      BY <2>1, <3>3 DEF HasWay
    <3> QED
      BY <1>3, <3>1, <3>2, <3>3, <3>4, <3>5
  <2>2. CASE ~(rd_alct(e) /\ ~e.l2_hit)
    BY <1>3, <2>2 DEF HasWay, rd_alct, rs
  <2> QED
    BY <2>1, <2>2
<1>12. snpl2(e) /\ Unwritten(e) => Unwritten(f)
  BY <1>3, <1>5 DEF Unwritten, Advances, snpl2, wns, evict, e
<1>13. WorksWay(s)
  BY <1>3, <1>9, <1>10, <1>11, <1>12 DEF WorksWay, e, f
<1> QED
  BY <1>1, <1>8, <1>13 DEF Works

LEMMA CreateWorks ==
  ASSUME TypeInv, NEW c \in CORE, CreateStep(c), NEW t \in SID, t \in Valid
  PROVE  Works(t)
<1>1. CASE CreateRead(c)
  <2>1. PICK n \in SID : n = Lowest(FreeEntries(PiuSid))
    BY <1>1, CreateReadFull
  <2>2. n \notin Valid /\ Only(n)
    BY <1>1, <2>1, CreateReadFull
  <2>3. sab'[t] = sab[t]
    BY <2>2 DEF Only
  <2> QED
    BY <2>3, WorksSame DEF SameWork, SameName
<1>2. CASE CreateWrite(c)
  <2>1. PICK n \in SID : n = Lowest(FreeEntries(WSID))
    BY <1>2, CreateWriteFull
  <2>2. n \notin Valid /\ \A u \in SID \ {n} : MarkedBack(sab[u], sab'[u], n)
    BY <1>2, <2>1, CreateWriteFull
  <2>3. MarkedBack(sab[t], sab'[t], n)
    BY <2>2
  <2>4. SameWork(sab[t], sab'[t])
    BY <2>3 DEF MarkedBack, SameAccess, SameWork, SameName
  <2> QED
    BY <2>4, WorksSame
<1> QED
  BY <1>1, <1>2 DEF CreateStep

LEMMA L2AllocateWorks ==
  ASSUME OrderInv, TurnInv, NEW s \in SID, L2Allocate(s), NEW t \in SID, t \in Valid
  PROVE  Works(t)
<1>1. TypeInv /\ Fetches(sab[s], sab'[s]) /\ sab[s].st = "L2CA"
  BY L2AllocateFull DEF OrderInv, L2Allocate
<1>2. StateShape(sab[s])
  BY DEF TurnInv, StateShapes
<1>3. CASE t = s
  <2> DEFINE e == sab[s]
             f == sab'[s]
  <2>1. /\ f.kind = e.kind /\ f.ini = e.ini /\ f.st = "MEMR" /\ ~f.l2c_req
        /\ f.l2_hit = e.l2_hit /\ f.l1_pd = e.l1_pd /\ f.snp = e.snp /\ f.cp = {}
    BY <1>1 DEF Fetches, SameRequest
  <2>2. e.cp = {} /\ e.snp = {} /\ rd_alct(e) /\ ~snpl2(e)
    BY <1>1, <1>2 DEF StateShape, rd_alct, rs, snpl2
  <2> HIDE DEF e, f
  <2>3. WorksHit(s)
    BY <1>1, <2>1, <2>2 DEF WorksHit, Unwritten, Holds, e, f
  <2>4. WorksWay(s)
    BY <1>1, <2>1, <2>2 DEF WorksWay, rd, rd_alct, e, f
  <2> QED
    BY <1>3, <2>3, <2>4 DEF Works
<1>4. CASE t # s
  <2>1. sab'[t] = sab[t]
    BY <1>1, <1>4, L2AllocateFull DEF Only
  <2> QED
    BY <2>1, WorksSame DEF SameWork, SameName
<1> QED
  BY <1>3, <1>4

LEMMA L2LookupWorks ==
  ASSUME TypeInv, TurnInv, NEW s \in SID, L2Lookup(s)
  PROVE  Only(s) /\ Works(s)
<1> DEFINE e == sab[s]
           f == sab'[s]
<1>1. Only(s) /\ LooksUp(e, f)
  BY L2LookupFull
<1>2. e.l2c_req /\ e.st \in {"L2C", "L2CR", "L2CT"}
  BY DEF L2Lookup, Granted
<1>3. /\ f.ini = e.ini /\ f.st = e.st /\ ~f.l2c_req /\ f.snp = e.snp
      /\ f.l1_pd = e.l1_pd
      /\ f.l2_hit <=> Hit(e.line) # {}
  BY <1>1 DEF LooksUp, SameRequest
<1>4. f.cp # {} => f.l2_hit
  BY <1>1, <1>3 DEF LooksUp
<1> HIDE DEF e, f
<1>5. WorksHit(s)
  BY <1>2, <1>3, <1>4 DEF WorksHit, Unwritten, Holds, e, f
<1>6. WorksWay(s)
  BY <1>2, <1>3 DEF WorksWay, Unwritten, e, f
<1> QED
  BY <1>1, <1>5, <1>6 DEF Works

LEMMA SnpRespWorks ==
  ASSUME TypeInv, TurnInv, NEW s \in SID, NEW c \in CORE, SnpResp(s, c)
  PROVE  Only(s) /\ Works(s)
<1> DEFINE e == sab[s]
           f == sab'[s]
<1>1. Only(s) /\ Snooped(e, f, c)
  BY SnpRespFull
<1>2. /\ f.ini = e.ini /\ f.kind = e.kind /\ f.st = e.st /\ f.l2c_req = e.l2c_req
      /\ f.l2_hit = e.l2_hit /\ f.cp = e.cp /\ f.snp = e.snp \ {c}
  BY <1>1 DEF Snooped, SameRequest, SameAccess
<1>3. e.st = "SNOP"
  BY DEF SnpResp
<1> HIDE DEF e, f
<1>4. WorksHit(s)
  BY <1>2, <1>3 DEF WorksHit, Unwritten, Holds, e, f
<1>5. WorksWay(s)
  BY <1>2, <1>3 DEF WorksWay, Unwritten, HasWay, e, f
<1> QED
  BY <1>1, <1>4, <1>5 DEF Works

LEMMA L2WriteWorks ==
  ASSUME TypeInv, TurnInv, NEW s \in SID, L2Write(s)
  PROVE  Only(s) /\ Works(s) /\ ~Unwritten(sab'[s])
<1> DEFINE e == sab[s]
           f == sab'[s]
<1>1. Only(s) /\ Written(e, f)
  BY L2WriteFull
<1>2. e.l2c_req /\ e.st = "L2CW"
  BY DEF L2Write, Granted
<1>3. /\ f.ini = e.ini /\ f.st = e.st /\ ~f.l2c_req
      /\ f.cp = e.cp /\ f.snp = e.snp /\ f.l1_pd = e.l1_pd
  BY <1>1 DEF Written, SameRequest, SameSnoops
<1> HIDE DEF e, f
<1>4. WorksHit(s)
  BY <1>2, <1>3 DEF WorksHit, Unwritten, Holds, e, f
<1>5. WorksWay(s)
  BY <1>2, <1>3 DEF WorksWay, e, f
<1> QED
  BY <1>1, <1>2, <1>3, <1>4, <1>5 DEF Works, Unwritten, f

\* Every step creates an entry, pops it, or lets it go on in this way.
LEMMA EntryWorks ==
  ASSUME OrderInv, TurnInv, [Next]_vars, NEW t \in SID, t \in Valid
  PROVE  Dies(t) \/ Works(t)
<1>1. TypeInv
  BY DEF OrderInv
<1>2. ASSUME \A u \in SID : SameButNew(sab[u], sab'[u])
      PROVE  Works(t)
  <2>1. SameWork(sab[t], sab'[t])
    BY <1>2 DEF SameButNew, SameRequest, SameSnoops, SameAccess, SameWork, SameName
  <2> QED
    BY <2>1, WorksSame
<1>3. CASE UNCHANGED vars
  BY <1>2, <1>3, SabSame DEF vars
<1>4. ASSUME NEW c \in CORE, CoreStep(c) \/ CreateStep(c)
      PROVE  Works(t)
  BY <1>1, <1>2, <1>4, CoreSame, CreateWorks
<1>5. ASSUME NEW s \in SID, EntryStep(s)
      PROVE  Dies(t) \/ Works(t)
  <2>1. ASSUME Only(s) /\ SameWork(sab[s], sab'[s])
        PROVE  Works(t)
    BY <2>1, WorksSame, WorksOnly
  <2>2. CASE WriteData(s)
    <3>1. Only(s) /\ SameRequest(sab[s], sab'[s]) /\ SameSnoops(sab[s], sab'[s]) /\ SameAccess(sab[s], sab'[s])
      BY <1>1, <2>2, WriteDataFull
    <3> QED
      BY <2>1, <3>1 DEF SameRequest, SameSnoops, SameAccess, SameWork, SameName
  <2>3. CASE LeaveDepd(s) \/ LeaveL2(s) \/ LeaveSnop(s) \/ LeaveMemr(s) \/ MemWrite(s)
    BY <1>1, <2>3, AdvancesTo, MoveWorks, WorksOnly
  <2>4. CASE L2Lookup(s)
    BY <1>1, <2>4, L2LookupWorks, WorksOnly
  <2>5. CASE L2Allocate(s)
    BY <2>5, L2AllocateWorks
  <2>6. CASE L2Write(s)
    BY <1>1, <2>6, L2WriteWorks, WorksOnly
  <2>7. CASE MemRead(s)
    <3>1. /\ Only(s) /\ SameRequest(sab[s], sab'[s]) /\ SameSnoops(sab[s], sab'[s])
          /\ sab'[s].st = sab[s].st /\ sab'[s].l2_hit = sab[s].l2_hit
          /\ sab'[s].l2c_req = sab[s].l2c_req
      BY <1>1, <2>7, MemReadFull
    <3> QED
      BY <2>1, <3>1 DEF SameRequest, SameSnoops, SameWork, SameName
  <2>8. CASE SendB(s) \/ SendR(s)
    <3>1. Only(s) /\ Answered(sab[s], sab'[s])
      BY <1>1, <2>8, SendBFull, SendRFull
    <3> QED
      BY <2>1, <3>1 DEF Answered, SameRequest, SameSnoops, SameAccess, SameWork, SameName
  <2>9. CASE Pop(s)
    <3>1. /\ sab'[s] = IdleEntry
          /\ \A u \in SID \ {s} : Released(sab[u], sab'[u], s, snpl2(sab[s]) /\ sab[s].ini = u)
      BY <1>1, <2>9, PopFull
    <3>2. CASE t = s
      BY <2>9, <3>1, <3>2 DEF Dies
    <3>3. CASE t # s
      <4>1. Released(sab[t], sab'[t], s, snpl2(sab[s]) /\ sab[s].ini = t)
        BY <3>1, <3>3
      <4>2. SameWork(sab[t], sab'[t])
        BY <4>1 DEF Released, SameSnoops, SameWork, SameName
      <4> QED
        BY <4>2, WorksSame
    <3> QED
      BY <3>2, <3>3
  <2>10. CASE \E c \in CORE : SnpResp(s, c)
    BY <1>1, <2>10, SnpRespWorks, WorksOnly
  <2> QED
    BY <1>5, <2>2, <2>3, <2>4, <2>5, <2>6, <2>7, <2>8, <2>9, <2>10 DEF EntryStep
<1> QED
  BY <1>3, <1>4, <1>5 DEF Next

\* Only an allocation and a write of an entry change which lines are where.
SameWays == \A w \in WAY :
  l2'[w].vld = l2[w].vld /\ l2'[w].tag = l2[w].tag /\ l2'[w].pend = l2[w].pend

LEMMA WaysSame ==
  ASSUME TypeInv, [Next]_vars
  PROVE  SameWays \/ \E s \in SID : L2Allocate(s) \/ L2Write(s)
<1>1. UNCHANGED l2 => SameWays
  BY DEF SameWays
<1>2. ASSUME NEW d \in CORE, CoreStep(d)
      PROVE  SameWays
  <2>1. CASE \E m \in LINE : Store(d, m)
    BY <2>1, StoreFull DEF SameWays, WaysButNew
  <2>2. CASE ~\E m \in LINE : Store(d, m)
    BY <1>1, <1>2, <2>2 DEF CoreStep, IssueRead, Replace, CleanOwn, CleanInvOwn, SendAw,
       ToVictimBuffer
  <2> QED
    BY <2>1, <2>2
<1>3. ASSUME NEW d \in CORE, CreateStep(d)
      PROVE  SameWays
  BY <1>1, <1>3 DEF CreateStep, CreateRead, CreateWrite
<1>4. ASSUME NEW s \in SID, EntryStep(s), ~L2Allocate(s), ~L2Write(s)
      PROVE  SameWays
  <2>1. CASE L2Lookup(s)
    BY <2>1, L2LookupFull DEF SameWays, SameTags
  <2>2. CASE ~L2Lookup(s)
    <3>1. UNCHANGED l2
      BY <1>4, <2>2 DEF EntryStep, WriteData, LeaveDepd,
         LeaveL2, LeaveSnop, MemRead, LeaveMemr, MemWrite, Pop, Step, SendB, SendR, SnpResp
    <3> QED
      BY <1>1, <3>1
  <2> QED
    BY <2>1, <2>2
<1>5. CASE UNCHANGED vars
  BY <1>1, <1>5 DEF vars
<1> QED
  BY <1>2, <1>3, <1>4, <1>5 DEF Next

LEMMA HitSame ==
  ASSUME SameWays, NEW l
  PROVE  Hit(l)' = Hit(l)
BY DEF SameWays, Hit

\* A line stays where it is, unless an entry of the line writes.
WritesLine(l) == \E u \in SID :
  /\ L2Write(u) /\ sab[u].line = l
  /\ \/ Gone(sab[u]) /\ Hit(l)' = {}
     \/ ~inv(sab[u]) /\ Hit(l)' # {} /\ (Hit(l) # {} \/ Writes(sab[u]))

LEMMA HitMoves ==
  ASSUME TypeInv, OneTag, [Next]_vars, NEW l
  PROVE  Hit(l)' = Hit(l) \/ WritesLine(l)
<1>1. CASE SameWays
  BY <1>1, HitSame
<1>2. ASSUME NEW s \in SID, L2Allocate(s)
      PROVE  Hit(l)' = Hit(l)
  <2>1. \A w \in WAY : l2'[w].vld = l2[w].vld /\ l2'[w].tag = l2[w].tag
    BY <1>2, L2AllocateFull
  <2> QED
    BY <2>1 DEF Hit
<1>3. ASSUME NEW u \in SID, L2Write(u)
      PROVE  Hit(l)' = Hit(l) \/ WritesLine(l)
  <2>1. PICK m : m = sab[u].line
    OBVIOUS
  <2>2. /\ \A k : k # m => Hit(k)' = Hit(k)
        /\ Gone(sab[u]) => Hit(m)' = {}
        /\ ~Gone(sab[u]) => \A v \in Hit(m) : v \in Hit(m)'
        /\ ~Gone(sab[u]) /\ (Hit(m) # {} \/ Writes(sab[u])) => \E v : v \in Hit(m)'
    BY <1>3, <2>1, WrittenWays
  <2>3. CASE l # m
    BY <2>2, <2>3
  <2>4. CASE l = m /\ Gone(sab[u])
    BY <1>3, <2>1, <2>2, <2>4 DEF WritesLine
  <2>5. CASE l = m /\ ~Gone(sab[u]) /\ (Hit(m) # {} \/ Writes(sab[u]))
    <3>1. Hit(l)' # {}
      BY <2>2, <2>5
    <3>2. ~inv(sab[u])
      <4>1. SUFFICES ASSUME inv(sab[u]) PROVE FALSE
        OBVIOUS
      <4>2. Hit(m) = {}
        BY <2>1, <2>5, <4>1 DEF Gone
      <4>3. Writes(sab[u])
        BY <2>5, <4>2
      <4> QED
        BY <4>1, <4>3 DEF Writes, wtud, wtuc, wns, inv, rd_alct, rs
    <3> QED
      BY <1>3, <2>1, <2>5, <3>1, <3>2 DEF WritesLine
  <2>6. CASE l = m /\ Hit(m) = {} /\ ~Writes(sab[u])
    <3>1. \A v \in WAY : l2'[v] = l2[v]
      BY <1>3, <2>1, <2>6, L2WriteFull
    <3> QED
      BY <3>1 DEF Hit
  <2> QED
    BY <2>3, <2>4, <2>5, <2>6
<1> QED
  BY <1>1, <1>2, <1>3, WaysSame

\* An entry that is served by a look-up or that writes.
LEMMA UnwrittenAt ==
  ASSUME TypeInv, TurnInv, NEW u \in SID, L2Write(u)
  PROVE  /\ sab[u].st = "L2CW" /\ sab[u].l2c_req
         /\ Looked(sab[u]) /\ Unwritten(sab[u]) /\ Acting(sab[u])
         /\ sab[u].line \in LINE /\ Holds(sab[u]) = {}
         /\ ~cml2(sab[u]) \/ sab[u].resp = "no"
<1>1. sab[u].st = "L2CW" /\ sab[u].l2c_req
  BY DEF L2Write, Granted
<1>2. StateShape(sab[u]) /\ sab[u].line \in LINE
  BY <1>1, UsedShape
<1> QED
  BY <1>1, <1>2 DEF StateShape, Looked, Unwritten, Acting, Holds

\* An entry that looks its line up again finds what it found.
LEMMA HitKept ==
  ASSUME OrderInv, TurnInv, ReadHit, NEW t \in SID, L2Lookup(t), Looked(sab[t])
  PROVE  sab'[t].l2_hit = sab[t].l2_hit
<1>1. TypeInv
  BY DEF OrderInv
<1>2. sab[t].st \in {"L2CR", "L2CT"} /\ sab[t].l2c_req
  BY DEF L2Lookup, Granted, Looked, Acting
<1>3. StateShape(sab[t]) /\ sab[t].kind \in Kind \ {"none"} /\ sab[t] \in EntryType
  BY <1>1, <1>2, UsedShape
<1>4. Seeker(sab[t]) /\ Unwritten(sab[t])
  BY <1>2, <1>3 DEF StateShape, Seeker, Kind, Unwritten
<1>5. sab'[t].l2_hit <=> Hit(sab[t].line) # {}
  BY <1>1, L2LookupFull DEF LooksUp
<1>6. sab'[t] \in EntryType
  BY <1>1, L2LookupFull DEF Only
<1> QED
  BY <1>3, <1>4, <1>5, <1>6 DEF ReadHit, EntryType

\* An entry that has looked its line up was there before.
LEMMA LookedOn ==
  ASSUME OrderInv, TurnInv, [Next]_vars, NEW t \in SID, Looked(sab'[t])
  PROVE  /\ Lives(t) /\ Works(t) /\ t \in Valid /\ SameName(sab[t], sab'[t])
         /\ Looked(sab[t]) \/ (L2Lookup(t) /\ sab[t].st = "L2C")
<1>1. sab'[t].st \notin {"IDLE", "DEPD"}
  BY DEF Looked, Acting
<1>2. ~Born(t)
  BY <1>1 DEF Born, BornWrite, BornSeeker
<1>3. ~Dies(t)
  BY <1>1 DEF Dies, IdleEntry
<1>4. Lives(t)
  BY <1>2, <1>3, EntryMoves
<1>5. SameName(sab[t], sab'[t]) /\ (Looked(sab[t]) \/ (L2Lookup(t) /\ sab[t].st = "L2C"))
      /\ sab[t].st # "IDLE"
  BY <1>1, <1>4 DEF Lives, GoesNext
<1>6. t \in Valid
  BY <1>5 DEF Valid
<1> QED
  BY <1>3, <1>4, <1>5, <1>6, EntryWorks

\* Another entry that writes the line of a read leaves the read its hit.
LEMMA ReadHitOther ==
  ASSUME OrderInv, TurnInv, HitInv, NEW t \in SID, Seeker(sab[t]), Looked(sab[t]),
         NEW u \in SID, u # t, L2Write(u), sab[u].line = sab[t].line
  PROVE  ~inv(sab[u]) /\ (Writes(sab[u]) => Hit(sab[t].line) # {})
<1>1. TypeInv
  BY DEF OrderInv
<1>2. /\ sab[u].st = "L2CW" /\ Looked(sab[u]) /\ Unwritten(sab[u]) /\ Acting(sab[u])
  BY <1>1, UnwrittenAt
<1>3. Acting(sab[t])
  BY DEF Looked
<1>4. CASE Seeker(sab[u])
  <2>1. \/ snpl2(sab[u]) /\ rd_alct(sab[t]) /\ sab[t].st = "MEMR"
        \/ snpl2(sab[t]) /\ rd_alct(sab[u]) /\ sab[u].st = "MEMR"
    BY <1>2, <1>3, <1>4, NoTwo
  <2>2. snpl2(sab[u]) /\ rd_alct(sab[t])
    BY <1>2, <2>1
  <2>3. sab[t].kind \in ReadKind
    BY <2>2 DEF rd_alct, rs, ReadKind
  <2>4. t = sab[u].ini
    BY <1>3, <2>2, <2>3, SnpL2Needs
  <2>5. sab[u].line # sab[t].line
    BY <2>2, <2>4 DEF HitInv, SnpLine
  <2> QED
    BY <2>5
<1>5. CASE ~Seeker(sab[u])
  <2>1. ~inv(sab[u])
    BY <1>5 DEF Seeker, inv, ReadKind
  <2>2. wns(sab[u]) => Hit(sab[t].line) # {}
    BY <1>2 DEF HitInv, WriteHit
  <2>3. Writes(sab[u]) => wns(sab[u])
    BY <1>5 DEF Seeker, Writes, wtud, wtuc, rd_alct, rs, ReadKind
  <2> QED
    BY <2>1, <2>2, <2>3
<1> QED
  BY <1>4, <1>5

LEMMA ReadHitStep ==
  ASSUME OrderInv, TurnInv, CopyInv, HitInv, [Next]_vars
  PROVE  ReadHit'
<1> SUFFICES ASSUME NEW t \in SID, Seeker(sab'[t]), Looked(sab'[t]), Unwritten(sab'[t]),
                    NEW l, l = sab'[t].line
             PROVE  sab'[t].l2_hit <=> Hit(l)' # {}
  BY DEF ReadHit
<1>1. TypeInv /\ OneTag
  BY DEF OrderInv, CopyInv
<1>2. /\ Lives(t) /\ Works(t) /\ SameName(sab[t], sab'[t])
      /\ Looked(sab[t]) \/ (L2Lookup(t) /\ sab[t].st = "L2C")
  BY LookedOn
<1>3. Seeker(sab[t]) /\ sab[t].line = l
  BY <1>2 DEF SameName, Seeker
<1>4. Unwritten(sab[t])
  BY <1>2 DEF Works, WorksHit
<1>5. CASE L2Lookup(t)
  <2>1. (sab'[t].l2_hit <=> Hit(l) # {}) /\ SameTags
    BY <1>1, <1>3, <1>5, L2LookupFull DEF LooksUp
  <2>2. Hit(l)' = Hit(l)
    BY <2>1, HitSame DEF SameTags, SameWays
  <2> QED
    BY <2>1, <2>2
<1>6. CASE ~L2Lookup(t)
  <2>1. ~L2Write(t)
    BY <1>1, L2WriteWorks
  <2>2. Looked(sab[t]) /\ sab'[t].l2_hit = sab[t].l2_hit
    BY <1>2, <1>6, <2>1 DEF Works, WorksHit
  <2>3. sab'[t].l2_hit <=> Hit(l) # {}
    BY <1>3, <1>4, <2>2 DEF HitInv, ReadHit
  <2>4. CASE WritesLine(l)
    <3>1. PICK u \in SID : /\ L2Write(u) /\ sab[u].line = l
                           /\ \/ Gone(sab[u])
                              \/ Hit(l)' # {} /\ (Hit(l) # {} \/ Writes(sab[u]))
      BY <2>4 DEF WritesLine
    <3>2. u # t
      BY <2>1, <3>1
    <3>3. ~inv(sab[u]) /\ (Writes(sab[u]) => Hit(l) # {})
      BY <1>3, <2>2, <3>1, <3>2, ReadHitOther
    <3> QED
      BY <2>3, <3>1, <3>3 DEF Gone
  <2> QED
    BY <1>1, <2>3, <2>4, HitMoves
<1> QED
  BY <1>5, <1>6

LEMMA SnoopsHitStep ==
  ASSUME OrderInv, TurnInv, HitInv, [Next]_vars
  PROVE  SnoopsHit'
<1> SUFFICES ASSUME NEW t \in SID,
                    sab'[t].st \in {"SNOP", "L2CR"} \/ Holds(sab'[t]) # {}
             PROVE  sab'[t].l2_hit
  BY DEF SnoopsHit, Holds
<1>1. TypeInv /\ TypeInv' /\ TurnInv' /\ ReadHit
  BY StepOrder, StepTurn DEF OrderInv, HitInv
<1>2. StateShape(sab'[t]) /\ StateShape(sab[t])
  BY <1>1 DEF TurnInv, StateShapes
<1>3. Looked(sab'[t])
  BY <1>2 DEF StateShape, Looked, Acting, Holds
<1>4. /\ Lives(t) /\ Works(t)
      /\ Looked(sab[t]) \/ (L2Lookup(t) /\ sab[t].st = "L2C")
  BY <1>3, LookedOn
<1>5. CASE L2Lookup(t) /\ sab'[t].l2_hit
  BY <1>5
<1>6. CASE ~(L2Lookup(t) /\ sab'[t].l2_hit)
  <2>1. \/ sab[t].st \in {"SNOP", "L2CR"}
        \/ Holds(sab[t]) # {}
    BY <1>4, <1>6 DEF Works, WorksHit, Holds
  <2>2. sab[t].l2_hit
    BY <2>1 DEF HitInv, SnoopsHit
  <2>3. ~L2Write(t)
    BY <1>2, <2>1 DEF StateShape, Holds, L2Write
  <2>4. Looked(sab[t])
    BY <1>2, <2>1 DEF StateShape, Looked, Acting, Holds
  <2> QED
    BY <1>1, <1>4, <2>2, <2>3, <2>4, HitKept DEF Works, WorksHit
<1> QED
  BY <1>5, <1>6

LEMMA PdHitStep ==
  ASSUME OrderInv, TurnInv, HitInv, [Next]_vars
  PROVE  PdHit'
<1> SUFFICES ASSUME NEW t \in SID, sab'[t].st # "IDLE", sab'[t].l1_pd
             PROVE  /\ Seeker(sab'[t]) /\ Looked(sab'[t])
                    /\ Unwritten(sab'[t]) => sab'[t].l2_hit
  BY DEF PdHit, Valid
<1>1. TypeInv /\ ReadHit /\ SnoopsHit'
  BY SnoopsHitStep DEF OrderInv, HitInv
<1>2. ~Born(t)
  BY DEF Born, BornWrite, BornSeeker
<1>3. ~Dies(t)
  BY DEF Dies, IdleEntry
<1>4. Lives(t)
  BY <1>2, <1>3, EntryMoves
<1>5. /\ SameName(sab[t], sab'[t]) /\ (Looked(sab[t]) => Looked(sab'[t]))
      /\ sab[t].st # "IDLE"
  BY <1>4 DEF Lives, GoesNext
<1>6. t \in Valid
  BY <1>5 DEF Valid
<1>7. Works(t)
  BY <1>3, <1>6, EntryWorks
<1>8. CASE sab[t].st = "SNOP" /\ sab'[t].st = "SNOP"
  <2>1. StateShape(sab[t]) /\ sab[t].kind \in Kind \ {"none"}
    BY <1>1, <1>5, UsedShape
  <2>2. Seeker(sab[t])
    BY <1>8, <2>1 DEF StateShape, Seeker, Kind
  <2>3. sab'[t].l2_hit
    BY <1>1, <1>8 DEF SnoopsHit
  <2>4. Looked(sab'[t])
    BY <1>8 DEF Looked, Acting
  <2> QED
    BY <1>5, <2>2, <2>3, <2>4 DEF SameName, Seeker
<1>9. CASE sab[t].l1_pd
  <2>1. /\ Seeker(sab[t]) /\ Looked(sab[t])
        /\ Unwritten(sab[t]) => sab[t].l2_hit
    BY <1>6, <1>9 DEF HitInv, PdHit
  <2>2. ASSUME Unwritten(sab'[t]) PROVE sab'[t].l2_hit
    <3>1. Unwritten(sab[t]) /\ ~L2Write(t)
      BY <1>1, <1>7, <2>2, L2WriteWorks DEF Works, WorksHit
    <3> QED
      BY <1>1, <1>7, <2>1, <3>1, HitKept DEF Works, WorksHit
  <2> QED
    BY <1>5, <2>1, <2>2 DEF SameName, Seeker
<1> QED
  BY <1>7, <1>8, <1>9 DEF Works, WorksHit

\* The memory, and the line to replace.
LEMMA MemKindsStep ==
  ASSUME OrderInv, TurnInv, HitInv, [Next]_vars
  PROVE  MemKinds'
<1> SUFFICES ASSUME NEW t \in SID
             PROVE  /\ sab'[t].st = "MEMR" => rd(sab'[t])
                    /\ sab'[t].st = "MEMW" => cml2(sab'[t]) \/ snpl2(sab'[t])
  BY DEF MemKinds, rd, rs, cml2, snpl2
<1> SUFFICES ASSUME sab'[t].st \in {"MEMR", "MEMW"}
             PROVE  /\ sab'[t].st = "MEMR" => rd(sab'[t])
                    /\ sab'[t].st = "MEMW" => cml2(sab'[t]) \/ snpl2(sab'[t])
  OBVIOUS
<1>1. Looked(sab'[t])
  BY DEF Looked, Acting
<1>2. Works(t) /\ sab'[t].kind = sab[t].kind
  BY <1>1, LookedOn DEF SameName
<1>3. CASE sab'[t].st = "MEMR"
  <2>1. rd(sab[t])
    BY <1>2, <1>3 DEF Works, WorksWay, HitInv, MemKinds
  <2> QED
    BY <1>2, <1>3, <2>1 DEF rd, rs
<1>4. CASE sab'[t].st = "MEMW"
  <2>1. sab[t].st = "MEMW" => cml2(sab[t]) \/ snpl2(sab[t])
    BY DEF HitInv, MemKinds
  <2>2. ~(wns(sab[t]) /\ Looked(sab[t]) /\ ~sab[t].l2_hit)
    BY DEF HitInv, WriteHit
  <2>3. cml2(sab[t]) \/ snpl2(sab[t])
    BY <1>2, <1>4, <2>1, <2>2 DEF Works, WorksWay
  <2> QED
    BY <1>2, <1>4, <2>3 DEF cml2, snpl2
<1> QED
  BY <1>3, <1>4

LEMMA SnpLineStep ==
  ASSUME OrderInv, TurnInv, HitInv, [Next]_vars
  PROVE  SnpLine'
<1> SUFFICES ASSUME NEW s \in SID, snpl2(sab'[s]),
                    NEW i, i = sab'[s].ini
             PROVE  sab'[s].line # sab'[i].line
  BY DEF SnpLine, snpl2
<1>1. TypeInv
  BY DEF OrderInv
<1>2. CASE Born(s)
  <2>1. PICK r \in SID : /\ L2Allocate(r) /\ i = r
                         /\ l2[way_fifo].vld /\ sab'[s].line = l2[way_fifo].tag
    BY <1>2 DEF Born, BornWrite, BornSeeker, snpl2, WriteKind
  <2>2. /\ sab[r].st = "L2CA" /\ sab'[r].line = sab[r].line /\ way_fifo \in WAY
    BY <1>1, <2>1, L2AllocateFull DEF L2Allocate, Fetches, SameRequest
  <2>3. rd_alct(sab[r]) /\ ~sab[r].l2_hit
    BY <2>2 DEF TurnInv, StateShapes, StateShape
  <2>4. Hit(sab[r].line) = {}
    BY <2>2, <2>3 DEF HitInv, ReadHit, Seeker, Looked, Acting, Unwritten, rd_alct, rs, ReadKind
  <2> QED
    BY <2>1, <2>2, <2>4 DEF Hit
<1>3. CASE ~Born(s)
  <2>2. ~Dies(s)
    BY DEF Dies, IdleEntry, snpl2
  <2>3. Lives(s)
    BY <1>3, <2>2, EntryMoves
  <2>4. snpl2(sab[s]) /\ sab'[s].line = sab[s].line
    BY <2>3 DEF Lives, GoesNext, SameName, snpl2
  <2>5. s \in Valid /\ sab[s].ini \in SID
    BY <1>1, <2>4, InUse, Ini DEF Valid, snpl2
  <2>6. i = sab[s].ini
    BY <2>2, <2>5, EntryWorks DEF Works, WorksHit
  <2>7. sab[i].st = "MEMR" /\ i \in SID
    BY <2>4, <2>5, <2>6 DEF TurnInv, OneSnpL2
  <2>8. i \in Valid /\ ~Dies(i)
    BY <2>7 DEF Valid, Dies, Pop
  <2>9. sab'[i].line = sab[i].line
    BY <2>7, <2>8, EntryMoves DEF Born, Lives, GoesNext, SameName
  <2> QED
    BY <2>4, <2>6, <2>9 DEF HitInv, SnpLine
<1> QED
  BY <1>2, <1>3

\* What an entry that takes a line away has hit is in the L2.
LEMMA HolderHits ==
  ASSUME TurnInv, HitInv, NEW s \in SID, sab[s].kind # "none",
         sab[s].st = "SNOP" \/ Holds(sab[s]) # {}, sab[s].kind \in Kind
  PROVE  Hit(sab[s].line) # {}
<1>1. StateShape(sab[s])
  BY DEF TurnInv, StateShapes
<1>2. Seeker(sab[s]) /\ Looked(sab[s]) /\ Unwritten(sab[s])
  BY <1>1 DEF StateShape, Holds, Seeker, Kind, Looked, Acting, Unwritten
<1>3. sab[s].l2_hit
  BY DEF HitInv, SnoopsHit
<1> QED
  BY <1>2, <1>3 DEF HitInv, ReadHit

\* The line of a write that is looked up is in the L2.
LEMMA WriteFinds ==
  ASSUME OrderInv, TurnInv, LateInv, HitInv, NEW t \in SID, wns(sab[t]),
         ~Looked(sab[t]), L2Lookup(t)
  PROVE  Hit(sab[t].line) # {}
<1>1. TypeInv
  BY DEF OrderInv
<1>2. \A s \in SID : sab[s].kind \in Kind
  BY <1>1, InUse DEF EntryType
<1>3. CASE \E s \in SID : TakesAway(s, sab[t].line)
  <2>1. PICK s \in SID : TakesAway(s, sab[t].line)
    BY <1>3
  <2>2. sab[s].st = "SNOP" \/ Holds(sab[s]) # {}
    BY <2>1 DEF TakesAway, Settled
  <2>3. sab[s].kind # "none" /\ sab[s].line = sab[t].line
    BY <2>1 DEF TakesAway, Taker
  <2> QED
    BY <1>2, <2>2, <2>3, HolderHits
<1>4. CASE Known(sab[t].mid, sab[t].line)
  <2>1. CASE InFilter(sab[t].mid, sab[t].line)
    BY <2>1 DEF InFilter
  <2>2. ASSUME NEW s \in SID, sab[s].line = sab[t].line, Taker(sab[s]),
               sab[t].mid \in Holds(sab[s])
        PROVE  Hit(sab[t].line) # {}
    <3>1. sab[s].kind # "none"
      BY <2>2 DEF Taker
    <3> QED
      BY <1>2, <2>2, <3>1, HolderHits
  <2>3. ASSUME NEW s \in SID, Filled(sab[s])
        PROVE  FALSE
    <3>1. sab[s].kind \in ReadKind /\ Acting(sab[s]) /\ sab[s].l2c_req
      BY <2>3 DEF Filled, ReadKind, Acting
    <3>2. sab[s].older = {}
      BY <3>1 DEF TurnInv, ReadsInTurn
    <3>3. s # t /\ s \in Valid /\ t \in Valid
      BY <2>3 DEF Filled, L2Lookup, Valid
    <3>4. s \in sab[t].older
      BY <3>2, <3>3 DEF OrderInv, AgeOrder
    <3> QED
      BY <3>1, <3>4 DEF L2Lookup, Granted
  <2> QED
    BY <1>4, <2>1, <2>2, <2>3 DEF Known
<1> QED
  BY <1>3, <1>4 DEF LateInv, WnsKnown

\* Nothing takes the line away from the L2 before the write has written it.
LEMMA WriteStays ==
  ASSUME OrderInv, TurnInv, LateInv, NEW t \in SID, wns(sab[t]),
         NEW u \in SID, L2Write(u), sab[u].line = sab[t].line
  PROVE  ~inv(sab[u])
<1> SUFFICES ASSUME inv(sab[u])
             PROVE  FALSE
  OBVIOUS
<1>1. TypeInv
  BY DEF OrderInv
<1>2. /\ sab[u].st = "L2CW" /\ Looked(sab[u]) /\ Holds(sab[u]) = {}
      /\ ~cml2(sab[u]) \/ sab[u].resp = "no"
  BY <1>1, UnwrittenAt
<1>3. Settled(sab[u]) /\ Cleans(sab[u])
  BY <1>2 DEF Settled, Cleans, Seeker, inv, ReadKind
<1>4. Late(u, t)
  BY <1>3 DEF LateInv, NoLateWrite
<1>5. CASE cml2(sab[u])
  BY <1>2, <1>4, <1>5 DEF Late
<1>6. CASE snpl2(sab[u])
  BY <1>1, <1>4, <1>6, NoOwnerOfSnpL2 DEF Late
<1> QED
  BY <1>5, <1>6 DEF inv, cml2, snpl2

LEMMA WriteHitStep ==
  ASSUME OrderInv, TurnInv, CopyInv, LateInv, HitInv, [Next]_vars
  PROVE  WriteHit'
<1> SUFFICES ASSUME NEW t \in SID, wns(sab'[t]), Looked(sab'[t]),
                    NEW l, l = sab'[t].line
             PROVE  /\ sab'[t].st # "MEMW" /\ sab'[t].l2_hit
                    /\ Unwritten(sab'[t]) => Hit(l)' # {}
  BY DEF WriteHit, wns
<1>1. TypeInv /\ OneTag
  BY DEF OrderInv, CopyInv
<1>2. /\ Lives(t) /\ Works(t) /\ sab'[t].kind = sab[t].kind /\ sab[t].line = l
      /\ Looked(sab[t]) \/ (L2Lookup(t) /\ sab[t].st = "L2C")
  BY LookedOn DEF SameName
<1>3. wns(sab[t])
  BY <1>2 DEF wns
<1>4. CASE ~Looked(sab[t])
  <2>1. L2Lookup(t) /\ sab[t].st = "L2C" /\ Hit(l) # {}
    BY <1>2, <1>3, <1>4, WriteFinds
  <2>2. (sab'[t].l2_hit <=> Hit(l) # {}) /\ SameTags /\ sab'[t].st = "L2C"
    BY <1>1, <1>2, <2>1, L2LookupFull DEF LooksUp
  <2>3. Hit(l)' = Hit(l)
    BY <2>2, HitSame DEF SameTags, SameWays
  <2> QED
    BY <2>1, <2>2, <2>3
<1>5. CASE Looked(sab[t])
  <2>1. /\ sab[t].st # "MEMW" /\ sab[t].l2_hit
        /\ Unwritten(sab[t]) => Hit(l) # {}
    BY <1>2, <1>3, <1>5 DEF HitInv, WriteHit
  <2>2. ~cml2(sab[t]) /\ ~snpl2(sab[t]) /\ sab[t].kind \in WriteKind
    BY <1>3 DEF wns, cml2, snpl2, WriteKind
  <2>3. sab'[t].st # "MEMW"
    BY <1>2, <2>1, <2>2 DEF Works, WorksWay
  <2>4. sab'[t].l2_hit
    <3>1. CASE L2Lookup(t)
      <4>1. sab'[t].l2_hit <=> Hit(l) # {}
        BY <1>1, <1>2, <3>1, L2LookupFull DEF LooksUp
      <4>2. StateShape(sab[t])
        BY DEF TurnInv, StateShapes
      <4>3. sab[t].st = "L2C" /\ sab[t].l2c_req
        BY <2>2, <3>1, <4>2 DEF StateShape, L2Lookup, Granted
      <4> QED
        BY <1>5, <4>3 DEF Looked
    <3>2. CASE L2Write(t)
      <4>1. Written(sab[t], sab'[t])
        BY <1>1, <3>2, L2WriteFull
      <4> QED
        BY <2>1, <2>2, <4>1 DEF Written
    <3> QED
      BY <1>2, <2>1, <3>1, <3>2 DEF Works, WorksHit
  <2>5. ASSUME Unwritten(sab'[t]) PROVE Hit(l)' # {}
    <3>1. Hit(l) # {}
      BY <1>2, <2>1, <2>5 DEF Works, WorksHit
    <3>2. CASE WritesLine(l)
      <4>1. PICK u \in SID : /\ L2Write(u) /\ sab[u].line = l
                             /\ Gone(sab[u]) \/ Hit(l)' # {}
        BY <3>2 DEF WritesLine
      <4>2. ~Gone(sab[u])
        BY <1>2, <1>3, <4>1, WriteStays DEF Gone
      <4> QED
        BY <4>1, <4>2
    <3> QED
      BY <1>1, <3>1, <3>2, HitMoves
  <2> QED
    BY <2>3, <2>4, <2>5
<1> QED
  BY <1>4, <1>5

\* A read with a way to refill is the read that acts.
LEMMA WayReader ==
  ASSUME NEW e, HasWay(e)
  PROVE  /\ e.kind \in ReadKind /\ Seeker(e) /\ Acting(e) /\ Looked(e) /\ Unwritten(e)
         /\ rd_alct(e) /\ ~e.l2_hit
BY DEF HasWay, rd_alct, rs, ReadKind, Seeker, Acting, Looked, Unwritten

LEMMA OneHasWay ==
  ASSUME OrderInv, TurnInv, NEW s \in SID, NEW t \in SID, HasWay(sab[t]),
         sab[s].kind \in ReadKind, Acting(sab[s])
  PROVE  s = t
BY OneReader, WayReader

\* A read that asks for a way has none, and then no way is given away.
LEMMA NonePending ==
  ASSUME OrderInv, TurnInv, HitInv, NEW s \in SID, sab[s].st = "L2CA"
  PROVE  /\ \A t \in SID : ~HasWay(sab[t])
         /\ \A w \in WAY : ~l2[w].pend
<1>1. rd_alct(sab[s])
  BY DEF TurnInv, StateShapes, StateShape
<1>2. sab[s].kind \in ReadKind /\ Acting(sab[s]) /\ ~HasWay(sab[s])
  BY <1>1 DEF rd_alct, rs, ReadKind, Acting, HasWay
<1>3. \A t \in SID : ~HasWay(sab[t])
  BY <1>2, OneHasWay
<1> QED
  BY <1>3 DEF HitInv, PendWays, PendHas

LEMMA PendAllocate ==
  ASSUME OrderInv, TurnInv, HitInv, NEW s \in SID, L2Allocate(s)
  PROVE  PendWays'
<1> DEFINE n == Lowest(FreeEntries(RSID))
<1>1. PICK w \in WAY : w = way_fifo
  BY L2AllocateFull DEF OrderInv
<1>2. /\ sab[s].st = "L2CA" /\ Fetches(sab[s], sab'[s])
      /\ l2[w].vld => /\ n \in RSID
                      /\ IsNew(sab'[n], "snpl2", l2[w].tag, NONE, SnpL2Depd, s)
      /\ \A v \in WAY : v # w => l2'[v] = l2[v]
      /\ l2'[w].vld = l2[w].vld /\ l2'[w].tag = l2[w].tag /\ l2'[w].pend
  BY <1>1, L2AllocateFull DEF OrderInv, L2Allocate
<1> HIDE DEF n
<1>3. \A v \in WAY : ~l2[v].pend
  BY <1>2, NonePending
<1>4. \A v \in WAY : l2'[v].pend => v = w
  BY <1>2, <1>3
<1>5. HasWay(sab'[s])
  <2>1. rd_alct(sab[s]) /\ ~sab[s].l2_hit
    BY <1>2 DEF TurnInv, StateShapes, StateShape
  <2>2. sab'[s].kind = sab[s].kind /\ sab'[s].st = "MEMR" /\ sab'[s].l2_hit = sab[s].l2_hit
    BY <1>2 DEF Fetches, SameRequest
  <2> QED
    BY <2>1, <2>2 DEF HasWay, rd_alct, rs
<1>6. OnePend'
  BY <1>4 DEF OnePend
<1>7. PendHas' /\ HasPend'
  BY <1>2, <1>5 DEF PendHas, HasPend, HasWay, rd_alct, rs
<1>8. PendSnp'
  <2>1. SUFFICES ASSUME NEW v \in WAY, l2'[v].pend, l2'[v].vld
                 PROVE  \E t \in SID : /\ snpl2(sab'[t]) /\ sab'[t].line = l2'[v].tag
                                       /\ Unwritten(sab'[t])
    BY DEF PendSnp, snpl2, Unwritten
  <2>2. v = w /\ l2[w].vld
    BY <1>2, <1>4, <2>1
  <2>3. IsNew(sab'[n], "snpl2", l2[w].tag, NONE, SnpL2Depd, s) /\ n \in SID
    BY <1>2, <2>2, Sizes
  <2>4. sab'[n].kind = "snpl2" /\ sab'[n].line = l2[w].tag /\ sab'[n].st \in {"DEPD", "L2C"}
    BY <2>3 DEF IsNew
  <2> QED
    BY <1>2, <2>2, <2>3, <2>4 DEF snpl2, Unwritten
<1> QED
  BY <1>6, <1>7, <1>8 DEF PendWays

\* A read that has no hit and writes the L2 refills its way.
LEMMA Refills ==
  ASSUME OrderInv, TurnInv, HitInv, NEW u \in SID, L2Write(u),
         Hit(sab[u].line) = {}, Writes(sab[u])
  PROVE  HasWay(sab[u])
<1>1. TypeInv
  BY DEF OrderInv
<1>2. /\ sab[u].st = "L2CW" /\ sab[u].l2c_req /\ Looked(sab[u]) /\ Unwritten(sab[u])
      /\ u \in Valid
  BY <1>1, UnwrittenAt DEF Valid
<1>3. ~wns(sab[u])
  BY <1>2 DEF HitInv, WriteHit
<1>4. ~sab[u].l1_pd
  <2>1. SUFFICES ASSUME sab[u].l1_pd PROVE FALSE
    OBVIOUS
  <2>2. Seeker(sab[u]) /\ sab[u].l2_hit
    BY <1>2, <2>1 DEF HitInv, PdHit
  <2> QED
    BY <1>2, <2>2 DEF HitInv, ReadHit
<1> QED
  BY <1>2, <1>3, <1>4 DEF Writes, wtud, wtuc, HasWay

\* A read with a way that writes does refill it.
LEMMA RefillsOnly ==
  ASSUME OrderInv, TurnInv, HitInv, NEW u \in SID, HasWay(sab[u]), sab[u].st = "L2CW"
  PROVE  Hit(sab[u].line) = {} /\ Writes(sab[u])
<1>1. /\ Seeker(sab[u]) /\ Looked(sab[u]) /\ Unwritten(sab[u])
      /\ rd_alct(sab[u]) /\ ~sab[u].l2_hit
  BY WayReader
<1> QED
  BY <1>1 DEF HitInv, ReadHit, Writes, wtud, wtuc

LEMMA PendWrite ==
  ASSUME OrderInv, TurnInv, CopyInv, HitInv, NEW u \in SID, L2Write(u)
  PROVE  PendWays'
<1> DEFINE w == WayOf(sab[u])
<1>1. TypeInv
  BY DEF OrderInv
<1>2. /\ Only(u) /\ Written(sab[u], sab'[u]) /\ ~Unwritten(sab'[u])
      /\ sab[u].st = "L2CW"
  BY <1>1, L2WriteFull, L2WriteWorks, UnwrittenAt
<1>3. ~HasWay(sab'[u])
  BY <1>2, WayReader
<1>4. \A t \in SID \ {u} : sab'[t] = sab[t]
  BY <1>2 DEF Only
<1>5. CASE Hit(sab[u].line) = {} /\ Writes(sab[u])
  <2>1. /\ w \in RefillWays /\ l2'[w] = Refilled(sab[u])
        /\ \A v \in WAY : v # w => l2'[v] = l2[v]
    BY <1>1, <1>5, L2WriteFull
  <2> HIDE DEF w
  <2>2. w \in WAY /\ l2[w].pend /\ ~l2'[w].pend
    BY <2>1 DEF RefillWays, Refilled
  <2>3. \A v \in WAY : ~l2'[v].pend
    BY <2>1, <2>2 DEF HitInv, PendWays, OnePend
  <2>4. HasWay(sab[u])
    BY <1>5, Refills
  <2>5. \A t \in SID : ~HasWay(sab'[t])
    BY <1>3, <1>4, <2>4, OneHasWay, WayReader
  <2> QED
    BY <2>3, <2>5 DEF PendWays, OnePend, PendHas, HasPend, PendSnp, HasWay, rd_alct, rs
<1>6. CASE Hit(sab[u].line) # {} \/ ~Writes(sab[u])
  <2>1. ~HasWay(sab[u])
    BY <1>2, <1>6, RefillsOnly
  <2>2. \A t \in SID : HasWay(sab'[t]) <=> HasWay(sab[t])
    BY <1>3, <1>4, <2>1
  <2>3. \A v \in WAY :
          /\ l2'[v].pend = l2[v].pend
          /\ l2'[v].vld => l2[v].vld /\ l2'[v].tag = l2[v].tag
    <3>1. CASE Hit(sab[u].line) = {}
      BY <1>1, <1>6, <3>1, L2WriteFull
    <3>2. CASE Hit(sab[u].line) # {}
      <4>1. /\ w \in WAY /\ \A v \in WAY : v # w => l2'[v] = l2[v]
            /\ inv(sab[u]) => l2'[w] = Emptied(l2[w])
            /\ ~inv(sab[u]) => l2'[w] = Updated(sab[u], l2[w])
        BY <1>1, <3>2, L2WriteFull
      <4>2. l2[w] \in WayType /\ sab[u] \in EntryType
        BY <1>1, <4>1, InUse DEF TypeInv, Rest, Ways
      <4> HIDE DEF w
      <4>3. /\ l2'[w].pend = l2[w].pend
            /\ l2'[w].vld => l2[w].vld /\ l2'[w].tag = l2[w].tag
        BY <4>1, <4>2, EmptiedFields, UpdatedFields
      <4> QED
        BY <4>1, <4>3
    <3> QED
      BY <3>1, <3>2
  <2>4. PendSnp'
    <3>1. SUFFICES ASSUME NEW v \in WAY, l2'[v].pend, l2'[v].vld
                   PROVE  \E t \in SID : /\ snpl2(sab'[t]) /\ sab'[t].line = l2'[v].tag
                                         /\ Unwritten(sab'[t])
      BY DEF PendSnp, snpl2, Unwritten
    <3>2. l2[v].pend /\ l2[v].vld /\ l2'[v].tag = l2[v].tag
      BY <2>3, <3>1
    <3>3. PICK t \in SID : snpl2(sab[t]) /\ sab[t].line = l2[v].tag /\ Unwritten(sab[t])
      BY <3>2 DEF HitInv, PendWays, PendSnp
    <3>4. t # u
      <4>1. SUFFICES ASSUME t = u PROVE FALSE
        OBVIOUS
      <4>2. v \in Hit(sab[u].line) /\ inv(sab[u])
        BY <3>2, <3>3, <4>1 DEF Hit, snpl2, inv
      <4>3. HitWay(sab[u].line) = v
        BY <4>2, HitWayIn DEF CopyInv, OneTag, Hit
      <4>4. l2'[v] = Emptied(l2[v])
        BY <1>1, <4>2, <4>3, L2WriteFull DEF WayOf
      <4> QED
        BY <3>1, <4>4 DEF Emptied, InvalidWay
    <3> QED
      BY <1>4, <3>2, <3>3, <3>4
  <2>5. OnePend' /\ PendHas' /\ HasPend'
    <3>1. OnePend'
      BY <2>3 DEF HitInv, PendWays, OnePend
    <3>2. ASSUME NEW v \in WAY, l2'[v].pend PROVE \E t \in SID : HasWay(sab'[t])
      BY <2>2, <2>3, <3>2 DEF HitInv, PendWays, PendHas
    <3>3. ASSUME NEW t \in SID, HasWay(sab'[t]) PROVE \E v \in WAY : l2'[v].pend
      BY <2>2, <2>3, <3>3 DEF HitInv, PendWays, HasPend
    <3>4. PendHas'
      BY <3>2 DEF PendHas, HasWay, rd_alct, rs
    <3>5. HasPend'
      BY <3>3 DEF HasPend, HasWay, rd_alct, rs
    <3> QED
      BY <3>1, <3>4, <3>5
  <2> QED
    BY <2>4, <2>5 DEF PendWays
<1> QED
  BY <1>5, <1>6

LEMMA WaySame ==
  ASSUME OrderInv, TurnInv, HitInv, [Next]_vars, NEW t \in SID,
         ~L2Allocate(t), ~L2Write(t)
  PROVE  HasWay(sab'[t]) <=> HasWay(sab[t])
<1>1. TypeInv
  BY DEF OrderInv
<1>2. CASE t \notin Valid
  <2>1. ~HasWay(sab[t])
    BY <1>2 DEF HasWay, Valid
  <2>2. ~HasWay(sab'[t])
    BY <1>2, LookedOn, WayReader
  <2> QED
    BY <2>1, <2>2
<1>3. CASE Dies(t)
  BY <1>3 DEF Dies, Pop, IdleEntry, HasWay
<1>4. CASE Works(t) /\ L2Lookup(t)
  <2>1. LooksUp(sab[t], sab'[t]) /\ sab[t].l2c_req
    BY <1>1, <1>4, L2LookupFull DEF L2Lookup, Granted
  <2>2. /\ sab'[t].kind = sab[t].kind /\ sab'[t].st = sab[t].st
        /\ sab[t].st \in {"L2C", "L2CR", "L2CT"}
    BY <1>4, <2>1 DEF LooksUp, SameRequest, L2Lookup
  <2>3. CASE sab[t].st = "L2C"
    BY <2>2, <2>3 DEF HasWay
  <2>4. CASE sab[t].st # "L2C"
    <3>1. Looked(sab[t])
      BY <2>2, <2>4 DEF Looked, Acting
    <3>2. sab'[t].l2_hit = sab[t].l2_hit
      BY <1>4, <3>1, HitKept DEF HitInv
    <3> QED
      BY <2>2, <2>4, <3>2 DEF HasWay, rd_alct, rs
  <2> QED
    BY <2>3, <2>4
<1>5. CASE Works(t) /\ ~L2Lookup(t)
  <2>1. ~(sab[t].st \in {"SNOP", "L2CR"} /\ ~sab[t].l2_hit)
    BY DEF HitInv, SnoopsHit
  <2> QED
    BY <1>5, <2>1 DEF Works, WorksWay
<1> QED
  BY <1>2, <1>3, <1>4, <1>5, EntryWorks

LEMMA PendWaysStep ==
  ASSUME OrderInv, TurnInv, CopyInv, HitInv, [Next]_vars
  PROVE  PendWays'
<1>1. TypeInv
  BY DEF OrderInv
<1>2. CASE \E s \in SID : L2Allocate(s) \/ L2Write(s)
  BY <1>2, PendAllocate, PendWrite
<1>3. CASE ~\E s \in SID : L2Allocate(s) \/ L2Write(s)
  <2>1. SameWays
    BY <1>1, <1>3, WaysSame
  <2>2. \A t \in SID : HasWay(sab'[t]) <=> HasWay(sab[t])
    BY <1>3, WaySame
  <2>3. OnePend'
    BY <2>1 DEF SameWays, HitInv, PendWays, OnePend
  <2>4. PendHas'
    <3>1. ASSUME NEW v \in WAY, l2'[v].pend PROVE \E t \in SID : HasWay(sab'[t])
      BY <2>1, <2>2, <3>1 DEF SameWays, HitInv, PendWays, PendHas
    <3> QED
      BY <3>1 DEF PendHas, HasWay, rd_alct, rs
  <2>5. HasPend'
    <3>1. ASSUME NEW t \in SID, HasWay(sab'[t]) PROVE \E v \in WAY : l2'[v].pend
      BY <2>1, <2>2, <3>1 DEF SameWays, HitInv, PendWays, HasPend
    <3> QED
      BY <3>1 DEF HasPend, HasWay, rd_alct, rs
  <2>6. PendSnp'
    <3>1. SUFFICES ASSUME NEW v \in WAY, l2'[v].pend, l2'[v].vld
                   PROVE  \E t \in SID : /\ snpl2(sab'[t]) /\ sab'[t].line = l2'[v].tag
                                         /\ Unwritten(sab'[t])
      BY DEF PendSnp, snpl2, Unwritten
    <3>2. l2[v].pend /\ l2[v].vld /\ l2'[v].tag = l2[v].tag
      BY <2>1, <3>1 DEF SameWays
    <3>3. PICK t \in SID : snpl2(sab[t]) /\ sab[t].line = l2[v].tag /\ Unwritten(sab[t])
      BY <3>2 DEF HitInv, PendWays, PendSnp
    <3>4. t \in Valid /\ ~Dies(t)
      BY <1>1, <3>3, InUse DEF Valid, snpl2, Dies, Pop, Unwritten
    <3>5. Unwritten(sab'[t])
      BY <1>3, <3>3, <3>4, EntryWorks DEF Works, WorksWay
    <3>6. SameName(sab[t], sab'[t])
      BY <3>4, EntryMoves DEF Born, Lives, GoesNext
    <3> QED
      BY <3>2, <3>3, <3>5, <3>6 DEF SameName, snpl2
  <2> QED
    BY <2>3, <2>4, <2>5, <2>6 DEF PendWays
<1> QED
  BY <1>2, <1>3

LEMMA InitHit == Init => HitInv
<1> SUFFICES ASSUME Init PROVE HitInv
  OBVIOUS
<1>1. \A s \in SID : sab[s] = IdleEntry
  BY DEF Init
<1>2. \A s \in SID : /\ sab[s].st = "IDLE" /\ sab[s].kind = "none" /\ ~sab[s].l1_pd
                     /\ sab[s].cp = {} /\ sab[s].snp = {}
  BY <1>1 DEF IdleEntry
<1>3. \A w \in WAY : ~l2[w].pend
  BY DEF Init, InvalidWay
<1>4. ReadHit /\ PdHit /\ WriteHit
  BY <1>2 DEF ReadHit, PdHit, WriteHit, Looked, Acting, Valid
<1>5. SnoopsHit /\ MemKinds /\ SnpLine
  BY <1>2 DEF SnoopsHit, MemKinds, SnpLine, Holds, snpl2
<1>6. PendWays
  BY <1>2, <1>3 DEF PendWays, OnePend, PendHas, HasPend, PendSnp, HasWay
<1> QED
  BY <1>4, <1>5, <1>6 DEF HitInv

LEMMA StepHit ==
  OrderInv /\ TurnInv /\ CopyInv /\ LateInv /\ HitInv /\ [Next]_vars => HitInv'
BY ReadHitStep, SnoopsHitStep, PdHitStep, WriteHitStep, MemKindsStep, SnpLineStep,
   PendWaysStep DEF HitInv

\* The invariant of the whole module.
BankInv == /\ OrderInv /\ TurnInv /\ ClaimInv /\ CopyInv
           /\ WriteInv /\ OwesInv /\ LateInv /\ HitInv

\* The layers together are an invariant of the bank.
THEOREM BankInvariant == Spec => []BankInv
<1>1. Init => BankInv
  BY InitOrder, InitTurn, InitClaim, InitCopy, InitWrite, InitOwes, InitLate, InitHit
     DEF BankInv
<1>2. BankInv /\ [Next]_vars => BankInv'
  BY StepOrder, StepTurn, StepClaim, StepCopy, StepWrite, StepOwes, StepLate, StepHit
     DEF BankInv
<1> QED
  BY <1>1, <1>2, PTL DEF Spec

\* What the invariant says of the ways, of the entries and of the memory.
LEMMA WaysOfReads ==
  ASSUME OrderInv, TurnInv, CopyInv, HitInv
  PROVE  RefillHasWay
<1> DEFINE R == {s \in SID : HasWay(sab[s])}
           P == {w \in WAY : l2[w].pend}
<1>1. Cardinality(R) = Cardinality(P)
  <2>1. CASE R = {}
    <3>1. P = {}
      BY <2>1 DEF HitInv, PendWays, PendHas
    <3> QED
      BY <2>1, <3>1
  <2>2. CASE R # {}
    <3>1. PICK s \in SID : HasWay(sab[s])
      BY <2>2
    <3>2. \A t \in SID : HasWay(sab[t]) => t = s
      BY <3>1, OneHasWay, WayReader
    <3>3. PICK w \in WAY : l2[w].pend
      BY <3>1 DEF HitInv, PendWays, HasPend
    <3>4. R = {s} /\ P = {w}
      BY <3>1, <3>2, <3>3 DEF HitInv, PendWays, OnePend
    <3>5. Cardinality({s}) = 1 /\ Cardinality({w}) = 1
      BY FS_Singleton
    <3> QED
      BY <3>4, <3>5
  <2> QED
    BY <2>1, <2>2
<1>2. ASSUME NEW s \in SID, HasWay(sab[s]), sab[s].st = "L2CW"
      PROVE  \E w \in WAY : l2[w].pend /\ ~l2[w].vld
  <2>1. PICK w \in WAY : l2[w].pend
    BY <1>2 DEF HitInv, PendWays, HasPend
  <2>2. ~l2[w].vld
    <3>1. SUFFICES ASSUME l2[w].vld PROVE FALSE
      OBVIOUS
    <3>2. PICK t \in SID : snpl2(sab[t])
      BY <2>1, <3>1 DEF HitInv, PendWays, PendSnp
    <3>3. sab[s].st = "MEMR"
      BY <1>2, <3>2, WayReader, SnpL2Needs
    <3> QED
      BY <1>2, <3>3
  <2> QED
    BY <2>1, <2>2
<1>3. ASSUME NEW l \in LINE
      PROVE  Cardinality(Hit(l)) <= 1
  <2>1. CASE Hit(l) = {}
    <3>1. Cardinality({}) = 0
      BY FS_EmptySet
    <3> QED
      BY <2>1, <3>1
  <2>2. CASE Hit(l) # {}
    <3>1. PICK w : w \in Hit(l)
      BY <2>2
    <3>2. Hit(l) = {w}
      BY <3>1 DEF Hit, CopyInv, OneTag
    <3>3. Cardinality({w}) = 1
      BY FS_Singleton
    <3> QED
      BY <3>2, <3>3
  <2> QED
    BY <2>1, <2>2
<1> QED
  BY <1>1, <1>2, <1>3 DEF RefillHasWay

LEMMA EntryForSnpL2 ==
  ASSUME RESERVED # 0, OrderInv, TurnInv, HitInv
  PROVE  SnpL2HasEntry
<1> SUFFICES ASSUME NEW s \in SID, sab[s].st = "L2CA"
             PROVE  FreeEntries(RSID) # {} /\ NotPending # {}
  BY DEF SnpL2HasEntry
<1>1. TypeInv
  BY DEF OrderInv
<1>2. NotPending # {}
  BY NonePending, Sizes DEF NotPending
<1>3. RDEPTH - 1 \in RSID \ PiuSid
  BY SizeAssumption DEF RSID, PiuSid
<1>4. PICK r \in SID : r = RDEPTH - 1
  BY <1>3, Sizes
<1>5. sab[r].kind \in {"snpl2", "none"} /\ r \in RSID
  BY <1>3, <1>4 DEF TurnInv, EntryUse
<1>6. ~snpl2(sab[r])
  <2>1. rd_alct(sab[s])
    BY DEF TurnInv, StateShapes, StateShape
  <2>2. sab[s].kind \in ReadKind /\ Acting(sab[s])
    BY <2>1 DEF rd_alct, rs, ReadKind, Acting
  <2> QED
    BY <2>2, SnpL2Needs
<1>7. sab[r].st = "IDLE"
  BY <1>1, <1>5, <1>6, InUse DEF snpl2
<1> QED
  BY <1>2, <1>5, <1>7 DEF FreeEntries, Valid

LEMMA OneAtATime ==
  ASSUME OrderInv, TurnInv, HitInv
  PROVE  MemOneAtATime
<1> SUFFICES ASSUME NEW s \in SID, sab[s].st = "MEMW", NEW t \in SID, t # s,
                    sab[t].line = sab[s].line, sab[t].st \in {"MEMW", "MEMR"}
             PROVE  FALSE
  BY DEF MemOneAtATime, Valid
<1>1. Seeker(sab[s]) /\ Acting(sab[s]) /\ ~rd_alct(sab[s])
  BY DEF HitInv, MemKinds, cml2, snpl2, Seeker, ReadKind, Acting, rd_alct, rs
<1>2. Seeker(sab[t]) /\ Acting(sab[t])
  BY DEF HitInv, MemKinds, cml2, snpl2, Seeker, ReadKind, Acting, rd, rs
<1>3. snpl2(sab[s]) /\ rd_alct(sab[t])
  BY <1>1, <1>2, NoTwo
<1>4. sab[t].kind \in ReadKind
  BY <1>3 DEF rd_alct, rs, ReadKind
<1>5. t = sab[s].ini
  BY <1>2, <1>3, <1>4, SnpL2Needs
<1> QED
  BY <1>3, <1>5 DEF HitInv, SnpLine

\* The ways given away are those of the reads that have not refilled yet, and a
\* read that refills finds its way empty, for any number of ways: the line
\* that was in the way has left the L2 before the read goes on, whatever writes
\* and snoops come between.
THEOREM ReadsHaveTheirWays == Spec => []RefillHasWay
<1>1. BankInv => RefillHasWay
  BY WaysOfReads DEF BankInv
<1> QED
  BY <1>1, BankInvariant, PTL

\* When at least one read entry is kept for the snoops of the L2 (two in the
\* code), a read that is to replace a line finds an entry for the snoop and a
\* way, whatever the cores have asked for.
THEOREM EntryForReplacement == ASSUME RESERVED # 0 PROVE Spec => []SnpL2HasEntry
<1>1. BankInv => SnpL2HasEntry
  BY EntryForSnpL2 DEF BankInv
<1> QED
  BY <1>1, BankInvariant, PTL

\* While a write of a line is under way to the memory, no other write of the line
\* and no read of it is: no order is asked of the memory.
THEOREM MemoryOneAtATime == Spec => []MemOneAtATime
<1>1. BankInv => MemOneAtATime
  BY OneAtATime DEF BankInv
<1> QED
  BY <1>1, BankInvariant, PTL

(***************************************************************************)
(* The values.  One bit of each copy says whether it holds the latest      *)
(* store to its line.                                                      *)
(***************************************************************************)

\* An entry that goes on, once more: what it draws its data from, and what it
\* has heard of dirty copies.
Stored(l) == \E c \in CORE : Store(c, l)
TakesDirty(t) == \E c \in CORE : SnpResp(t, c) /\ Dirty(c, sab[t].line)
DrawsNew(t) == LET e == sab[t] f == sab'[t] IN
  \/ f.new = e.new
  \/ Stored(e.line) /\ ~f.new
  \/ WriteData(t)
  \/ MemRead(t)
  \/ L2Lookup(t) /\ ~e.l1_pd /\ (e.st = "L2CR" \/ (e.st = "L2C" /\ rd(e)))
  \/ L2Write(t) /\ ~e.l1_pd /\ (cml2(e) \/ snpl2(e))
  \/ TakesDirty(t)
DrawsDirty(t) == LET e == sab[t] f == sab'[t] IN
  /\ e.l1_dt => f.l1_dt
  /\ f.l1_dt => e.l1_dt \/ TakesDirty(t)
  /\ e.l1_pd => f.l1_pd
  /\ f.l1_pd => e.l1_pd \/ (TakesDirty(t) /\ f.l1_dt /\ acsnoop(e) # "RO")
  /\ e.wt => f.wt
  /\ f.wt => e.wt \/ WriteData(t)
  /\ f.l2_pd = e.l2_pd \/ L2Lookup(t) \/ L2Write(t)
  /\ e.wns_pend => f.wns_pend
  /\ f.depd \subseteq e.depd \/ (back_mark(e) /\ f.wns_pend)
DrawsStage(t) == LET e == sab[t] f == sab'[t] IN
  /\ f.st = "L2C" => e.st = "L2C" \/ (wns(e) => e.wt)
  /\ f.st = "L2CR" => e.st = "L2CR" \/ (e.st = "SNOP" /\ f.depd = {} /\ ~f.l1_dt)
  /\ f.st = "MEMR" => (e.st = "MEMR" /\ f.l2_hit = e.l2_hit) \/ ~f.l2_hit
  /\ f.st = "MEMW" => \/ e.st = "MEMW" \/ e.l1_pd \/ e.l2_pd
                      \/ (wns(e) /\ Looked(e) /\ ~e.l2_hit)
  /\ e.st = "SNOP" => \/ f.st \in {"SNOP", "L2CR"}
                      \/ ~reply(e) /\ (f.st = "L2CW" \/ (f.st = "POP" /\ ~e.l1_pd))
  /\ e.st = "L2CW" => \/ f.st = "L2CW" /\ (f.l2c_req = e.l2c_req \/ L2Write(t))
                      \/ ~e.l2c_req /\ f.st = AfterL2CW(e)
  /\ e.st = "MEMW" => f.st = "MEMW" \/ (f.st = "POP" /\ MemWrite(t))
  /\ e.st = "POP" => f.st = "POP"
Draws(t) == DrawsNew(t) /\ DrawsDirty(t) /\ DrawsStage(t)

SameDraws(e, f) ==
  /\ f.new = e.new /\ f.l1_dt = e.l1_dt /\ f.l1_pd = e.l1_pd /\ f.wt = e.wt
  /\ f.l2_pd = e.l2_pd /\ f.wns_pend = e.wns_pend /\ f.depd = e.depd

LEMMA DrawsSame ==
  ASSUME NEW t \in SID, SameDraws(sab[t], sab'[t]),
         sab'[t].st = sab[t].st, sab'[t].l2c_req = sab[t].l2c_req,
         sab'[t].l2_hit = sab[t].l2_hit
  PROVE  Draws(t)
<1> QED
  BY DEF Draws, DrawsNew, DrawsDirty, DrawsStage, SameDraws

LEMMA DrawsOnly ==
  ASSUME NEW s \in SID, Only(s), Draws(s), NEW t \in SID
  PROVE  Draws(t)
<1>1. CASE t # s
  <2>1. sab'[t] = sab[t]
    BY <1>1 DEF Only
  <2> QED
    BY <2>1, DrawsSame DEF SameDraws
<1> QED
  BY <1>1

LEMMA MoveStages ==
  ASSUME TypeInv, TurnInv, NEW s \in SID,
         LeaveDepd(s) \/ LeaveL2(s) \/ LeaveSnop(s) \/ LeaveMemr(s) \/ MemWrite(s)
  PROVE  Only(s) /\ SameDraws(sab[s], sab'[s]) /\ DrawsStage(s)
<1> DEFINE e == sab[s]
           f == sab'[s]
<1>1. PICK to \in MainState : Advances(s, to)
  BY AdvancesTo
<1>2. Only(s) /\ GoesTo(e, f, to)
  BY <1>1, Moved DEF Advances
<1>3. /\ SameDraws(e, f) /\ f.st = to /\ f.l2_hit = e.l2_hit /\ f.depd = e.depd
      /\ f.l1_dt = e.l1_dt
  BY <1>2 DEF GoesTo, SameDraws, SameRequest
<1>4. Advances(s, f.st)
  BY <1>1, <1>3
<1>5. e.st \notin {"IDLE", "POP"} /\ e \in EntryType /\ StateShape(e) /\ e.kind \in Kind \ {"none"}
  BY <1>1, UsedShape DEF Advances
<1>6. f.st = "L2C" => (wns(e) => e.wt)
  BY <1>4 DEF Advances, LeaveDepd
<1>7. CASE e.st = "L2C"
  <2>1. LeaveL2(s)
    BY <1>7 DEF LeaveDepd, LeaveSnop, LeaveMemr, MemWrite
  <2>2. sab' = [sab EXCEPT ![s] = Goto(sab[s], AfterL2C(e))] /\ AfterL2C(e) # "L2C"
    BY <1>7, <2>1 DEF LeaveL2, Step
  <2>3. f.st = AfterL2C(e)
    <3>1. AfterL2C(e) \in MainState
      BY <1>5, AfterL2CCases
    <3>2. GoesTo(e, f, AfterL2C(e))
      BY <2>2, <3>1, Moved
    <3> QED
      BY <3>2 DEF GoesTo
  <2>4. /\ f.st = "MEMR" => ~e.l2_hit
        /\ f.st = "MEMW" => wns(e) /\ ~e.l2_hit
        /\ f.st # "L2CR"
    BY <1>5, <2>3, AfterL2CCases
  <2>5. ~e.l2c_req
    BY <1>4 DEF Advances
  <2> QED
    BY <1>2, <1>3, <1>6, <1>7, <2>4, <2>5 DEF DrawsStage, Looked, Acting
<1>8. CASE e.st = "SNOP"
  <2>1. LeaveSnop(s)
    BY <1>8 DEF LeaveDepd, LeaveL2, LeaveMemr, MemWrite
  <2>2. sab' = [sab EXCEPT ![s] = Goto(sab[s], AfterSnop(e))] /\ e.depd = {}
    BY <2>1 DEF LeaveSnop, Step
  <2>3. f.st = AfterSnop(e)
    <3>1. AfterSnop(e) \in MainState
      BY DEF AfterSnop, MainState
    <3>2. GoesTo(e, f, AfterSnop(e))
      BY <2>2, <3>1, Moved
    <3> QED
      BY <3>2 DEF GoesTo
  <2>4. /\ f.st \in {"L2CR", "POP", "L2CW"}
        /\ reply(e) <=> f.st = "L2CR"
        /\ f.st = "POP" => ~e.l1_pd
    <3>1. AfterSnop(e) \in {"L2CR", "POP", "L2CW"}
      BY DEF AfterSnop
    <3>2. CASE reply(e)
      <4>1. AfterSnop(e) = "L2CR"
        BY <3>2 DEF AfterSnop, reply, rd, rs
      <4> QED
        BY <2>3, <3>2, <4>1
    <3>3. CASE ~reply(e)
      <4>1. AfterSnop(e) # "L2CR" /\ (AfterSnop(e) = "POP" => ~e.l1_pd)
        BY <3>3 DEF AfterSnop, reply, rd, rs
      <4> QED
        BY <2>3, <3>1, <3>3, <4>1
    <3> QED
      BY <3>2, <3>3
  <2>5. reply(e) => ~e.l1_dt
    BY DEF reply
  <2> QED
    BY <1>2, <1>3, <1>8, <2>2, <2>4, <2>5 DEF DrawsStage
<1>9. CASE e.st = "L2CW"
  <2>1. LeaveL2(s)
    BY <1>9 DEF LeaveDepd, LeaveSnop, LeaveMemr, MemWrite
  <2>2. sab' = [sab EXCEPT ![s] = Goto(sab[s], AfterL2CW(e))] /\ ~e.l2c_req
    BY <1>9, <2>1 DEF LeaveL2, Step
  <2>3. f.st = AfterL2CW(e)
    <3>1. AfterL2CW(e) \in MainState
      BY DEF AfterL2CW, MainState
    <3>2. GoesTo(e, f, AfterL2CW(e))
      BY <2>2, <3>1, Moved
    <3> QED
      BY <3>2 DEF GoesTo
  <2>4. f.st \in {"MEMW", "POP"} /\ (f.st = "MEMW" => e.l1_pd \/ e.l2_pd)
    BY <2>3 DEF AfterL2CW
  <2> QED
    BY <1>2, <1>3, <1>9, <2>2, <2>3, <2>4 DEF DrawsStage
<1>10. CASE e.st \notin {"L2C", "SNOP", "L2CW"}
  <2>1. f.st \notin {"L2CR", "MEMR", "MEMW"}
    BY <1>4, <1>10 DEF Advances
  <2>2. e.st = "MEMW" => f.st = "POP" /\ MemWrite(s)
    <3> SUFFICES ASSUME e.st = "MEMW" PROVE f.st = "POP" /\ MemWrite(s)
      OBVIOUS
    <3>1. MemWrite(s)
      BY DEF LeaveDepd, LeaveL2, LeaveSnop, LeaveMemr
    <3> QED
      BY <1>4, <3>1 DEF Advances
  <2> QED
    BY <1>2, <1>3, <1>5, <1>6, <1>10, <2>1, <2>2 DEF DrawsStage
<1> QED
  BY <1>7, <1>8, <1>9, <1>10

LEMMA TakesFull ==
  ASSUME TypeInv, NEW t \in SID, TakesDirty(t)
  PROVE  sab'[t].l1_dt
<1>1. PICK c \in CORE : SnpResp(t, c) /\ Dirty(c, sab[t].line)
  BY DEF TakesDirty
<1> QED
  BY <1>1, SnpRespFull DEF Snooped

LEMMA MoveDraws ==
  ASSUME TypeInv, TurnInv, NEW s \in SID,
         LeaveDepd(s) \/ LeaveL2(s) \/ LeaveSnop(s) \/ LeaveMemr(s) \/ MemWrite(s)
  PROVE  Only(s) /\ Draws(s)
<1>1. Only(s) /\ SameDraws(sab[s], sab'[s]) /\ DrawsStage(s)
  BY MoveStages
<1> QED
  BY <1>1 DEF Draws, DrawsNew, DrawsDirty, SameDraws

LEMMA AccessDraws ==
  ASSUME TypeInv, TurnInv, NEW s \in SID,
         WriteData(s) \/ MemRead(s) \/ L2Lookup(s) \/ L2Write(s) \/ SendB(s) \/ SendR(s)
  PROVE  Only(s) /\ Draws(s)
<1> DEFINE e == sab[s]
           f == sab'[s]
<1>1. CASE WriteData(s)
  <2>1. /\ Only(s) /\ SameRequest(e, f) /\ SameSnoops(e, f) /\ SameAccess(e, f)
        /\ f.wt /\ e.st = "DEPD"
    BY <1>1, WriteDataFull DEF WriteData
  <2>2. DrawsNew(s)
    BY <1>1 DEF DrawsNew
  <2>3. DrawsDirty(s)
    BY <1>1, <2>1 DEF DrawsDirty, SameRequest, SameSnoops, SameAccess
  <2>4. DrawsStage(s)
    BY <2>1 DEF DrawsStage, SameAccess
  <2> QED
    BY <2>1, <2>2, <2>3, <2>4 DEF Draws
<1>2. CASE MemRead(s)
  <2>1. /\ Only(s) /\ SameRequest(e, f) /\ SameSnoops(e, f) /\ SameAnswer(e, f)
        /\ f.st = e.st /\ f.l2c_req = e.l2c_req /\ f.l2_hit = e.l2_hit /\ f.l2_pd = e.l2_pd
    BY <1>2, MemReadFull
  <2>2. DrawsNew(s)
    BY <1>2 DEF DrawsNew
  <2>3. DrawsDirty(s)
    BY <2>1 DEF DrawsDirty, SameRequest, SameSnoops, SameAnswer
  <2>4. DrawsStage(s)
    BY <2>1 DEF DrawsStage
  <2> QED
    BY <2>1, <2>2, <2>3, <2>4 DEF Draws
<1>3. CASE L2Lookup(s)
  <2>1. Only(s) /\ LooksUp(e, f)
    BY <1>3, L2LookupFull
  <2>2. e.st \in {"L2C", "L2CR", "L2CT"}
    BY <1>3 DEF L2Lookup
  <2>3. /\ SameRequest(e, f) /\ SameAnswer(e, f) /\ f.st = e.st
        /\ f.l1_dt = e.l1_dt /\ f.l1_pd = e.l1_pd /\ f.wns_pend = e.wns_pend
    BY <2>1 DEF LooksUp
  <2>4. DrawsNew(s)
    BY <1>3, <2>1, <2>3 DEF DrawsNew, LooksUp
  <2>5. DrawsDirty(s)
    BY <1>3, <2>3 DEF DrawsDirty, SameRequest, SameAnswer
  <2>6. DrawsStage(s)
    BY <2>2, <2>3 DEF DrawsStage
  <2> QED
    BY <2>1, <2>4, <2>5, <2>6 DEF Draws
<1>4. CASE L2Write(s)
  <2>1. Only(s) /\ Written(e, f)
    BY <1>4, L2WriteFull
  <2>2. e.st = "L2CW"
    BY <1>4 DEF L2Write
  <2>3. /\ SameRequest(e, f) /\ SameAnswer(e, f) /\ SameSnoops(e, f) /\ f.st = e.st
        /\ ~cml2(e) /\ ~snpl2(e) => f.new = e.new
        /\ cml2(e) \/ snpl2(e) => f.new = e.new \/ clean(e) \/ (inv(e) /\ ~e.l1_pd)
    BY <2>1 DEF Written
  <2>4. DrawsNew(s)
    BY <1>4, <2>3 DEF DrawsNew, clean
  <2>5. DrawsDirty(s)
    BY <1>4, <2>3 DEF DrawsDirty, SameRequest, SameAnswer, SameSnoops
  <2>6. DrawsStage(s)
    BY <1>4, <2>2, <2>3 DEF DrawsStage
  <2> QED
    BY <2>1, <2>4, <2>5, <2>6 DEF Draws
<1>5. CASE SendB(s) \/ SendR(s)
  <2>1. Only(s) /\ Answered(e, f)
    BY <1>5, SendBFull, SendRFull
  <2>2. SameDraws(e, f) /\ f.st = e.st /\ f.l2c_req = e.l2c_req /\ f.l2_hit = e.l2_hit
    BY <2>1 DEF Answered, SameRequest, SameSnoops, SameAccess, SameDraws
  <2> QED
    BY <2>1, <2>2, DrawsSame
<1> QED
  BY <1>1, <1>2, <1>3, <1>4, <1>5

LEMMA SnpRespDraws ==
  ASSUME TypeInv, TurnInv, NEW s \in SID, NEW c \in CORE, SnpResp(s, c)
  PROVE  Only(s) /\ Draws(s)
<1> DEFINE e == sab[s]
           f == sab'[s]
           D == Dirty(c, e.line)
<1>1. Only(s) /\ Snooped(e, f, c)
  BY SnpRespFull
<1>2. /\ SameRequest(e, f) /\ SameAccess(e, f) /\ SameAnswer(e, f)
      /\ f.wns_pend = e.wns_pend
      /\ f.l1_dt <=> e.l1_dt \/ D
      /\ f.l1_pd <=> e.l1_pd \/ (D /\ acsnoop(e) # "RO")
      /\ ~D => f.new = e.new
  BY <1>1 DEF Snooped, Dirty
<1>3. D => TakesDirty(s)
  BY DEF TakesDirty
<1> HIDE DEF D
<1>4. DrawsNew(s)
  BY <1>2, <1>3 DEF DrawsNew
<1>5. DrawsDirty(s)
  BY <1>2, <1>3 DEF DrawsDirty, SameRequest, SameAccess, SameAnswer
<1>6. DrawsStage(s)
  BY <1>2 DEF DrawsStage, SameAccess
<1> QED
  BY <1>1, <1>4, <1>5, <1>6 DEF Draws

LEMMA StoreDraws ==
  ASSUME TypeInv, NEW c \in CORE, NEW l \in LINE, Store(c, l), NEW t \in SID
  PROVE  Draws(t)
<1> DEFINE e == sab[t]
           f == sab'[t]
<1>1. /\ SameButNew(e, f)
      /\ f.new <=> e.new /\ e.line # l
      /\ f \in EntryType /\ e \in EntryType
  BY StoreFull, Ini
<1>2. f.new \in BOOLEAN /\ e.new \in BOOLEAN
  BY <1>1 DEF EntryType
<1>3. DrawsNew(t)
  <2>1. CASE e.line = l
    BY <1>1, <2>1 DEF DrawsNew, Stored
  <2>2. CASE e.line # l
    BY <1>1, <1>2, <2>2 DEF DrawsNew
  <2> QED
    BY <2>1, <2>2
<1>4. /\ f.l1_dt = e.l1_dt /\ f.l1_pd = e.l1_pd /\ f.wt = e.wt /\ f.l2_pd = e.l2_pd
      /\ f.wns_pend = e.wns_pend /\ f.depd = e.depd /\ f.st = e.st
      /\ f.l2c_req = e.l2c_req /\ f.l2_hit = e.l2_hit
  BY <1>1 DEF SameButNew, SameRequest, SameSnoops, SameAccess, SameAnswer
<1> QED
  BY <1>3, <1>4 DEF Draws, DrawsDirty, DrawsStage

LEMMA CoreDraws ==
  ASSUME TypeInv, NEW c \in CORE, CoreStep(c), NEW t \in SID
  PROVE  Draws(t)
<1>1. CASE \E l \in LINE : Store(c, l)
  BY <1>1, StoreDraws
<1>2. CASE ~\E l \in LINE : Store(c, l)
  <2>1. UNCHANGED sab
    BY <1>2 DEF CoreStep, IssueRead, Replace, CleanOwn, CleanInvOwn, SendAw, ToVictimBuffer
  <2> QED
    BY <2>1, DrawsSame DEF SameDraws
<1> QED
  BY <1>1, <1>2

LEMMA CreateDraws ==
  ASSUME TypeInv, NEW c \in CORE, CreateStep(c), NEW t \in SID, t \in Valid
  PROVE  Draws(t)
<1>1. CASE CreateRead(c)
  <2>1. PICK n \in SID : n = Lowest(FreeEntries(PiuSid))
    BY <1>1, CreateReadFull
  <2>2. n \notin Valid /\ Only(n)
    BY <1>1, <2>1, CreateReadFull
  <2>3. sab'[t] = sab[t]
    BY <2>2 DEF Only
  <2> QED
    BY <2>3, DrawsSame DEF SameDraws
<1>2. CASE CreateWrite(c)
  <2>1. PICK n \in SID : n = Lowest(FreeEntries(WSID))
    BY <1>2, CreateWriteFull
  <2>2. n \notin Valid /\ \A u \in SID \ {n} : MarkedBack(sab[u], sab'[u], n)
    BY <1>2, <2>1, CreateWriteFull
  <2> DEFINE e == sab[t]
             f == sab'[t]
  <2>3. MarkedBack(e, f, n)
    BY <2>2
  <2>4. /\ SameAccess(e, f) /\ SameAnswer(e, f) /\ f.new = e.new
        /\ f.l1_dt = e.l1_dt /\ f.l1_pd = e.l1_pd
        /\ f.wns_pend <=> e.wns_pend \/ back_mark(e)
        /\ f.depd = IF back_mark(e) THEN e.depd \cup {n} ELSE e.depd
    BY <2>3 DEF MarkedBack
  <2>5. DrawsDirty(t)
    BY <2>4 DEF DrawsDirty, SameAccess, SameAnswer
  <2> QED
    BY <2>4, <2>5 DEF Draws, DrawsNew, DrawsStage, SameAccess
<1> QED
  BY <1>1, <1>2 DEF CreateStep

LEMMA L2AllocateDraws ==
  ASSUME OrderInv, TurnInv, NEW s \in SID, L2Allocate(s), NEW t \in SID, t \in Valid
  PROVE  Draws(t)
<1>1. TypeInv /\ Fetches(sab[s], sab'[s]) /\ sab[s].st = "L2CA"
  BY L2AllocateFull DEF OrderInv, L2Allocate
<1>2. StateShape(sab[s])
  BY DEF TurnInv, StateShapes
<1>3. CASE t = s
  <2> DEFINE e == sab[s]
             f == sab'[s]
  <2>1. SameDraws(e, f) /\ f.st = "MEMR" /\ f.l2_hit = e.l2_hit
    BY <1>1 DEF Fetches, SameRequest, SameAnswer, SameDraws
  <2>2. ~e.l2_hit /\ e.st = "L2CA"
    BY <1>1, <1>2 DEF StateShape
  <2> QED
    BY <1>3, <2>1, <2>2 DEF Draws, DrawsNew, DrawsDirty, DrawsStage, SameDraws
<1>4. CASE t # s
  <2>1. sab'[t] = sab[t]
    BY <1>1, <1>4, L2AllocateFull DEF Only
  <2> QED
    BY <2>1, DrawsSame DEF SameDraws
<1> QED
  BY <1>3, <1>4

LEMMA EntryDraws ==
  ASSUME OrderInv, TurnInv, [Next]_vars, NEW t \in SID, t \in Valid
  PROVE  Dies(t) \/ Draws(t)
<1>1. TypeInv
  BY DEF OrderInv
<1>2. CASE UNCHANGED vars
  BY <1>2, DrawsSame DEF vars, SameDraws
<1>3. ASSUME NEW c \in CORE, CoreStep(c) \/ CreateStep(c)
      PROVE  Draws(t)
  BY <1>1, <1>3, CoreDraws, CreateDraws
<1>4. ASSUME NEW s \in SID, EntryStep(s)
      PROVE  Dies(t) \/ Draws(t)
  <2>1. CASE LeaveDepd(s) \/ LeaveL2(s) \/ LeaveSnop(s) \/ LeaveMemr(s) \/ MemWrite(s)
    BY <1>1, <2>1, MoveDraws, DrawsOnly
  <2>2. CASE WriteData(s) \/ MemRead(s) \/ L2Lookup(s) \/ L2Write(s) \/ SendB(s) \/ SendR(s)
    BY <1>1, <2>2, AccessDraws, DrawsOnly
  <2>3. CASE L2Allocate(s)
    BY <2>3, L2AllocateDraws
  <2>4. CASE \E c \in CORE : SnpResp(s, c)
    BY <1>1, <2>4, SnpRespDraws, DrawsOnly
  <2>5. CASE Pop(s)
    <3>1. /\ sab'[s] = IdleEntry
          /\ \A u \in SID \ {s} : Released(sab[u], sab'[u], s, snpl2(sab[s]) /\ sab[s].ini = u)
      BY <1>1, <2>5, PopFull
    <3>2. CASE t = s
      BY <2>5, <3>1, <3>2 DEF Dies
    <3>3. CASE t # s
      <4> DEFINE e == sab[t]
                 f == sab'[t]
      <4>1. Released(e, f, s, snpl2(sab[s]) /\ sab[s].ini = t)
        BY <3>1, <3>3
      <4>2. /\ f.new = e.new /\ f.l1_dt = e.l1_dt /\ f.l1_pd = e.l1_pd /\ f.wt = e.wt
            /\ f.l2_pd = e.l2_pd /\ f.wns_pend = e.wns_pend /\ f.depd \subseteq e.depd
            /\ f.st = e.st /\ f.l2c_req = e.l2c_req /\ f.l2_hit = e.l2_hit
        BY <4>1 DEF Released, SameSnoops, SameAnswer
      <4> QED
        BY <4>2 DEF Draws, DrawsNew, DrawsDirty, DrawsStage
    <3> QED
      BY <3>2, <3>3
  <2> QED
    BY <1>4, <2>1, <2>2, <2>3, <2>4, <2>5 DEF EntryStep
<1> QED
  BY <1>2, <1>3, <1>4 DEF Next

\* Where the value of a copy and of a victim comes from, and where a dirty copy
\* goes.
CopyFrom(c, l) == l1'[c][l].st # "I" =>
  \/ l1[c][l].st # "I" /\ l1'[c][l].new = l1[c][l].new
  \/ Stored(l)
  \/ \E s \in SID : /\ SendR(s) /\ sab[s].kind \in {"rs", "ru"}
                    /\ sab[s].mid = c /\ sab[s].line = l
                    /\ l1'[c][l].new = sab[s].new
OwesFrom(c, l) == Owing(c, l)' =>
  \/ Owing(c, l) /\ (vb'[c].new <=> vb[c].new)
  \/ l1[c][l].st = "M" /\ vb'[c].new = l1[c][l].new
  \/ Stored(l)
DirtyGoes(c, l) == DirtyAt(c, l) =>
  \/ DirtyAt(c, l)'
  \/ CreateWrite(c) /\ Owing(c, l)
  \/ \E s \in SID : /\ SnpResp(s, c) /\ sab[s].line = l
                    /\ Dirty(c, l) /\ acsnoop(sab[s]) # "RO"
ValueFrom(c, l) == CopyFrom(c, l) /\ OwesFrom(c, l) /\ DirtyGoes(c, l)

LEMMA ValueUnchanged ==
  ASSUME UNCHANGED <<l1, vb>>, NEW c \in CORE, NEW l \in LINE
  PROVE  ValueFrom(c, l)
BY DEF ValueFrom, CopyFrom, OwesFrom, DirtyGoes, DirtyAt, Owing

LEMMA StoreValue ==
  ASSUME TypeInv, NEW d \in CORE, NEW m \in LINE, Store(d, m),
         NEW c \in CORE, NEW l \in LINE
  PROVE  ValueFrom(c, l)
<1>1. /\ vb'[c].st = vb[c].st /\ vb'[c].kind = vb[c].kind /\ vb'[c].line = vb[c].line
      /\ vb'[c].new <=> vb[c].new /\ vb[c].line # m
      /\ l # m => l1'[c][l] = l1[c][l]
      /\ l1[c][l].st = "M" => l1'[c][l].st = "M"
  <2>1. /\ \A x \in CORE, y \in LINE : y # m => l1'[x][y] = l1[x][y]
        /\ \A x \in CORE : x # d => l1'[x][m].st = l1[x][m].st
        /\ l1'[d][m].st = "M"
    BY StoreFull
  <2> QED
    BY <2>1, StoreFull
<1>3. CopyFrom(c, l)
  BY <1>1 DEF CopyFrom, Stored
<1>4. OwesFrom(c, l)
  BY <1>1 DEF OwesFrom, Owing, Stored
<1>5. DirtyGoes(c, l)
  BY <1>1 DEF DirtyGoes, DirtyAt, Owing
<1> QED
  BY <1>3, <1>4, <1>5 DEF ValueFrom

LEMMA LeavesValue ==
  ASSUME TypeInv, NEW d \in CORE, NEW m \in LINE,
         Replace(d, m) \/ CleanOwn(d, m) \/ CleanInvOwn(d, m),
         NEW c \in CORE, NEW l \in LINE
  PROVE  ValueFrom(c, l)
<1> DEFINE copy == [l1[d][m] EXCEPT !.st = "E"]
<1>1. /\ Invalid \in LineInL1 /\ Invalid.st = "I"
      /\ copy \in LineInL1 /\ copy.st = "E" /\ copy.new = l1[d][m].new
  BY DEF Invalid, TypeInv, Rest, Level1, LineInL1
<1> HIDE DEF copy
<1>2. ASSUME NEW k \in WriteKind, NEW r \in LineInL1, ToVictimBuffer(d, m, k, r),
             k # "evict" <=> l1[d][m].st = "M",
             l1[d][m].st # "I", r.st = "I" \/ r.new = l1[d][m].new
      PROVE  ValueFrom(c, l)
  <2>1. /\ UNCHANGED <<sab, l2, rplc, mem, req>>
        /\ vb[d].st = "none"
        /\ \A x \in CORE : x # d => vb'[x] = vb[x]
        /\ vb'[d] = [st |-> "hold", kind |-> k, line |-> m, new |-> l1[d][m].new]
        /\ OtherLines(d, m) /\ l1'[d][m] = r
    BY <1>2, ToVictimBufferFull
  <2>2. vb'[d].st = "hold" /\ vb'[d].kind = k /\ vb'[d].line = m /\ vb'[d].new = l1[d][m].new
    BY <2>1
  <2>3. CopyFrom(c, l)
    BY <1>2, <2>1 DEF CopyFrom, OtherLines
  <2>4. OwesFrom(c, l)
    BY <1>2, <2>1, <2>2 DEF OwesFrom, Owing, WriteKind
  <2>5. DirtyGoes(c, l)
    <3>1. CASE c = d /\ l = m
      <4>1. l1[d][m].st = "M" => Owing(d, m)'
        BY <1>2, <2>2 DEF Owing, WriteKind
      <4>2. ~Owing(d, m)
        BY <2>1 DEF Owing
      <4> QED
        BY <3>1, <4>1, <4>2 DEF DirtyGoes, DirtyAt
    <3>2. CASE c = d /\ l # m
      <4>1. ~Owing(d, l) /\ l1'[d][l] = l1[d][l]
        BY <2>1, <3>2 DEF Owing, OtherLines
      <4> QED
        BY <3>2, <4>1 DEF DirtyGoes, DirtyAt
    <3>3. CASE c # d
      BY <2>1, <3>3 DEF DirtyGoes, DirtyAt, Owing, OtherLines
    <3> QED
      BY <3>1, <3>2, <3>3
  <2> QED
    BY <2>3, <2>4, <2>5 DEF ValueFrom
<1>3. CASE Replace(d, m)
  BY <1>1, <1>2, <1>3 DEF Replace, WriteKind
<1>4. CASE CleanOwn(d, m)
  BY <1>1, <1>2, <1>4 DEF CleanOwn, WriteKind, copy
<1>5. CASE CleanInvOwn(d, m)
  <2>1. UNCHANGED <<vb, req>> /\ OtherLines(d, m) /\ l1'[d][m] = Invalid /\ l1[d][m].st # "M"
    BY <1>5, CleanInvOwnFull DEF CleanInvOwn
  <2>2. OwesFrom(c, l)
    BY <2>1 DEF OwesFrom, Owing
  <2>3. CopyFrom(c, l)
    BY <1>1, <2>1 DEF CopyFrom, OtherLines
  <2>4. DirtyGoes(c, l)
    BY <2>1 DEF DirtyGoes, DirtyAt, Owing, OtherLines
  <2> QED
    BY <2>2, <2>3, <2>4 DEF ValueFrom
<1> QED
  BY <1>3, <1>4, <1>5

LEMMA HandsOverValue ==
  ASSUME TypeInv, NEW d \in CORE, SendAw(d) \/ CreateRead(d) \/ CreateWrite(d),
         NEW c \in CORE, NEW l \in LINE
  PROVE  ValueFrom(c, l)
<1>1. CASE SendAw(d)
  <2>1. /\ UNCHANGED l1 /\ (d # c => vb'[c] = vb[c])
        /\ vb[d].st = "hold" /\ vb'[d].st = "sent" /\ vb'[d].kind = vb[d].kind
        /\ vb'[d].line = vb[d].line /\ vb'[d].new = vb[d].new
    BY <1>1, SendAwFull
  <2> QED
    BY <2>1 DEF ValueFrom, CopyFrom, OwesFrom, DirtyGoes, DirtyAt, Owing
<1>2. CASE CreateRead(d)
  BY <1>2, ValueUnchanged DEF CreateRead
<1>3. CASE CreateWrite(d)
  <2>1. UNCHANGED l1 /\ (d # c => vb'[c] = vb[c]) /\ vb'[d].st = "sab"
    BY <1>3, CreateWriteFull DEF CreateWrite
  <2>2. CopyFrom(c, l) /\ OwesFrom(c, l)
    BY <2>1 DEF CopyFrom, OwesFrom, Owing
  <2>3. DirtyGoes(c, l)
    BY <1>3, <2>1 DEF DirtyGoes, DirtyAt, Owing
  <2> QED
    BY <2>2, <2>3 DEF ValueFrom
<1> QED
  BY <1>1, <1>2, <1>3

LEMMA SnpRespValue ==
  ASSUME TypeInv, NEW s \in SID, NEW d \in CORE, SnpResp(s, d),
         NEW c \in CORE, NEW l \in LINE
  PROVE  ValueFrom(c, l)
<1> DEFINE m == sab[s].line
           k == acsnoop(sab[s])
<1>1. /\ m \in LINE
      /\ \A x \in CORE : x # d => vb'[x] = vb[x]
      /\ vb'[d] = IF Cancel(d, m) \/ (Bypass(d, m) /\ k # "RO") THEN NoVB ELSE vb[d]
      /\ OtherLines(d, m)
      /\ k = "CI" => l1'[d][m] = Invalid
      /\ k = "CS" => l1'[d][m].st = IF l1[d][m].st = "I" THEN "I" ELSE "S"
      /\ k # "CI" => l1'[d][m].new = l1[d][m].new
      /\ k \notin {"CI", "CS"} => l1'[d][m].st = l1[d][m].st
  BY SnpRespFull
<1>2. vb[d].line = m => vb[d].st = "hold"
  BY DEF SnpResp
<1>3. SnpResp(s, d) /\ sab[s].line = m /\ (k # "RO" => acsnoop(sab[s]) # "RO")
  OBVIOUS
<1> HIDE DEF k, m
<1>4. ~(c = d /\ l = m) => l1'[c][l] = l1[c][l]
  BY <1>1 DEF OtherLines
<1>5. l1'[d][m].st # "I" => l1[d][m].st # "I" /\ l1'[d][m].new = l1[d][m].new
  BY <1>1 DEF Invalid
<1>6. CopyFrom(c, l)
  BY <1>4, <1>5 DEF CopyFrom
<1>7. OwesFrom(c, l)
  BY <1>1 DEF OwesFrom, Owing, NoVB
<1>8. DirtyGoes(c, l)
  <2>1. CASE c # d
    BY <1>1, <1>4, <2>1 DEF DirtyGoes, DirtyAt, Owing
  <2>2. CASE c = d /\ l # m
    <3>1. Owing(d, l) => vb'[d] = vb[d]
      BY <1>1, <2>2 DEF Owing, Cancel, Bypass
    <3> QED
      BY <1>4, <2>2, <3>1 DEF DirtyGoes, DirtyAt, Owing
  <2>3. CASE c = d /\ l = m /\ k # "RO"
    <3>1. DirtyAt(d, m) => Dirty(d, m)
      BY <1>2 DEF DirtyAt, Dirty, Bypass, Owing
    <3> QED
      BY <1>3, <2>3, <3>1 DEF DirtyGoes
  <2>4. CASE c = d /\ l = m /\ k = "RO"
    <3>1. l1'[d][m].st = l1[d][m].st
      BY <1>1, <2>4
    <3>2. Owing(d, m) => vb'[d] = vb[d]
      BY <1>1, <2>4 DEF Owing, Cancel
    <3> QED
      BY <2>4, <3>1, <3>2 DEF DirtyGoes, DirtyAt, Owing
  <2> QED
    BY <2>1, <2>2, <2>3, <2>4
<1> QED
  BY <1>6, <1>7, <1>8 DEF ValueFrom

LEMMA AnswerValue ==
  ASSUME TypeInv, ClaimInv, NEW s \in SID, SendB(s) \/ SendR(s),
         NEW c \in CORE, NEW l \in LINE
  PROVE  ValueFrom(c, l)
<1>1. CASE SendB(s)
  <2>1. UNCHANGED l1 /\ vb'[c] = IF c = sab[s].mid THEN NoVB ELSE vb[c]
    BY <1>1, SendBFull DEF SendB
  <2>2. vb[sab[s].mid].st = "sab"
    BY <1>1 DEF SendB, ClaimInv, Victims, WriteOpen
  <2> QED
    BY <2>1, <2>2 DEF ValueFrom, CopyFrom, OwesFrom, DirtyGoes, DirtyAt, Owing, NoVB
<1>2. CASE SendR(s)
  <2> DEFINE e == sab[s]
             x == e.mid
             m == e.line
  <2>1. /\ x \in CORE /\ m \in LINE
        /\ OtherLines(x, m)
        /\ e.kind = "rs" => l1'[x][m] = [st |-> IF e.l1_sh THEN "S" ELSE "E", new |-> e.new]
        /\ e.kind = "ru" => l1'[x][m] = [st |-> "E", new |-> e.new]
        /\ e.kind = "cu" /\ l1[x][m].st = "S" => l1'[x][m].st = "E"
        /\ e.kind \notin {"rs", "ru"} => l1'[x][m].new = l1[x][m].new
        /\ e.kind \notin {"rs", "ru"} /\ ~(e.kind = "cu" /\ l1[x][m].st = "S")
             => l1'[x][m].st = l1[x][m].st
    BY <1>2, SendRFull
  <2>2. UNCHANGED vb
    BY <1>2 DEF SendR
  <2>3. e.kind \in {"rs", "ru"} => l1[x][m].st = "I"
    <3>1. Open(e)
      BY <1>2 DEF SendR, Open
    <3>2. req[x].kind = e.kind /\ req[x].line = m
      BY <3>1 DEF ClaimInv, Answering
    <3>3. req[x].kind \in FillKind => l1[x][req[x].line].st = "I"
      BY <2>1 DEF ClaimInv, Asking
    <3> QED
      BY <3>2, <3>3 DEF FillKind
  <2>4. ~(c = x /\ l = m) => l1'[c][l] = l1[c][l]
    BY <2>1 DEF OtherLines
  <2>5. e.kind \in {"rs", "ru"} => l1'[x][m].new = e.new
    BY <2>1
  <2>6. CopyFrom(c, l)
    BY <1>2, <2>1, <2>4, <2>5 DEF CopyFrom
  <2>7. l1[c][l].st = "M" => l1'[c][l].st = "M"
    BY <2>1, <2>3, <2>4
  <2> QED
    BY <2>2, <2>6, <2>7 DEF ValueFrom, OwesFrom, DirtyGoes, DirtyAt, Owing
<1> QED
  BY <1>1, <1>2

LEMMA ValueSide ==
  ASSUME TypeInv, ClaimInv, [Next]_vars, NEW c \in CORE, NEW l \in LINE
  PROVE  ValueFrom(c, l)
<1>1. CASE UNCHANGED vars
  BY <1>1, ValueUnchanged DEF vars
<1>2. ASSUME NEW d \in CORE, CoreStep(d)
      PROVE  ValueFrom(c, l)
  <2>1. CASE \E m \in LINE : \E k \in READS : IssueRead(d, k, m)
    BY <2>1, ValueUnchanged DEF IssueRead
  <2> QED
    BY <1>2, <2>1, StoreValue, LeavesValue, HandsOverValue DEF CoreStep
<1>3. ASSUME NEW d \in CORE, CreateStep(d)
      PROVE  ValueFrom(c, l)
  BY <1>3, HandsOverValue DEF CreateStep
<1>4. ASSUME NEW s \in SID, EntryStep(s)
      PROVE  ValueFrom(c, l)
  <2>1. CASE \E d \in CORE : SnpResp(s, d)
    BY <2>1, SnpRespValue
  <2>2. CASE SendB(s) \/ SendR(s)
    BY <2>2, AnswerValue
  <2>3. CASE ~(\E d \in CORE : SnpResp(s, d)) /\ ~SendB(s) /\ ~SendR(s)
    <3>1. UNCHANGED <<l1, vb>>
      BY <1>4, <2>3 DEF EntryStep, WriteData, LeaveDepd, L2Lookup, L2Allocate, L2Write,
         LeaveL2, LeaveSnop, MemRead, LeaveMemr, MemWrite, Pop, Step
    <3> QED
      BY <3>1, ValueUnchanged
  <2> QED
    BY <2>1, <2>2, <2>3
<1> QED
  BY <1>1, <1>2, <1>3, <1>4 DEF Next

\* The data of a read is there, for good or until a snoop brings better.
GotData(e) == /\ e.st # "L2CA" /\ (e.st = "MEMR" => e.memr = "cmplt")
              /\ (e.st = "L2C" => e.l2_hit) /\ ~(e.st = "L2CR" /\ e.l2c_req)

\* How long an entry keeps what it has for the L2, and when a read gets its
\* data.
StaysUp(t) == LET e == sab[t] f == sab'[t] IN
  /\ wns(e) \/ (e.l1_pd /\ e.st # "L2C" /\ e.kind \notin {"ro", "evict"}) \/ cml2(e) \/ snpl2(e)
  /\ Unwritten(e)
  => Unwritten(f) \/ L2Write(t) \/ (wns(e) /\ f.st = "MEMW")
StaysGot(t) == LET e == sab[t] f == sab'[t] IN
  /\ rd(e) /\ Looked(e) /\ GotData(f)
       => GotData(e) \/ MemRead(t) \/ (L2Lookup(t) /\ e.st = "L2CR")
  /\ f.st = "L2CR" /\ e.st # "L2CR" => f.l2c_req
Stays(t) == StaysUp(t) /\ StaysGot(t)

SameStay(e, f) ==
  f.st = e.st /\ f.l2c_req = e.l2c_req /\ f.l2_hit = e.l2_hit /\ f.memr = e.memr

LEMMA StaysSame ==
  ASSUME NEW t \in SID, SameStay(sab[t], sab'[t])
  PROVE  Stays(t)
BY DEF SameStay, Stays, StaysUp, StaysGot, Unwritten, GotData

LEMMA StaysOnly ==
  ASSUME NEW s \in SID, Only(s), Stays(s), NEW t \in SID
  PROVE  Stays(t)
<1>1. CASE t # s
  <2>1. sab'[t] = sab[t]
    BY <1>1 DEF Only
  <2> QED
    BY <2>1, StaysSame DEF SameStay
<1> QED
  BY <1>1

LEMMA MoveStays ==
  ASSUME TypeInv, TurnInv, SnoopsHit, NEW s \in SID,
         LeaveDepd(s) \/ LeaveL2(s) \/ LeaveSnop(s) \/ LeaveMemr(s) \/ MemWrite(s)
  PROVE  Only(s) /\ Stays(s)
<1> DEFINE e == sab[s]
           f == sab'[s]
<1>1. PICK to \in MainState : Advances(s, to)
  BY AdvancesTo
<1>2. Only(s) /\ GoesTo(e, f, to)
  BY <1>1, Moved DEF Advances
<1>3. /\ f.st = to
      /\ f.l2c_req <=> \/ to \in {"L2C", "L2CR", "L2CA", "L2CT"}
                       \/ to = "L2CW" /\ e.kind # "ro"
      /\ f.memr = IF to = "MEMR" THEN "req" ELSE e.memr
      /\ f.l2_hit = e.l2_hit
  BY <1>2 DEF GoesTo
<1>4. e.kind \in Kind \ {"none"} /\ StateShape(e)
  BY <1>1, UsedShape DEF Advances
<1>5. StaysUp(s)
  <2> SUFFICES ASSUME wns(e) \/ (e.l1_pd /\ e.st # "L2C" /\ e.kind \notin {"ro", "evict"}) \/ cml2(e) \/ snpl2(e),
                      Unwritten(e), ~(wns(e) /\ f.st = "MEMW")
               PROVE  Unwritten(f)
    BY DEF StaysUp
  <2>1. e.st # "L2CW" /\ e.kind # "ro"
    BY <1>1 DEF Unwritten, Advances, wns, cml2, snpl2
  <2>2. to # "MEMW"
    BY <1>1, <1>3, <2>1 DEF Advances
  <2>3. to # "POP"
    <3> SUFFICES ASSUME to = "POP" PROVE FALSE
      OBVIOUS
    <3>1. evict(e) \/ e.kind = "csl1"
      BY <1>1, <2>1 DEF Advances, Unwritten
    <3>2. e.kind = "csl1" /\ e.l1_pd /\ e.st # "L2C"
      <4>1. ~wns(e) /\ ~cml2(e) /\ ~snpl2(e)
        BY <3>1 DEF evict, wns, cml2, snpl2
      <4>2. e.l1_pd /\ e.st # "L2C" /\ e.kind # "evict"
        BY <4>1
      <4> QED
        BY <3>1, <4>2 DEF evict
    <3>3. e.st = "SNOP"
      <4>1. e.st \notin {"L2CW", "MEMW"}
        BY <2>1 DEF Unwritten
      <4>2. e.st \notin {"DEPD", "MEMR", "L2CT"}
        BY <1>1 DEF Advances
      <4>3. e.st # "L2CR"
        <5> SUFFICES ASSUME e.st = "L2CR" PROVE FALSE
          OBVIOUS
        <5>1. LeaveL2(s)
          BY DEF LeaveDepd, LeaveSnop, LeaveMemr, MemWrite
        <5>2. sab' = [sab EXCEPT ![s] = Goto(sab[s], "L2CW")]
          BY <5>1 DEF LeaveL2, Step
        <5>3. f.st = "L2CW"
          BY <5>2, Moved DEF GoesTo, MainState
        <5> QED
          BY <1>3, <5>3
      <4>4. LeaveSnop(s)
        BY <3>2, <4>1, <4>2, <4>3 DEF LeaveDepd, LeaveL2, LeaveMemr, MemWrite
      <4> QED
        BY <4>4 DEF LeaveSnop
    <3>4. sab' = [sab EXCEPT ![s] = Goto(sab[s], AfterSnop(e))]
      BY <1>1, <3>3 DEF Advances, LeaveSnop, Step
    <3>5. AfterSnop(e) \in MainState /\ AfterSnop(e) # "POP"
      BY <3>2 DEF AfterSnop, MainState, reply, rd, rs
    <3>6. f.st = AfterSnop(e)
      BY <3>4, <3>5, Moved DEF GoesTo
    <3> QED
      BY <1>3, <3>5, <3>6
  <2> QED
    BY <1>3, <2>1, <2>2, <2>3 DEF Unwritten
<1>6. StaysGot(s)
  <2>1. f.st = "L2CR" => f.l2c_req
    BY <1>3
  <2>2. ASSUME rd(e), Looked(e), GotData(f)
        PROVE  GotData(e)
    <3>1. CASE e.st = "L2C"
      <4>1. to \notin {"MEMW", "POP", "L2CR", "L2CT", "L2C", "IDLE", "DEPD"}
        BY <1>1, <2>2, <3>1 DEF Advances, rd, rs, wns, evict
      <4>2. to \notin {"L2CA", "MEMR"}
        BY <1>3, <2>2 DEF GotData
      <4>3. to = "SNOP" => e.l2_hit
        BY <1>1 DEF Advances, SnoopsHit, Holds
      <4>4. to = "L2CW" => e.l2_hit
        BY <1>1, <2>2, <3>1 DEF Advances, rd, rs, cml2, snpl2
      <4> QED
        BY <3>1, <4>1, <4>2, <4>3, <4>4 DEF GotData, MainState
    <3>2. CASE e.st # "L2C"
      BY <1>1, <3>2 DEF GotData, Advances
    <3> QED
      BY <3>1, <3>2
  <2> QED
    BY <2>1, <2>2 DEF StaysGot
<1> QED
  BY <1>2, <1>5, <1>6 DEF Stays

LEMMA AccessStays ==
  ASSUME TypeInv, TurnInv, NEW s \in SID,
         WriteData(s) \/ MemRead(s) \/ L2Lookup(s) \/ L2Write(s) \/ SendB(s) \/ SendR(s)
  PROVE  Only(s) /\ Stays(s)
<1> DEFINE e == sab[s]
           f == sab'[s]
<1>1. CASE WriteData(s)
  <2>1. Only(s) /\ SameAccess(e, f)
    BY <1>1, WriteDataFull
  <2> QED
    BY <2>1, StaysSame DEF SameAccess, SameStay
<1>2. CASE MemRead(s)
  <2>1. /\ Only(s)
        /\ f.st = e.st /\ f.l2c_req = e.l2c_req /\ f.l2_hit = e.l2_hit
    BY <1>2, MemReadFull
  <2> QED
    BY <1>2, <2>1 DEF Stays, StaysUp, StaysGot, Unwritten, GotData
<1>3. CASE L2Lookup(s)
  <2>1. Only(s) /\ f.st = e.st /\ f.memr = e.memr /\ ~f.l2c_req
    BY <1>3, L2LookupFull DEF LooksUp
  <2>2. e.st \in {"L2C", "L2CR", "L2CT"} /\ e.l2c_req
    BY <1>3 DEF L2Lookup, Granted
  <2>3. StaysUp(s)
    BY <2>1, <2>2 DEF StaysUp, Unwritten
  <2>4. StaysGot(s)
    BY <1>3, <2>1, <2>2 DEF StaysGot, GotData, Looked
  <2> QED
    BY <2>1, <2>3, <2>4 DEF Stays
<1>4. CASE L2Write(s)
  <2>1. Only(s) /\ f.st = e.st /\ e.st = "L2CW"
    BY <1>4, L2WriteFull DEF Written, L2Write
  <2> QED
    BY <1>4, <2>1 DEF Stays, StaysUp, StaysGot, GotData
<1>5. CASE SendB(s) \/ SendR(s)
  <2>1. Only(s) /\ Answered(e, f)
    BY <1>5, SendBFull, SendRFull
  <2> QED
    BY <2>1, StaysSame DEF Answered, SameAccess, SameStay
<1> QED
  BY <1>1, <1>2, <1>3, <1>4, <1>5

LEMMA EntryStays ==
  ASSUME OrderInv, TurnInv, SnoopsHit, [Next]_vars, NEW t \in SID, t \in Valid
  PROVE  Dies(t) \/ Stays(t)
<1>1. TypeInv
  BY DEF OrderInv
<1>2. CASE UNCHANGED vars
  BY <1>2, StaysSame DEF vars, SameStay
<1>3. ASSUME NEW c \in CORE, CoreStep(c) \/ CreateStep(c)
      PROVE  Stays(t)
  <2>1. CASE CoreStep(c)
    BY <1>1, <2>1, CoreSame, StaysSame DEF SameButNew, SameAccess, SameStay
  <2>2. CASE CreateRead(c)
    <3>1. PICK n \in SID : n \notin Valid /\ Only(n)
      BY <1>1, <2>2, CreateReadFull
    <3>2. sab'[t] = sab[t]
      BY <3>1 DEF Only
    <3> QED
      BY <3>2, StaysSame DEF SameStay
  <2>3. CASE CreateWrite(c)
    <3>1. PICK n \in SID : n \notin Valid /\ \A u \in SID \ {n} : MarkedBack(sab[u], sab'[u], n)
      BY <1>1, <2>3, CreateWriteFull
    <3>2. SameAccess(sab[t], sab'[t])
      BY <3>1 DEF MarkedBack
    <3> QED
      BY <3>2, StaysSame DEF SameAccess, SameStay
  <2> QED
    BY <1>3, <2>1, <2>2, <2>3 DEF CreateStep
<1>4. ASSUME NEW s \in SID, EntryStep(s)
      PROVE  Dies(t) \/ Stays(t)
  <2>1. CASE LeaveDepd(s) \/ LeaveL2(s) \/ LeaveSnop(s) \/ LeaveMemr(s) \/ MemWrite(s)
    BY <1>1, <2>1, MoveStays, StaysOnly
  <2>2. CASE WriteData(s) \/ MemRead(s) \/ L2Lookup(s) \/ L2Write(s) \/ SendB(s) \/ SendR(s)
    BY <1>1, <2>2, AccessStays, StaysOnly
  <2>3. CASE L2Allocate(s)
    <3>1. /\ Fetches(sab[s], sab'[s])
          /\ \A u \in SID \ {s} : u \in Valid => sab'[u] = sab[u]
      BY <1>1, <2>3, L2AllocateFull DEF Only
    <3>2. CASE t = s
      BY <3>1, <3>2 DEF Fetches, Stays, StaysUp, StaysGot, Unwritten, GotData
    <3>3. CASE t # s
      BY <3>1, <3>3, StaysSame DEF SameStay
    <3> QED
      BY <3>2, <3>3
  <2>4. CASE \E c \in CORE : SnpResp(s, c)
    <3>1. Only(s) /\ SameAccess(sab[s], sab'[s])
      BY <1>1, <2>4, SnpRespFull DEF Snooped
    <3> QED
      BY <3>1, StaysSame, StaysOnly DEF SameAccess, SameStay
  <2>5. CASE Pop(s)
    <3>1. /\ sab'[s] = IdleEntry
          /\ \A u \in SID \ {s} : Released(sab[u], sab'[u], s, snpl2(sab[s]) /\ sab[s].ini = u)
      BY <1>1, <2>5, PopFull
    <3>2. CASE t = s
      BY <2>5, <3>1, <3>2 DEF Dies
    <3>3. CASE t # s
      BY <3>1, <3>3, StaysSame DEF Released, SameStay
    <3> QED
      BY <3>2, <3>3
  <2> QED
    BY <1>4, <2>1, <2>2, <2>3, <2>4, <2>5 DEF EntryStep
<1> QED
  BY <1>2, <1>3, <1>4 DEF Next

\* Where the values of the ways and of the memory come from.
SameWay(w) == /\ l2'[w].vld = l2[w].vld /\ l2'[w].tag = l2[w].tag
              /\ l2'[w].dirty = l2[w].dirty
WayFrom(w) == \/ SameWay(w) /\ (l2'[w].new <=> l2[w].new)
              \/ SameWay(w) /\ Stored(l2[w].tag) /\ ~l2'[w].new
              \/ \E s \in SID : L2Write(s)
MemFrom(l) == \/ mem'[l] <=> mem[l]
              \/ Stored(l) /\ ~mem'[l]
              \/ \E s \in SID : MemWrite(s) /\ sab[s].line = l /\ (mem'[l] <=> sab[s].new)

LEMMA StoredOld ==
  ASSUME TypeInv, NEW l \in LINE, Stored(l)
  PROVE  /\ ~mem'[l]
         /\ \A t \in SID : SameButNew(sab[t], sab'[t]) /\ (sab[t].line = l => ~sab'[t].new)
         /\ \A w \in WAY : l2[w].tag = l => ~l2'[w].new
         /\ \E c \in CORE : Store(c, l) /\ l1'[c][l].st = "M"
<1>1. PICK c \in CORE : Store(c, l)
  BY DEF Stored
<1>2. mem \in [LINE -> BOOLEAN]
  BY DEF TypeInv, Rest
<1>3. mem' = [mem EXCEPT ![l] = FALSE]
  BY <1>1, StoreFull
<1>4. /\ \A t \in SID : SameButNew(sab[t], sab'[t]) /\ (sab[t].line = l => ~sab'[t].new)
      /\ \A w \in WAY : l2[w].tag = l => ~l2'[w].new
      /\ l1'[c][l].st = "M"
  BY <1>1, StoreFull
<1> QED
  BY <1>1, <1>2, <1>3, <1>4

LEMMA WaysValue ==
  ASSUME TypeInv, [Next]_vars, NEW w \in WAY
  PROVE  WayFrom(w)
<1>1. CASE UNCHANGED l2
  BY <1>1 DEF WayFrom, SameWay
<1>2. ASSUME NEW c \in CORE, CoreStep(c)
      PROVE  WayFrom(w)
  <2>1. ASSUME NEW l \in LINE, Store(c, l)
        PROVE  WayFrom(w)
    <3>1. /\ SameWay(w)
          /\ l2'[w].new <=> l2[w].new /\ l2[w].tag # l
      BY <2>1, StoreFull DEF SameWay, WaysButNew
    <3> QED
      BY <2>1, <3>1 DEF WayFrom, Stored
  <2>2. CASE ~\E l \in LINE : Store(c, l)
    <3>1. UNCHANGED l2
      BY <1>2, <2>2 DEF CoreStep, IssueRead, Replace, CleanOwn, CleanInvOwn, ToVictimBuffer, SendAw
    <3> QED
      BY <1>1, <3>1
  <2> QED
    BY <2>1, <2>2
<1>3. ASSUME NEW c \in CORE, CreateStep(c)
      PROVE  WayFrom(w)
  BY <1>1, <1>3 DEF CreateStep, CreateRead, CreateWrite
<1>4. ASSUME NEW s \in SID, EntryStep(s)
      PROVE  WayFrom(w)
  <2>1. CASE L2Write(s)
    BY <2>1 DEF WayFrom
  <2>2. CASE L2Lookup(s)
    BY <2>2, L2LookupFull DEF WayFrom, SameWay, SameTags
  <2>3. CASE L2Allocate(s)
    BY <2>3, L2AllocateFull DEF WayFrom, SameWay
  <2>4. CASE ~L2Write(s) /\ ~L2Lookup(s) /\ ~L2Allocate(s)
    <3>1. UNCHANGED l2
      BY <1>4, <2>4 DEF EntryStep, WriteData, LeaveDepd, LeaveL2, LeaveSnop, MemRead, LeaveMemr,
         MemWrite, Pop, Step, SnpResp, SendB, SendR
    <3> QED
      BY <1>1, <3>1
  <2> QED
    BY <2>1, <2>2, <2>3, <2>4
<1> QED
  BY <1>1, <1>2, <1>3, <1>4 DEF Next, vars

LEMMA MemValue ==
  ASSUME TypeInv, [Next]_vars, NEW l \in LINE
  PROVE  MemFrom(l)
<1>0. mem \in [LINE -> BOOLEAN]
  BY DEF TypeInv, Rest
<1>1. CASE UNCHANGED mem
  BY <1>1 DEF MemFrom
<1>2. ASSUME NEW c \in CORE, CoreStep(c)
      PROVE  MemFrom(l)
  <2>1. ASSUME NEW m \in LINE, Store(c, m)
        PROVE  MemFrom(l)
    <3>1. mem' = [mem EXCEPT ![m] = FALSE]
      BY <2>1, StoreFull
    <3> QED
      BY <1>0, <2>1, <3>1 DEF MemFrom, Stored
  <2>2. CASE ~\E m \in LINE : Store(c, m)
    <3>1. UNCHANGED mem
      BY <1>2, <2>2 DEF CoreStep, IssueRead, Replace, CleanOwn, CleanInvOwn, ToVictimBuffer, SendAw
    <3> QED
      BY <1>1, <3>1
  <2> QED
    BY <2>1, <2>2
<1>3. ASSUME NEW c \in CORE, CreateStep(c)
      PROVE  MemFrom(l)
  BY <1>1, <1>3 DEF CreateStep, CreateRead, CreateWrite
<1>4. ASSUME NEW s \in SID, EntryStep(s)
      PROVE  MemFrom(l)
  <2>1. CASE MemWrite(s)
    <3>1. mem' = [mem EXCEPT ![sab[s].line] = sab[s].new]
      BY <2>1 DEF MemWrite
    <3> QED
      BY <1>0, <2>1, <3>1 DEF MemFrom
  <2>2. CASE ~MemWrite(s)
    <3>1. UNCHANGED mem
      BY <1>4, <2>2 DEF EntryStep, WriteData, LeaveDepd, LeaveL2, LeaveSnop, MemRead, LeaveMemr,
         L2Write, L2Lookup, L2Allocate, Pop, Step, SnpResp, SendB, SendR
    <3> QED
      BY <1>1, <3>1
  <2> QED
    BY <2>1, <2>2
<1> QED
  BY <1>1, <1>2, <1>3, <1>4 DEF Next, vars

\* A request keeps the mark of a store until it is answered.
LEMMA OpenStored ==
  ASSUME TypeInv, ClaimInv, [Next]_vars, NEW t \in SID, Open(sab[t]),
         sab'[t].kind \in ReadKind => sab'[t].resp # "sent", sab'[t].kind = sab[t].kind,
         NEW c \in CORE, c = sab[t].mid, req[c].stored \/ Stored(sab[t].line)
  PROVE  req'[c].stored
<1>1. /\ sab[t].kind \in ReadKind /\ req[c].kind = sab[t].kind /\ req[c].line = sab[t].line
      /\ sab[t].line \in LINE
  BY Mids DEF Open, ClaimInv, Answering
<1>2. CASE Stored(sab[t].line)
  <2>1. PICK d \in CORE : Store(d, sab[t].line)
    BY <1>2 DEF Stored
  <2> QED
    BY <1>1, <2>1, StoreFull
<1>3. CASE req[c].stored /\ UNCHANGED req
  BY <1>3
<1>4. ASSUME req[c].stored, NEW d \in CORE, CoreStep(d)
      PROVE  req'[c].stored
  <2>1. ASSUME NEW m \in LINE, Store(d, m)
        PROVE  req'[c].stored
    BY <1>4, <2>1, StoreFull
  <2>2. ASSUME NEW m \in LINE, NEW k \in READS, IssueRead(d, k, m)
        PROVE  req'[c].stored
    <3>1. req[d].kind = "none" /\ "none" \notin ReadKind
      BY <2>2 DEF IssueRead, ReadKind
    <3>2. c # d
      BY <1>1, <3>1
    <3> QED
      BY <1>4, <2>2, <3>2, IssueReadFull
  <2>3. CASE ~(\E m \in LINE : Store(d, m)) /\ ~(\E m \in LINE, k \in READS : IssueRead(d, k, m))
    <3>1. UNCHANGED req
      BY <1>4, <2>3 DEF CoreStep, Replace, CleanOwn, CleanInvOwn, ToVictimBuffer, SendAw
    <3> QED
      BY <1>4, <3>1
  <2> QED
    BY <2>1, <2>2, <2>3
<1>5. ASSUME req[c].stored, NEW d \in CORE, CreateStep(d)
      PROVE  req'[c].stored
  <2>1. CASE CreateRead(d)
    BY <1>5, <2>1, CreateReadFull
  <2>2. CASE CreateWrite(d)
    BY <1>5, <2>2 DEF CreateWrite
  <2> QED
    BY <1>5, <2>1, <2>2 DEF CreateStep
<1>6. ASSUME req[c].stored, NEW s \in SID, EntryStep(s)
      PROVE  req'[c].stored
  <2>1. CASE SendR(s)
    <3>1. /\ \A d \in CORE : req'[d] = IF d = sab[s].mid THEN NoReq ELSE req[d]
          /\ Answered(sab[s], sab'[s]) /\ Open(sab[s])
      BY <2>1, SendRFull DEF SendR, Open
    <3>2. sab[s].mid # c
      <4> SUFFICES ASSUME sab[s].mid = c PROVE FALSE
        OBVIOUS
      <4>1. s = t
        BY <3>1 DEF ClaimInv, Answering
      <4> QED
        BY <1>1, <3>1, <4>1 DEF Answered
    <3> QED
      BY <1>6, <3>1, <3>2
  <2>2. CASE ~SendR(s)
    <3>1. UNCHANGED req
      BY <1>6, <2>2 DEF EntryStep, WriteData, LeaveDepd, LeaveL2, LeaveSnop, MemRead, LeaveMemr,
         MemWrite, L2Write, L2Lookup, L2Allocate, Pop, Step, SnpResp, SendB
    <3> QED
      BY <1>6, <3>1
  <2> QED
    BY <2>1, <2>2
<1> QED
  BY <1>2, <1>3, <1>4, <1>5, <1>6 DEF Next, vars

\* The data of a write waits in the victim buffer.
LEMMA DataWaits ==
  ASSUME TypeInv, [Next]_vars, NEW c \in CORE, vb[c].st = "sab", vb'[c].st = "sab"
  PROVE  (vb'[c].new <=> vb[c].new) \/ Stored(vb[c].line)
<1>1. CASE vb'[c] = vb[c]
  BY <1>1
<1>2. ASSUME NEW d \in CORE, CoreStep(d)
      PROVE  vb'[c] = vb[c] \/ (vb'[c].new <=> vb[c].new) \/ Stored(vb[c].line)
  <2>1. ASSUME NEW m \in LINE, Store(d, m)
        PROVE  (vb'[c].new <=> vb[c].new) \/ Stored(vb[c].line)
    BY <2>1, StoreFull DEF Stored
  <2>2. CASE SendAw(d)
    BY <2>2, SendAwFull
  <2>3. CASE ~(\E m \in LINE : Store(d, m)) /\ ~SendAw(d)
    <3>1. vb'[c] = vb[c]
      <4>1. vb \in [CORE -> VBType]
        BY DEF TypeInv, Rest, VictimBuffers
      <4>2. UNCHANGED vb \/ (vb[d].st = "none" /\ \E x : vb' = [vb EXCEPT ![d] = x])
        BY <1>2, <2>3 DEF CoreStep, IssueRead, Replace, CleanOwn, CleanInvOwn, ToVictimBuffer
      <4> QED
        BY <4>1, <4>2
    <3> QED
      BY <3>1
  <2> QED
    BY <2>1, <2>2, <2>3
<1>3. ASSUME NEW d \in CORE, CreateStep(d)
      PROVE  vb'[c] = vb[c]
  <2>1. CASE CreateRead(d)
    BY <2>1 DEF CreateRead
  <2>2. CASE CreateWrite(d)
    <3>1. vb[d].st = "sent"
      BY <2>2 DEF CreateWrite
    <3> QED
      BY <2>2, <3>1, CreateWriteFull
  <2> QED
    BY <1>3, <2>1, <2>2 DEF CreateStep
<1>4. ASSUME NEW s \in SID, EntryStep(s)
      PROVE  vb'[c] = vb[c]
  <2>1. ASSUME NEW d \in CORE, SnpResp(s, d)
        PROVE  vb'[c] = vb[c]
    BY <2>1, SnpRespFull DEF Cancel, Bypass
  <2>2. CASE SendB(s)
    BY <2>2, SendBFull DEF NoVB
  <2>3. CASE ~(\E d \in CORE : SnpResp(s, d)) /\ ~SendB(s)
    BY <1>4, <2>3 DEF EntryStep, WriteData, LeaveDepd, LeaveL2, LeaveSnop, MemRead, LeaveMemr,
         MemWrite, L2Write, L2Lookup, L2Allocate, Pop, Step, SendR
  <2> QED
    BY <2>1, <2>2, <2>3
<1> QED
  BY <1>1, <1>2, <1>3, <1>4 DEF Next, vars

\* An entry that the core which made it still waits for, or the snoop of the L2.
Pending(e) == Open(e) \/ snpl2(e)

\* What the stage of an entry says of its data and of what it waits for.
DataShape(e) ==
  /\ wns(e) /\ Acting(e) => e.wt
  /\ Seeker(e) /\ Acting(e) /\ e.depd # {} => e.wns_pend
  /\ e.st = "L2CR" => e.depd = {}
  /\ e.l1_pd => e.l1_dt /\ e.kind # "ro"
  /\ e.l1_dt => e.st \in {"SNOP", "L2CW", "MEMW", "POP"} /\ (e.kind # "ro" => e.l1_pd)
  /\ e.st = "MEMR" => ~e.l2_hit
  /\ e.st = "MEMW" => e.l1_pd \/ e.l2_pd
DataShapes == \A s \in Valid : DataShape(sab[s])

LEMMA SnoopKind ==
  ASSUME TypeInv, TurnInv, NEW s \in SID, NEW c \in CORE, SnpResp(s, c)
  PROVE  acsnoop(sab[s]) = "RO" <=> sab[s].kind = "ro"
<1> DEFINE e == sab[s]
<1>1. e.st = "SNOP"
  BY DEF SnpResp
<1>2. e.kind \in Kind \ {"none"} /\ e.kind \notin WriteKind
  BY <1>1, UsedShape DEF StateShape
<1> QED
  BY <1>2 DEF acsnoop, rs, Kind, ReadKind, WriteKind

LEMMA TakesBoth ==
  ASSUME TypeInv, TurnInv, NEW t \in SID, TakesDirty(t)
  PROVE  /\ sab[t].st = "SNOP" /\ sab'[t].l1_dt
         /\ sab[t].kind # "ro" => sab'[t].l1_pd
<1>1. PICK c \in CORE : SnpResp(t, c) /\ Dirty(c, sab[t].line)
  BY DEF TakesDirty
<1>2. Snooped(sab[t], sab'[t], c)
  BY <1>1, SnpRespFull
<1>3. acsnoop(sab[t]) = "RO" <=> sab[t].kind = "ro"
  BY <1>1, SnoopKind
<1> QED
  BY <1>1, <1>2, <1>3 DEF Snooped, SnpResp

\* Everything an entry that is in use after a step may have done.
LEMMA GoesOnOrBorn ==
  ASSUME OrderInv, TurnInv, HitInv, [Next]_vars, NEW t \in SID, sab'[t].st # "IDLE"
  PROVE  \/ Born(t)
         \/ t \in Valid /\ Lives(t) /\ Works(t) /\ Draws(t) /\ Stays(t)
<1>1. ~Dies(t)
  BY DEF Dies, IdleEntry
<1>2. CASE Lives(t)
  <2>1. t \in Valid
    BY <1>2 DEF Lives, GoesNext, Valid
  <2> QED
    BY <1>1, <1>2, <2>1, EntryWorks, EntryDraws, EntryStays DEF HitInv
<1> QED
  BY <1>1, <1>2, EntryMoves

LEMMA DataShapesStep ==
  ASSUME OrderInv, TurnInv, HitInv, DataShapes, [Next]_vars
  PROVE  DataShapes'
<1> SUFFICES ASSUME NEW t \in SID, sab'[t].st # "IDLE"
             PROVE  DataShape(sab'[t])
  BY DEF DataShapes, Valid
<1> DEFINE e == sab[t]
           f == sab'[t]
<1>0. TypeInv
  BY DEF OrderInv
<1>1. CASE Born(t)
  <2>1. CASE BornWrite(t)
    BY <2>1 DEF BornWrite, DataShape, Acting, wns, WriteKind, Seeker, ReadKind
  <2>2. CASE BornSeeker(t)
    <3>1. f.st \in {"DEPD", "IDLE", "L2C"}
      BY <2>2 DEF BornSeeker, Looked, Acting
    <3>2. /\ ~f.l1_pd /\ ~f.l1_dt /\ f.kind \notin WriteKind
          /\ Acting(f) => f.depd = {}
      BY <2>2 DEF BornSeeker
    <3> QED
      BY <3>1, <3>2 DEF DataShape, wns, WriteKind
  <2> QED
    BY <1>1, <2>1, <2>2 DEF Born
<1>2. CASE t \in Valid /\ Lives(t) /\ Works(t) /\ Draws(t)
  <2>1. DataShape(e) /\ StateShape(e) /\ e.st # "IDLE"
    BY <1>2 DEF DataShapes, TurnInv, StateShapes, Valid
  <2>2. f.kind = e.kind
    BY <1>2 DEF Lives, GoesNext, SameName
  <2>3. /\ Acting(f) => Acting(e) \/ (e.st = "DEPD" /\ e.depd = {} /\ f.st = "L2C")
        /\ Acting(e) => Acting(f)
    <3>1. Acting(f) => Acting(e) \/ (e.st = "DEPD" /\ e.depd = {})
      BY <1>2 DEF Lives, GoesNext
    <3>2. e.st = "DEPD" /\ Acting(f) => f.st = "L2C"
      BY <1>2 DEF Lives, GoesNext, Looked, Acting, L2Lookup
    <3> QED
      BY <1>2, <3>1, <3>2 DEF Lives, GoesNext
  <2>4. /\ e.l1_dt => f.l1_dt
        /\ f.l1_dt => e.l1_dt \/ TakesDirty(t)
        /\ e.l1_pd => f.l1_pd
        /\ f.l1_pd => e.l1_pd \/ (TakesDirty(t) /\ f.l1_dt /\ acsnoop(e) # "RO")
        /\ e.wt => f.wt
        /\ f.l2_pd = e.l2_pd \/ L2Lookup(t) \/ L2Write(t)
        /\ e.wns_pend => f.wns_pend
        /\ f.depd \subseteq e.depd \/ (back_mark(e) /\ f.wns_pend)
    BY <1>2 DEF Draws, DrawsDirty
  <2>5. DrawsStage(t)
    BY <1>2 DEF Draws
  <2>6. TakesDirty(t) => f.st = "SNOP" /\ e.st = "SNOP" /\ (e.kind # "ro" => f.l1_pd)
                         /\ (acsnoop(e) # "RO" => e.kind # "ro")
    <3> SUFFICES ASSUME TakesDirty(t)
                 PROVE  f.st = "SNOP" /\ (acsnoop(e) # "RO" => e.kind # "ro")
      BY <1>0, TakesBoth
    <3>1. PICK c \in CORE : SnpResp(t, c)
      BY DEF TakesDirty
    <3>2. SameAccess(e, f) /\ e.st = "SNOP"
      BY <1>0, <3>1, SnpRespFull DEF Snooped, SnpResp
    <3> QED
      BY <1>0, <3>1, <3>2, SnoopKind DEF SameAccess
  <2>7. wns(f) /\ Acting(f) => f.wt
    BY <2>1, <2>2, <2>3, <2>4, <2>5 DEF DataShape, DrawsStage, wns
  <2>8. Seeker(f) /\ Acting(f) /\ f.depd # {} => f.wns_pend
    BY <2>1, <2>2, <2>3, <2>4 DEF DataShape, Seeker
  <2>9. f.st = "L2CR" => f.depd = {}
    BY <2>1, <2>4, <2>5 DEF DataShape, DrawsStage, back_mark
  <2>10. f.l1_pd => f.l1_dt /\ f.kind # "ro"
    BY <2>1, <2>2, <2>4, <2>6 DEF DataShape
  <2>11. f.l1_dt => f.st \in {"SNOP", "L2CW", "MEMW", "POP"} /\ (f.kind # "ro" => f.l1_pd)
    <3>1. CASE TakesDirty(t)
      BY <2>2, <2>6, <3>1
    <3>2. CASE e.l1_dt
      <4>1. f.l1_dt
        BY <2>4, <3>2
      <4>2. f.kind # "ro" => f.l1_pd
        BY <2>1, <2>2, <2>4, <3>2 DEF DataShape
      <4>3. e.st \in {"SNOP", "L2CW", "MEMW", "POP"}
        BY <2>1, <3>2 DEF DataShape
      <4>4. f.st # "L2CR"
        BY <2>5, <4>1, <4>3 DEF DrawsStage
      <4>5. AfterL2CW(e) \in {"MEMW", "POP"}
        BY DEF AfterL2CW
      <4> QED
        BY <2>5, <4>2, <4>3, <4>4, <4>5 DEF DrawsStage
    <3> QED
      BY <2>4, <3>1, <3>2
  <2>12. f.st = "MEMR" => ~f.l2_hit
    BY <2>1, <2>5 DEF DataShape, DrawsStage
  <2>13. f.st = "MEMW" => f.l1_pd \/ f.l2_pd
    <3> SUFFICES ASSUME f.st = "MEMW" PROVE f.l1_pd \/ f.l2_pd
      OBVIOUS
    <3>1. ~(wns(e) /\ Looked(e) /\ ~e.l2_hit)
      BY DEF HitInv, WriteHit
    <3>2. e.l1_pd \/ e.l2_pd
      BY <2>1, <2>5, <3>1 DEF DrawsStage, DataShape
    <3>3. ~L2Lookup(t) /\ ~L2Write(t)
      <4>1. L2Lookup(t) => f.st \in {"L2C", "L2CR", "L2CT"}
        BY <1>0, L2LookupFull DEF LooksUp, L2Lookup
      <4>2. L2Write(t) => f.st = "L2CW"
        BY <1>0, L2WriteFull DEF Written, L2Write
      <4> QED
        BY <4>1, <4>2
    <3> QED
      BY <2>4, <3>2, <3>3
  <2> QED
    BY <2>7, <2>8, <2>9, <2>10, <2>11, <2>12, <2>13 DEF DataShape
<1> QED
  BY <1>1, <1>2, GoesOnOrBorn

\* One core at a time may have dirty data of a line, be it in its L1, in its
\* victim buffer or on the way to the L2.
OneHolder == \A c \in CORE, l \in LINE : MayDirty(c, l) =>
  /\ \A x \in CORE : MayDirty(x, l) => x = c
  /\ \A t \in SID : wns(sab[t]) /\ sab[t].line = l => sab[t].mid = c

\* An entry that was handed dirty data has left none behind.
DirtySwept == \A s \in SID :
  Pending(sab[s]) /\ sab[s].st # "IDLE" /\ sab[s].l1_dt /\ sab[s].kind # "ro"
    => \A c \in CORE : ~MayDirty(c, sab[s].line)

\* The answers that make a copy unique, and when they come.
Grants(s, c, l) == /\ SendR(s) /\ sab[s].mid = c /\ sab[s].line = l
                   /\ sab[s].kind \in {"rs", "ru", "cu"}

LEMMA DirtyOwes ==
  ASSUME TypeInv, NEW c \in CORE, NEW l
  PROVE  /\ Dirty(c, l) => DirtyAt(c, l)
         /\ DirtyAt(c, l) => MayDirty(c, l)
<1>1. vb[c].st # "none" => vb[c].kind \in WriteKind
  BY NamedLines
<1> QED
  BY <1>1 DEF Dirty, Bypass, DirtyAt, MayDirty, Owing, Unique, WriteKind

LEMMA HolderFrom ==
  ASSUME TypeInv, [Next]_vars, NEW c \in CORE, NEW l \in LINE, MayDirty(c, l)'
  PROVE  MayDirty(c, l) \/ \E s \in SID : Grants(s, c, l)
<1>1. OwingFrom(c, l) /\ UniqueFrom(c, l)
  BY CoreSide DEF CoreFrom
<1> QED
  BY <1>1 DEF OwingFrom, UniqueFrom, MayDirty, Grants, Unique

LEMMA AnsweredAlone ==
  ASSUME OrderInv, TurnInv, ClaimInv, OwesInv, LateInv, NEW s \in SID, SendR(s),
         sab[s].kind \notin {"irs", "ro"}
  PROVE  /\ Settled(sab[s]) /\ Pending(sab[s])
         /\ \A x \in CORE : MayDirty(x, sab[s].line) => x = sab[s].mid
         /\ \A t \in SID : wns(sab[t]) => sab[t].line # sab[s].line
<1> DEFINE e == sab[s]
<1>1. e.kind \in ReadKind /\ e.resp = "rdy" /\ Open(e)
  BY DEF SendR, Open
<1>2. StateShape(e)
  BY DEF TurnInv, StateShapes
<1>3. e.st \in {"L2CW", "POP"} /\ Holds(e) = {}
  BY <1>1, <1>2 DEF StateShape, Holds
<1>4. Cleans(e) /\ Settled(e)
  BY <1>1, <1>3 DEF Cleans, Settled, Seeker, Looked, Acting
<1>5. \A x \in CORE : MayDirty(x, e.line) => x = e.mid
  BY <1>3, <1>4 DEF OwesInv, Swept
<1>6. ASSUME NEW t \in SID, wns(sab[t]), sab[t].line = e.line
      PROVE  FALSE
  BY <1>1, <1>4, <1>6 DEF LateInv, NoLateWrite, Late
<1> QED
  BY <1>1, <1>4, <1>5, <1>6 DEF Pending

LEMMA OneHolderStep ==
  ASSUME BankInv, OneHolder, [Next]_vars
  PROVE  OneHolder'
<1>0. OrderInv /\ TurnInv /\ ClaimInv /\ OwesInv /\ LateInv /\ TypeInv
  BY DEF BankInv, OrderInv
<1> SUFFICES ASSUME NEW c \in CORE, NEW l \in LINE, MayDirty(c, l)'
             PROVE  /\ \A x \in CORE : MayDirty(x, l)' => x = c
                    /\ \A t \in SID : wns(sab'[t]) /\ sab'[t].line = l => sab'[t].mid = c
  BY DEF OneHolder
<1>1. ASSUME NEW s \in SID, NEW d \in CORE, Grants(s, d, l)
      PROVE  /\ \A x \in CORE : MayDirty(x, l) => x = d
             /\ \A t \in SID : wns(sab[t]) => sab[t].line # l
             /\ UNCHANGED vb
             /\ \A t \in SID : wns(sab'[t]) => sab'[t].line # l
  <2>1. SendR(s) /\ sab[s].mid = d /\ sab[s].line = l /\ sab[s].kind \notin {"irs", "ro"}
    BY <1>1 DEF Grants
  <2>2. /\ \A x \in CORE : MayDirty(x, l) => x = d
        /\ \A t \in SID : wns(sab[t]) => sab[t].line # l
    BY <1>0, <2>1, AnsweredAlone
  <2>3. Only(s) /\ Answered(sab[s], sab'[s])
    BY <1>0, <2>1, SendRFull
  <2>4. \A t \in SID : sab'[t].line = sab[t].line /\ sab'[t].kind = sab[t].kind
    BY <2>3 DEF Only, Answered, SameRequest
  <2>5. UNCHANGED vb
    BY <2>1 DEF SendR
  <2> QED
    BY <2>2, <2>4, <2>5 DEF wns
<1>2. ASSUME NEW d \in CORE, MayDirty(d, l)', NEW x \in CORE, MayDirty(x, l)', x # d,
             ~MayDirty(d, l)
      PROVE  FALSE
  <2>1. PICK s \in SID : Grants(s, d, l)
    BY <1>0, <1>2, HolderFrom
  <2>2. ~MayDirty(x, l)
    BY <1>1, <1>2, <2>1
  <2>3. PICK u \in SID : Grants(u, x, l)
    BY <1>0, <1>2, <2>2, HolderFrom
  <2>4. /\ OtherLines(d, l) /\ UNCHANGED vb
    BY <1>0, <2>1, SendRFull DEF Grants, SendR
  <2>5. MayDirty(x, l)' => MayDirty(x, l)
    BY <1>2, <2>4 DEF MayDirty, Owing, OtherLines
  <2> QED
    BY <1>2, <2>2, <2>5
<1>3. ASSUME NEW x \in CORE, MayDirty(x, l)'
      PROVE  x = c
  <2>1. CASE MayDirty(x, l) /\ MayDirty(c, l)
    BY <2>1 DEF OneHolder
  <2> QED
    BY <1>2, <1>3, <2>1
<1>4. ASSUME NEW t \in SID, wns(sab'[t]), sab'[t].line = l
      PROVE  sab'[t].mid = c
  <2>1. CASE ~MayDirty(c, l)
    <3>1. PICK s \in SID : Grants(s, c, l)
      BY <1>0, <2>1, HolderFrom
    <3> QED
      BY <1>1, <1>4, <3>1
  <2>2. CASE MayDirty(c, l) /\ BornWrite(t) /\ t \notin Valid
    <3>1. PICK d \in CORE : CreateWrite(d) /\ sab'[t].mid = d
      BY <2>2 DEF BornWrite
    <3>2. Owing(sab'[t].mid, sab'[t].line)
      BY <1>0, <1>4, <2>2, NewWrite DEF BornWrite
    <3>3. MayDirty(d, l)
      BY <1>4, <3>1, <3>2 DEF MayDirty
    <3> QED
      BY <2>2, <3>1, <3>3 DEF OneHolder
  <2>3. CASE MayDirty(c, l) /\ SameName(sab[t], sab'[t]) /\ wns(sab[t])
    BY <1>4, <2>3 DEF OneHolder, SameName
  <2> QED
    BY <1>0, <1>4, <2>1, <2>2, <2>3, WnsOn
<1> QED
  BY <1>3, <1>4

\* A store under an entry that looks for the line comes from a core it is still
\* to snoop.
LEMMA StoreUnder ==
  ASSUME OrderInv, TurnInv, ClaimInv, OwesInv, NEW s \in SID, Cleans(sab[s]), Pending(sab[s]),
         NEW l \in LINE, sab[s].line = l, NEW c \in CORE, Store(c, l)
  PROVE  c \in Holds(sab[s]) /\ MayDirty(c, l) /\ vb[c].st = "none"
<1> DEFINE e == sab[s]
<1>1. l1[c][l].st \in Unique /\ MayDirty(c, l) /\ vb[c].st = "none"
  BY DEF Store, Unique, MayDirty
<1>2. c \in Holds(e) \/ (c = e.mid /\ ~inst(e))
  BY <1>1 DEF OwesInv, Swept
<1>3. ASSUME c = e.mid, ~inst(e)
      PROVE  FALSE
  <2>1. ~snpl2(e)
    BY <1>3, SizeAssumption DEF TurnInv, StateShapes, StateShape
  <2>2. Open(e) /\ e.kind \in ReadKind /\ e.kind \notin {"irs", "ro"}
    BY <1>3, <2>1 DEF Pending, Open, inst
  <2>3. req[c].kind = e.kind /\ req[c].line = l
    BY <1>3, <2>2 DEF ClaimInv, Answering
  <2>4. e.kind \notin {"ci", "csl1", "csl2"}
    BY <2>3 DEF Store
  <2>5. e.kind \notin {"rs", "ru"}
    BY <1>1, <2>3 DEF ClaimInv, Asking, FillKind, Unique
  <2>6. e.kind # "cu"
    <3>1. req[c].kind = "cu" => l1[c][l].st \in {"I", "S"}
      BY <2>2, <2>3 DEF OwesInv, OwnClean, OwnKind
    <3> QED
      BY <1>1, <2>3, <3>1 DEF Unique
  <2> QED
    BY <2>2, <2>4, <2>5, <2>6 DEF ReadKind
<1> QED
  BY <1>1, <1>2, <1>3

LEMMA DirtySweptStep ==
  ASSUME BankInv, DataShapes, OneHolder, DirtySwept, [Next]_vars
  PROVE  DirtySwept'
<1>0. OrderInv /\ TurnInv /\ ClaimInv /\ HitInv /\ TypeInv /\ OwesInv /\ LateInv
  BY DEF BankInv, OrderInv
<1> SUFFICES ASSUME NEW t \in SID, Pending(sab'[t]), sab'[t].st # "IDLE",
                    sab'[t].l1_dt, sab'[t].kind # "ro",
                    NEW l, l = sab'[t].line, NEW c \in CORE, MayDirty(c, l)'
             PROVE  FALSE
  BY DEF DirtySwept
<1> DEFINE e == sab[t]
           f == sab'[t]
<1>1. ~Born(t)
  BY DEF Born, BornWrite, BornSeeker
<1>2. t \in Valid /\ Lives(t) /\ Draws(t)
  BY <1>0, <1>1, GoesOnOrBorn
<1>3. /\ f.kind = e.kind /\ f.line = e.line /\ e.st # "IDLE" /\ e.line \in LINE
      /\ (e.kind \in ReadKind /\ e.resp = "sent" => f.resp = "sent")
  BY <1>0, <1>2, UsedShape DEF Lives, GoesNext, GoesRest, SameName, Valid
<1>4. Pending(e) /\ Seeker(e)
  BY <1>3 DEF Pending, Open, snpl2, Seeker
<1>5. e.l1_dt \/ TakesDirty(t)
  BY <1>2 DEF Draws, DrawsDirty
<1>6. l = e.line /\ MayDirty(c, l)'
  BY <1>3
<1>7. Acting(e)
  <2>1. e.l1_dt => e.st \notin {"IDLE", "DEPD"}
    BY <1>2 DEF DataShapes, DataShape
  <2>2. TakesDirty(t) => e.st = "SNOP"
    BY DEF TakesDirty, SnpResp
  <2> QED
    BY <1>5, <2>1, <2>2 DEF Acting
<1>8. CASE TakesDirty(t)
  <2>1. PICK d \in CORE : SnpResp(t, d) /\ Dirty(d, l)
    BY <1>6, <1>8 DEF TakesDirty
  <2>2. MayDirty(d, l)
    BY <1>0, <2>1, DirtyOwes
  <2>3. c # d
    <3>1. ~Owing(d, l)' /\ l1'[d][l].st \notin Unique
      BY <1>0, <1>3, <1>4, <1>6, <2>1, SnoopedClean
    <3>2. ~MayDirty(d, l)'
      BY <3>1 DEF MayDirty
    <3> QED
      BY <1>6, <3>2 DEF MayDirty, Owing, Unique
  <2>4. vb'[c] = vb[c] /\ l1'[c][l] = l1[c][l]
    BY <1>0, <1>3, <1>6, <2>1, <2>3, SnpRespFull DEF OtherLines
  <2>5. MayDirty(c, l)
    BY <1>6, <2>4 DEF MayDirty, Owing
  <2> QED
    BY <1>3, <1>6, <2>2, <2>3, <2>5 DEF OneHolder
<1>9. CASE e.l1_dt
  <2>1. ~MayDirty(c, l)
    BY <1>3, <1>4, <1>6, <1>9 DEF DirtySwept
  <2>2. PICK s \in SID : Grants(s, c, l)
    BY <1>0, <1>3, <1>6, <2>1, HolderFrom
  <2>3. SendR(s) /\ Answered(sab[s], sab'[s]) /\ sab[s].kind \in ReadKind /\ sab[s].resp = "rdy"
    BY <1>0, <2>2, SendRFull DEF Grants, SendR
  <2>4. s # t
    BY <2>3 DEF Answered, SameRequest, Pending, Open, snpl2, ReadKind
  <2>5. Acting(sab[s]) /\ sab[s].st # "MEMR"
    BY <1>0, <2>3 DEF TurnInv, StateShapes, StateShape, Acting
  <2>6. e.st # "MEMR"
    BY <1>2, <1>9 DEF DataShapes, DataShape
  <2> QED
    BY <1>0, <1>4, <1>7, <2>3, <2>4, <2>5, <2>6, NoTwo DEF Seeker
<1> QED
  BY <1>5, <1>8, <1>9

\* Two entries that look for one line do not act at the same time.
LEMMA OneSeeker ==
  ASSUME OrderInv, TurnInv, HitInv, NEW s \in SID, NEW t \in SID,
         Seeker(sab[s]), Acting(sab[s]), Seeker(sab[t]), Acting(sab[t]),
         sab[s].line = sab[t].line
  PROVE  s = t
<1>1. ASSUME NEW x \in SID, NEW y \in SID, snpl2(sab[x]), rd_alct(sab[y]),
             Acting(sab[y]), sab[x].line = sab[y].line
      PROVE  FALSE
  <2>1. sab[y].kind \in ReadKind
    BY <1>1 DEF rd_alct, rs, ReadKind
  <2>2. y = sab[x].ini
    BY <1>1, <2>1, SnpL2Needs
  <2> QED
    BY <1>1, <2>2 DEF HitInv, SnpLine
<1> QED
  BY <1>1, NoTwo

LEMMA NextUsed ==
  ASSUME OrderInv, [Next]_vars, NEW t \in SID, sab'[t].kind # "none"
  PROVE  sab'[t].st # "IDLE"
<1>1. OrderInv'
  BY StepOrder
<1> QED
  BY <1>1 DEF OrderInv, TypeInv, Entries, EntryShape

\* What an entry that looks for a line was before.
OnFrom(t) == LET e == sab[t] f == sab'[t] IN
  /\ t \in Valid /\ Lives(t) /\ Works(t) /\ Draws(t) /\ Stays(t)
  /\ SameName(e, f) /\ e \in EntryType /\ StateShape(e) /\ DataShape(e)
  /\ e.line \in LINE
  /\ Pending(f) => Pending(e)
  /\ Open(f) => Open(e)

LEMMA EntryOn ==
  ASSUME BankInv, DataShapes, [Next]_vars, NEW t \in SID, sab'[t].kind # "none"
  PROVE  Born(t) \/ OnFrom(t)
<1>0. OrderInv /\ TurnInv /\ HitInv /\ TypeInv
  BY DEF BankInv, OrderInv
<1> DEFINE e == sab[t]
           f == sab'[t]
<1>1. CASE t \in Valid /\ Lives(t) /\ Works(t) /\ Draws(t) /\ Stays(t)
  <2>1. e.st # "IDLE" /\ SameName(e, f)
    BY <1>1 DEF Valid, Lives, GoesNext
  <2>2. e \in EntryType /\ StateShape(e) /\ e.line \in LINE
    BY <1>0, <2>1, UsedShape
  <2>3. DataShape(e)
    BY <1>1 DEF DataShapes
  <2>4. e.kind \in ReadKind /\ e.resp = "sent" => f.resp = "sent"
    BY <1>1 DEF Lives, GoesRest
  <2>5. (Pending(f) => Pending(e)) /\ (Open(f) => Open(e))
    BY <2>1, <2>4 DEF Pending, Open, snpl2, SameName
  <2> QED
    BY <1>1, <2>1, <2>2, <2>3, <2>5 DEF OnFrom
<1> QED
  BY <1>0, <1>1, NextUsed, GoesOnOrBorn

\* The answer to a read is sent by the step that fills the L1.
LEMMA AnsweredBy ==
  ASSUME OrderInv, TurnInv, [Next]_vars, NEW t \in SID, t \in Valid,
         sab[t].kind \in ReadKind, sab[t].resp # "sent", sab'[t].resp = "sent",
         sab'[t].kind = sab[t].kind
  PROVE  SendR(t)
<1>0. TypeInv
  BY DEF OrderInv
<1>1. ASSUME SameAnswer(sab[t], sab'[t])
      PROVE  FALSE
  BY <1>1 DEF SameAnswer
<1>2. ASSUME sab'[t] = sab[t]
      PROVE  FALSE
  BY <1>2
<1>3. ASSUME NEW c \in CORE, CoreStep(c)
      PROVE  FALSE
  BY <1>0, <1>1, <1>3, CoreSame DEF SameButNew
<1>4. ASSUME NEW c \in CORE, CreateStep(c)
      PROVE  FALSE
  <2>1. CASE CreateRead(c)
    BY <1>0, <1>2, <2>1, CreateReadFull DEF Only
  <2>2. CASE CreateWrite(c)
    BY <1>0, <1>1, <2>2, CreateWriteFull DEF MarkedBack
  <2> QED
    BY <1>4, <2>1, <2>2 DEF CreateStep
<1>5. ASSUME NEW s \in SID, EntryStep(s)
      PROVE  SendR(t)
  <2>1. CASE LeaveDepd(s) \/ LeaveL2(s) \/ LeaveSnop(s) \/ LeaveMemr(s) \/ MemWrite(s)
    <3>1. PICK to \in MainState : Advances(s, to)
      BY <1>0, <2>1, AdvancesTo
    <3>2. Only(s) /\ GoesTo(sab[s], sab'[s], to)
      BY <1>0, <3>1, Moved DEF Advances
    <3> QED
      BY <1>2, <3>2 DEF GoesTo, Only
  <2>2. CASE WriteData(s)
    <3>1. Only(s) /\ sab[s].kind \notin ReadKind
      BY <1>0, <2>2, WriteDataFull DEF WriteData, wns, ReadKind
    <3> QED
      BY <1>2, <3>1 DEF Only
  <2>3. CASE MemRead(s)
    BY <1>0, <1>1, <1>2, <2>3, MemReadFull DEF Only
  <2>4. CASE L2Lookup(s)
    BY <1>0, <1>1, <1>2, <2>4, L2LookupFull DEF Only, LooksUp
  <2>5. CASE L2Write(s)
    BY <1>0, <1>1, <1>2, <2>5, L2WriteFull DEF Only, Written
  <2>6. CASE L2Allocate(s)
    <3>1. t = s => SameAnswer(sab[t], sab'[t])
      BY <1>0, <2>6, L2AllocateFull DEF Fetches
    <3>2. t # s => sab'[t] = sab[t]
      BY <1>0, <2>6, L2AllocateFull DEF Only
    <3> QED
      BY <1>1, <1>2, <3>1, <3>2
  <2>7. CASE SendB(s)
    <3>1. Only(s) /\ sab[s].kind \notin ReadKind
      BY <1>0, <2>7, SendBFull DEF SendB, WriteKind, ReadKind
    <3> QED
      BY <1>2, <3>1 DEF Only
  <2>8. CASE SendR(s)
    <3>1. Only(s)
      BY <1>0, <2>8, SendRFull
    <3> QED
      BY <1>2, <2>8, <3>1 DEF Only
  <2>9. CASE Pop(s)
    <3>1. t = s => sab'[t].kind = "none"
      BY <1>0, <2>9, PopFull DEF IdleEntry
    <3>2. t # s => SameAnswer(sab[t], sab'[t])
      BY <1>0, <2>9, PopFull DEF Released
    <3> QED
      BY <1>1, <3>1, <3>2 DEF ReadKind
  <2>10. ASSUME NEW c \in CORE, SnpResp(s, c)
        PROVE  FALSE
    BY <1>0, <1>1, <1>2, <2>10, SnpRespFull DEF Only, Snooped
  <2> QED
    BY <1>5, <2>1, <2>2, <2>3, <2>4, <2>5, <2>6, <2>7, <2>8, <2>9, <2>10 DEF EntryStep
<1>6. ~UNCHANGED vars
  BY <1>2 DEF vars
<1> QED
  BY <1>3, <1>4, <1>5, <1>6 DEF Next

\* The copies in the L1, the victims on their way and the data of the writes
\* hold the latest store.
CopiesNew == \A c \in CORE, l \in LINE : l1[c][l].st # "I" => l1[c][l].new
OwedNew ==
  /\ \A c \in CORE, l \in LINE : Owing(c, l) => vb[c].new
  /\ \A s \in SID : wns(sab[s]) /\ ~sab[s].wt => vb[sab[s].mid].new

\* So does what an entry was handed by a core, unless its read was overtaken.
DirtyNew == \A s \in SID : LET e == sab[s] IN
  Pending(e) /\ e.l1_dt => e.new \/ (e.kind = "ro" /\ req[e.mid].stored)

\* And the data of a read, once it is there, unless better is to come.
ReadNew == \A s \in SID : LET e == sab[s] IN
  Open(e) /\ rd(e) /\ Looked(e) /\ GotData(e) =>
    \/ e.new
    \/ e.kind = "ro" /\ req[e.mid].stored
    \/ \E c \in Holds(e) : DirtyAt(c, e.line)
    \/ /\ e.wns_pend /\ ~e.l1_dt
       /\ e.st = "SNOP" \/ (e.st = "L2C" /\ Holds(e) # {})

LEMMA ReadyNew ==
  ASSUME TurnInv, ReadNew, NEW s \in SID, rd(sab[s]), sab[s].resp = "rdy"
  PROVE  sab[s].new \/ (sab[s].kind = "ro" /\ req[sab[s].mid].stored)
<1> DEFINE e == sab[s]
<1>1. e.kind \in ReadKind /\ Open(e)
  BY DEF Open, rd, rs, ReadKind
<1>2. StateShape(e)
  BY DEF TurnInv, StateShapes
<1>3. e.st \in {"L2CW", "POP"} /\ Holds(e) = {}
  BY <1>1, <1>2 DEF StateShape, Holds
<1>4. Looked(e) /\ GotData(e)
  BY <1>3 DEF Looked, Acting, GotData
<1> QED
  BY <1>1, <1>3, <1>4 DEF ReadNew

LEMMA CopiesNewStep ==
  ASSUME BankInv, CopiesNew, ReadNew, [Next]_vars
  PROVE  CopiesNew'
<1>0. OrderInv /\ TurnInv /\ ClaimInv /\ CopyInv /\ TypeInv
  BY DEF BankInv, OrderInv
<1> SUFFICES ASSUME NEW c \in CORE, NEW l \in LINE, l1'[c][l].st # "I"
             PROVE  l1'[c][l].new
  BY DEF CopiesNew
<1>1. CopyFrom(c, l)
  BY <1>0, ValueSide DEF ValueFrom
<1>2. CASE l1[c][l].st # "I" /\ l1'[c][l].new = l1[c][l].new
  BY <1>2 DEF CopiesNew
<1>3. ASSUME NEW d \in CORE, Store(d, l)
      PROVE  l1'[c][l].new
  <2>1. CASE c = d
    BY <1>0, <1>3, <2>1, StoreFull
  <2>2. CASE c # d
    <3>1. l1[c][l].st = "I"
      BY <1>0, <1>3, <2>2 DEF CopyInv, SWMR, Store
    <3>2. l1'[c][l].st = "I"
      BY <1>0, <1>3, <2>2, <3>1, StoreFull
    <3> QED
      BY <3>2
  <2> QED
    BY <2>1, <2>2
<1>4. ASSUME NEW s \in SID, SendR(s), sab[s].kind \in {"rs", "ru"},
             l1'[c][l].new = sab[s].new
      PROVE  l1'[c][l].new
  <2>1. rd(sab[s]) /\ sab[s].resp = "rdy" /\ sab[s].kind # "ro"
    BY <1>4 DEF SendR, rd, rs
  <2> QED
    BY <1>0, <1>4, <2>1, ReadyNew
<1> QED
  BY <1>1, <1>2, <1>3, <1>4 DEF CopyFrom, Stored

\* A store is by the only core that may owe the line, and that owes nothing.
LEMMA StoreAlone ==
  ASSUME BankInv, OneHolder, NEW l \in LINE, Stored(l)
  PROVE  /\ \A c \in CORE : ~Owing(c, l)
         /\ \A t \in SID : wns(sab[t]) /\ sab[t].line = l =>
              vb[sab[t].mid].st = "none" /\ sab[t].resp = "sent" /\ sab[t].wt
<1>0. TurnInv /\ ClaimInv
  BY DEF BankInv
<1>1. PICK d \in CORE : Store(d, l)
  BY DEF Stored
<1>2. vb[d].st = "none" /\ MayDirty(d, l)
  BY <1>1 DEF Store, MayDirty, Unique
<1>3. ASSUME NEW c \in CORE, Owing(c, l)
      PROVE  FALSE
  <2>1. c = d
    BY <1>2, <1>3 DEF OneHolder, MayDirty
  <2> QED
    BY <1>2, <1>3, <2>1 DEF Owing
<1>4. ASSUME NEW t \in SID, wns(sab[t]), sab[t].line = l
      PROVE  vb[sab[t].mid].st = "none" /\ sab[t].resp = "sent" /\ sab[t].wt
  <2>1. sab[t].mid = d
    BY <1>2, <1>4 DEF OneHolder
  <2>2. ~WriteOpen(sab[t])
    BY <1>0, <1>2, <2>1 DEF ClaimInv, Victims
  <2>3. sab[t].resp = "sent"
    BY <1>4, <2>2 DEF WriteOpen, wns, WriteKind
  <2>4. sab[t].wt
    BY <1>0, <1>4, <2>3 DEF TurnInv, StateShapes, StateShape
  <2> QED
    BY <1>2, <2>1, <2>3, <2>4
<1> QED
  BY <1>3, <1>4

LEMMA OwedNewStep ==
  ASSUME BankInv, DataShapes, OneHolder, CopiesNew, OwedNew, [Next]_vars
  PROVE  OwedNew'
<1>0. OrderInv /\ TurnInv /\ ClaimInv /\ TypeInv
  BY DEF BankInv, OrderInv
<1>1. ASSUME NEW c \in CORE, NEW l \in LINE, Owing(c, l)'
      PROVE  vb'[c].new
  <2>1. OwesFrom(c, l)
    BY <1>0, ValueSide DEF ValueFrom
  <2>2. CASE Owing(c, l) /\ (vb'[c].new <=> vb[c].new)
    BY <2>2 DEF OwedNew
  <2>3. CASE l1[c][l].st = "M" /\ vb'[c].new = l1[c][l].new
    BY <2>3 DEF CopiesNew
  <2>4. CASE Stored(l)
    <3>1. PICK d \in CORE : Store(d, l)
      BY <2>4 DEF Stored
    <3>2. vb'[c].st = vb[c].st /\ vb'[c].kind = vb[c].kind /\ vb'[c].line = vb[c].line
      BY <1>0, <3>1, StoreFull
    <3>3. Owing(c, l)
      BY <1>1, <3>2 DEF Owing
    <3> QED
      BY <2>4, <3>3, StoreAlone
  <2> QED
    BY <1>1, <2>1, <2>2, <2>3, <2>4 DEF OwesFrom
<1>2. ASSUME NEW t \in SID, wns(sab'[t]), ~sab'[t].wt
      PROVE  vb'[sab'[t].mid].new
  <2>1. CASE BornWrite(t) /\ t \notin Valid
    <3>1. PICK c \in CORE : /\ CreateWrite(c) /\ sab'[t].mid = c
                            /\ sab'[t].line \in LINE
      BY <2>1 DEF BornWrite
    <3>2. Owing(c, sab'[t].line)
      BY <1>0, <1>2, <2>1, <3>1, NewWrite DEF BornWrite
    <3>3. vb'[c].new = vb[c].new
      BY <1>0, <3>1, CreateWriteFull
    <3> QED
      BY <3>1, <3>2, <3>3 DEF OwedNew
  <2>2. CASE t \in Valid /\ SameName(sab[t], sab'[t]) /\ wns(sab[t]) /\ Lives(t)
    <3> DEFINE c == sab[t].mid
               l == sab[t].line
    <3>1. c \in CORE /\ l \in LINE /\ sab'[t].mid = c
      BY <1>0, <2>2, WnsNames DEF SameName
    <3>2. Draws(t)
      <4>1. ~Dies(t)
        BY <1>2 DEF Dies, IdleEntry, wns
      <4> QED
        BY <1>0, <2>2, <4>1, EntryDraws
    <3>3. ~sab[t].wt
      BY <1>2, <3>2 DEF Draws, DrawsDirty
    <3>4. vb[c].new
      BY <2>2, <3>3 DEF OwedNew
    <3>5. WriteOpen(sab[t]) /\ vb[c].st = "sab" /\ vb[c].line = l
      <4>1. sab[t].resp = "no"
        BY <1>0, <2>2, <3>3 DEF TurnInv, StateShapes, StateShape
      <4>2. WriteOpen(sab[t])
        BY <2>2, <4>1 DEF WriteOpen, wns, WriteKind
      <4> QED
        BY <1>0, <4>2 DEF ClaimInv, Victims
    <3>6. ~Stored(l)
      BY <2>2, <3>1, <3>3, StoreAlone
    <3>7. vb'[c].st = "sab"
      <4>1. TurnInv' /\ ClaimInv'
        BY <1>0, StepTurn, StepClaim DEF BankInv
      <4>2. sab'[t].resp = "no"
        BY <1>2, <4>1 DEF TurnInv, StateShapes, StateShape
      <4>3. WriteOpen(sab'[t])
        BY <1>2, <4>2 DEF WriteOpen, wns, WriteKind
      <4>4. vb'[sab'[t].mid].st = "sab"
        BY <4>1, <4>3 DEF ClaimInv, Victims
      <4> QED
        BY <3>1, <4>4
    <3> QED
      BY <1>0, <3>1, <3>4, <3>5, <3>6, <3>7, DataWaits
  <2>3. wns(sab[t]) => t \in Valid
    BY <1>0, WnsNames
  <2> QED
    BY <1>0, <1>2, <2>1, <2>2, <2>3, WnsOn
<1> QED
  BY <1>1, <1>2 DEF OwedNew

\* What a snoop takes from a core is the latest store.
LEMMA TakesNew ==
  ASSUME TypeInv, CopiesNew, OwedNew, NEW t \in SID, TakesDirty(t)
  PROVE  sab'[t].new
<1> DEFINE l == sab[t].line
<1>1. PICK c \in CORE : SnpResp(t, c) /\ Dirty(c, l)
  BY DEF TakesDirty
<1>2. l \in LINE /\ Snooped(sab[t], sab'[t], c)
  BY <1>1, SnpRespFull
<1>3. CASE Bypass(c, l)
  <2>1. Owing(c, l)
    <3>1. vb[c].st # "none" => vb[c].kind \in WriteKind
      BY NamedLines
    <3> QED
      BY <1>3, <3>1 DEF Bypass, Owing, WriteKind
  <2> QED
    BY <1>2, <1>3, <2>1 DEF OwedNew, Snooped
<1>4. CASE ~Bypass(c, l)
  <2>1. l1[c][l].st = "M" /\ l1[c][l].new
    BY <1>1, <1>2, <1>4 DEF Dirty, CopiesNew
  <2> QED
    BY <1>2, <1>4, <2>1 DEF Snooped
<1> QED
  BY <1>3, <1>4

LEMMA DirtyNewStep ==
  ASSUME BankInv, DataShapes, DirtySwept, CopiesNew, OwedNew, DirtyNew, [Next]_vars
  PROVE  DirtyNew'
<1>0. OrderInv /\ TurnInv /\ ClaimInv /\ TypeInv
  BY DEF BankInv, OrderInv
<1> SUFFICES ASSUME NEW t \in SID, Pending(sab'[t]), sab'[t].l1_dt
             PROVE  \/ sab'[t].new
                    \/ sab'[t].kind = "ro" /\ req'[sab'[t].mid].stored
  BY DEF DirtyNew
<1> DEFINE e == sab[t]
           f == sab'[t]
<1>1. f.kind # "none"
  BY DEF Pending, Open, snpl2, ReadKind
<1>2. OnFrom(t)
  BY <1>1, EntryOn DEF Born, BornWrite, BornSeeker
<1>3. Pending(e) /\ SameName(e, f) /\ DataShape(e) /\ e.line \in LINE
  BY <1>2 DEF OnFrom
<1>4. e.l1_dt \/ TakesDirty(t)
  BY <1>2 DEF OnFrom, Draws, DrawsDirty
<1>5. CASE TakesDirty(t)
  BY <1>0, <1>5, TakesNew
<1>6. ASSUME e.kind = "ro", req[e.mid].stored \/ Stored(e.line)
      PROVE  f.kind = "ro" /\ req'[f.mid].stored
  <2>1. f.kind = e.kind /\ f.mid = e.mid /\ Open(e) /\ (f.kind \in ReadKind => f.resp # "sent")
    BY <1>3, <1>6 DEF SameName, Pending, Open, snpl2, ReadKind
  <2>2. e.mid \in CORE
    BY <1>0, <2>1, Mids
  <2> QED
    BY <1>0, <1>6, <2>1, <2>2, OpenStored
<1>7. CASE e.l1_dt /\ ~TakesDirty(t) /\ ~(e.kind = "ro" /\ req[e.mid].stored)
  <2>1. e.new
    BY <1>3, <1>7 DEF DirtyNew
  <2>2. e.st \in {"SNOP", "L2CW", "MEMW", "POP"} /\ (e.kind # "ro" => e.l1_pd)
    BY <1>3, <1>7 DEF DataShape
  <2>3. DrawsNew(t)
    BY <1>2 DEF OnFrom, Draws
  <2>4. ~WriteData(t) /\ ~MemRead(t)
    BY <2>2 DEF WriteData, MemRead
  <2>5. e.st \notin {"L2C", "L2CR"}
    BY <2>2
  <2>6. (cml2(e) \/ snpl2(e)) => e.l1_pd
    BY <2>2 DEF cml2, snpl2
  <2>7. ASSUME Stored(e.line), e.kind # "ro"
        PROVE  FALSE
    <3>1. PICK d \in CORE : Store(d, e.line)
      BY <2>7 DEF Stored
    <3>2. MayDirty(d, e.line)
      BY <3>1 DEF Store, MayDirty, Unique
    <3> QED
      BY <1>3, <1>7, <2>2, <2>7, <3>2 DEF DirtySwept
  <2> QED
    BY <1>6, <1>7, <2>1, <2>3, <2>4, <2>5, <2>6, <2>7 DEF DrawsNew
<1> QED
  BY <1>4, <1>5, <1>6, <1>7

(***************************************************************************)
(* The writes.  A write carries its value from when it is created: before  *)
(* its data comes, the victim buffer holds it.                             *)
(***************************************************************************)
Val(e) == e.new \/ (wns(e) /\ ~e.wt)

\* Writes of a line act from the oldest to the youngest, so a write of the
\* latest store is not overtaken by an old value.
ValOrder == \A s, t \in SID :
  /\ wns(sab[s]) /\ wns(sab[t]) /\ sab[s].line = sab[t].line
  /\ s \in sab[t].older /\ Val(sab[s])
  => Val(sab[t])

\* An entry with dirty data that has already answered is older than the writes
\* of its line, and not newer.
Carrier(e) == (wns(e) \/ (Seeker(e) /\ e.l1_pd)) /\ Unwritten(e)
LateOver == \A s, t \in SID :
  /\ Seeker(sab[s]) /\ Carrier(sab[s]) /\ ~Pending(sab[s])
  /\ wns(sab[t]) /\ sab[t].line = sab[s].line
  => s \in sab[t].older /\ (sab[s].new => Val(sab[t]))

LEMMA ValKept ==
  ASSUME BankInv, DataShapes, OneHolder, OwedNew, [Next]_vars, NEW t \in SID,
         t \in Valid, wns(sab[t]), wns(sab'[t])
  PROVE  Val(sab'[t]) <=> Val(sab[t]) /\ ~Stored(sab[t].line)
<1>0. OrderInv /\ TurnInv /\ ClaimInv /\ TypeInv /\ HitInv
  BY DEF BankInv, OrderInv
<1> DEFINE e == sab[t]
           f == sab'[t]
<1>1. e.kind \in {"wb", "wc"} /\ e.line \in LINE /\ StateShape(e) /\ e \in EntryType
  BY <1>0, WnsNames, UsedShape DEF wns, Valid
<1>2. Draws(t)
  <2>1. ~Dies(t)
    BY DEF Dies, IdleEntry, wns
  <2> QED
    BY <1>0, <2>1, EntryDraws
<1>3. CASE Stored(e.line)
  <2>1. e.wt
    BY <1>1, <1>3, StoreAlone
  <2>2. ~f.new /\ f.wt
    BY <1>0, <1>1, <1>2, <1>3, <2>1, StoredOld DEF Draws, DrawsDirty
  <2> QED
    BY <1>3, <2>2 DEF Val
<1>4. CASE ~Stored(e.line)
  <2>1. ~MemRead(t)
    BY <1>0, <1>1 DEF MemRead, HitInv, MemKinds, rd, rs
  <2>2. ~(L2Lookup(t) /\ (e.st = "L2CR" \/ (e.st = "L2C" /\ rd(e))))
    BY <1>1 DEF StateShape, WriteKind, rd, rs
  <2>3. ~(cml2(e) \/ snpl2(e))
    BY <1>1 DEF cml2, snpl2
  <2>4. ~TakesDirty(t)
    BY <1>0, <1>1, TakesBoth DEF StateShape, WriteKind
  <2>5. f.new = e.new \/ WriteData(t)
    BY <1>2, <1>4, <2>1, <2>2, <2>3, <2>4 DEF Draws, DrawsNew
  <2>6. CASE WriteData(t)
    <3>1. ~e.wt
      BY <2>6 DEF WriteData
    <3>2. f.new
      BY <1>0, <2>6, <3>1, WriteDataFull DEF OwedNew
    <3> QED
      BY <1>4, <3>1, <3>2 DEF Val
  <2>7. CASE ~WriteData(t)
    <3>1. f.new = e.new /\ (f.wt <=> e.wt)
      BY <1>2, <2>5, <2>7 DEF Draws, DrawsDirty
    <3> QED
      BY <1>4, <3>1 DEF Val
  <2> QED
    BY <2>6, <2>7
<1> QED
  BY <1>3, <1>4

LEMMA OlderKept ==
  ASSUME OrderInv, [Next]_vars, NEW s \in SID, NEW t \in SID, s \in Valid, t \in Valid,
         Lives(s), Lives(t), s \in sab'[t].older
  PROVE  s \in sab[t].older
<1>1. OrderInv'
  BY StepOrder
<1>2. sab'[s].st # "IDLE" /\ sab'[t].st # "IDLE"
  BY DEF Lives, GoesNext, Valid
<1>3. /\ s # t
      /\ t \notin sab'[s].older
  <2>1. s \in Valid' /\ t \in Valid'
    BY <1>2 DEF Valid
  <2>2. sab'[t].older \subseteq Valid' \ {t}
    BY <1>1, <2>1 DEF OrderInv, AgeOrder
  <2>3. t \in sab'[s].older => s \in sab'[s].older
    BY <1>1, <2>1 DEF OrderInv, AgeOrder
  <2>4. s \notin sab'[s].older
    BY <1>1, <2>1 DEF OrderInv, AgeOrder
  <2> QED
    BY <2>2, <2>3, <2>4
<1>4. t \notin sab[s].older
  BY <1>2, <1>3 DEF Lives, GoesRest
<1> QED
  BY <1>3, <1>4 DEF OrderInv, AgeOrder

LEMMA ValOrderStep ==
  ASSUME BankInv, DataShapes, OneHolder, OwedNew, ValOrder, [Next]_vars
  PROVE  ValOrder'
<1>0. OrderInv /\ TurnInv /\ TypeInv
  BY DEF BankInv, OrderInv
<1> SUFFICES ASSUME NEW s \in SID, NEW t \in SID, wns(sab'[s]), wns(sab'[t]),
                    sab'[s].line = sab'[t].line, s \in sab'[t].older, Val(sab'[s])
             PROVE  Val(sab'[t])
  BY DEF ValOrder
<1>1. CASE BornWrite(t)
  BY <1>1 DEF BornWrite, Val
<1>2. CASE Lives(t) /\ SameName(sab[t], sab'[t]) /\ wns(sab[t]) /\ t \in Valid
  <2>1. ASSUME BornWrite(s), s \notin Valid
        PROVE  FALSE
    <3>1. sab'[s].older = Valid
      BY <2>1 DEF BornWrite
    <3>3. OrderInv' /\ s \in Valid' /\ t \in Valid'
      <4>1. sab'[s].st # "IDLE" /\ sab'[t].st # "IDLE"
        BY <1>0, WnsOn
      <4> QED
        BY <1>0, <4>1, StepOrder DEF Valid
    <3>4. t \in sab'[s].older
      BY <1>2, <3>1
    <3>5. s \in sab'[s].older
      BY <3>3, <3>4 DEF OrderInv, AgeOrder
    <3> QED
      BY <3>3, <3>5 DEF OrderInv, AgeOrder
  <2>2. Lives(s) /\ SameName(sab[s], sab'[s]) /\ wns(sab[s])
    BY <1>0, <2>1, WnsOn
  <2>3. s \in Valid
    BY <1>0, <2>2, WnsNames
  <2>4. s \in sab[t].older
    BY <1>0, <1>2, <2>2, <2>3, OlderKept
  <2>5. sab[s].line = sab[t].line
    BY <1>2, <2>2 DEF SameName
  <2>6. Val(sab[s]) /\ ~Stored(sab[s].line)
    BY <2>2, <2>3, ValKept
  <2>7. Val(sab[t])
    BY <1>2, <2>2, <2>4, <2>5, <2>6 DEF ValOrder
  <2> QED
    BY <1>2, <2>5, <2>6, <2>7, ValKept
<1> QED
  BY <1>0, <1>1, <1>2, WnsOn, WnsNames

LEMMA LateOverStep ==
  ASSUME BankInv, DataShapes, OneHolder, OwedNew, LateOver, [Next]_vars
  PROVE  LateOver'
<1>0. OrderInv /\ TurnInv /\ TypeInv /\ LateInv /\ HitInv
  BY DEF BankInv, OrderInv
<1> SUFFICES ASSUME NEW s \in SID, NEW t \in SID, Seeker(sab'[s]), Carrier(sab'[s]),
                    ~Pending(sab'[s]), wns(sab'[t]), sab'[t].line = sab'[s].line
             PROVE  s \in sab'[t].older /\ (sab'[s].new => Val(sab'[t]))
  BY DEF LateOver
<1> DEFINE e == sab[s]
           f == sab'[s]
<1>1. f.kind \in ReadKind /\ f.resp = "sent" /\ f.l1_pd /\ f.kind # "none"
  BY DEF Seeker, Pending, Open, snpl2, Carrier, wns, ReadKind
<1>2. OnFrom(s)
  BY <1>1, EntryOn DEF Born, BornWrite, BornSeeker
<1>3. /\ s \in Valid /\ SameName(e, f) /\ DataShape(e) /\ StateShape(e) /\ e.line \in LINE
      /\ Draws(s) /\ Works(s)
  BY <1>2 DEF OnFrom
<1>4. f.st \in {"L2CW", "POP"} /\ f.st # "IDLE"
  <2>1. TurnInv'
    BY <1>0, StepTurn
  <2> QED
    BY <1>1, <2>1 DEF TurnInv, StateShapes, StateShape
<1>5. ~TakesDirty(s)
  <2> SUFFICES ASSUME TakesDirty(s)
               PROVE  FALSE
    OBVIOUS
  <2>1. PICK c \in CORE : SnpResp(s, c)
    BY DEF TakesDirty
  <2>2. e.st = "SNOP" /\ Snooped(e, f, c)
    BY <1>0, <2>1, SnpRespFull DEF SnpResp
  <2> QED
    BY <1>4, <2>2 DEF Snooped, SameAccess
<1>6. e.l1_pd /\ Unwritten(e) /\ Seeker(e) /\ e.kind \in ReadKind
  BY <1>1, <1>3, <1>5 DEF Draws, DrawsDirty, Works, WorksHit, SameName, Carrier, Seeker
<1>7. e.st \in {"SNOP", "L2CW"} /\ Cleans(e)
  BY <1>3, <1>6 DEF DataShape, Unwritten, Cleans, Looked, Acting
<1>8. f.new => e.new /\ ~Stored(e.line)
  <2>1. ~WriteData(s) /\ ~MemRead(s) /\ e.st \notin {"L2C", "L2CR"}
    BY <1>7 DEF WriteData, MemRead
  <2>2. f.new = e.new \/ (Stored(e.line) /\ ~f.new)
    BY <1>3, <1>5, <1>6, <2>1 DEF Draws, DrawsNew
  <2>3. Stored(e.line) => ~f.new
    BY <1>0, <1>3, StoredOld
  <2> QED
    BY <2>2, <2>3
<1>9. CASE ~Pending(e)
  <2>1. CASE BornWrite(t)
    BY <1>3, <2>1 DEF BornWrite, Val
  <2>2. CASE Lives(t) /\ SameName(sab[t], sab'[t]) /\ wns(sab[t]) /\ t \in Valid
    <3>1. s \in sab[t].older /\ (e.new => Val(sab[t]))
      BY <1>3, <1>6, <1>9, <2>2 DEF LateOver, Carrier, SameName
    <3>2. s \in sab'[t].older
      BY <1>4, <2>2, <3>1 DEF Lives, GoesRest
    <3>3. Val(sab'[t]) <=> Val(sab[t]) /\ ~Stored(sab[t].line)
      BY <2>2, ValKept
    <3> QED
      BY <1>3, <1>8, <2>2, <3>1, <3>2, <3>3 DEF SameName
  <2> QED
    BY <1>0, <2>1, <2>2, WnsOn, WnsNames
<1>10. CASE Pending(e)
  <2>1. e.resp # "sent"
    BY <1>6, <1>10 DEF Pending, Open, snpl2, ReadKind
  <2>2. SendR(s)
    BY <1>0, <1>1, <1>3, <1>6, <2>1, AnsweredBy DEF SameName
  <2>3. Only(s) /\ t # s
    BY <1>0, <1>1, <2>2, SendRFull DEF wns, ReadKind
  <2>4. wns(sab[t]) /\ sab[t].line = e.line
    BY <1>3, <2>3 DEF Only, SameName
  <2>5. Settled(e)
    <3>1. e.st \in {"L2CW", "POP"}
      BY <1>3, <1>6, <2>2 DEF StateShape, SendR
    <3>2. Holds(e) = {}
      BY <1>3, <3>1 DEF StateShape, Holds
    <3> QED
      BY <1>7, <3>1, <3>2 DEF Settled
  <2> QED
    BY <1>0, <2>1, <2>4, <2>5 DEF LateInv, NoLateWrite, Late, Settled
<1> QED
  BY <1>9, <1>10

(***************************************************************************)
(* Where the latest store is.  A core holds it dirty; or an entry carries  *)
(* it to the L2; or no entry carries anything and it is in the L2, in the  *)
(* memory, or on its way from the L2 to the memory.                        *)
(***************************************************************************)
DHeld(l) == \E c \in CORE : DirtyAt(c, l)
Borne(l) == \E s \in SID : Carrier(sab[s]) /\ sab[s].line = l
BorneNew(l) == \E s \in SID : Carrier(sab[s]) /\ sab[s].line = l /\ Val(sab[s])
Down(e) == /\ e.kind \in {"ci", "csl2", "snpl2"} /\ e.st \in {"L2CW", "MEMW"}
           /\ ~Unwritten(e) /\ (e.l1_pd \/ e.l2_pd)
DownNew(l) == \E s \in SID : sab[s].line = l /\ Down(sab[s]) /\ sab[s].new
Below(l) == IF Hit(l) # {} THEN \A w \in Hit(l) : l2[w].new ELSE mem[l] \/ DownNew(l)
Latest == \A l \in LINE : DHeld(l) \/ BorneNew(l) \/ (Below(l) /\ ~Borne(l))

\* What leaves the L2 for the memory is the latest store, clean ways hold what
\* the memory holds, and so does the data of a read that refills a way.
DownVal == \A s \in SID : Down(sab[s]) => sab[s].new
CleanNew == \A w \in WAY : l2[w].vld /\ ~l2[w].dirty /\ l2[w].new =>
  mem[l2[w].tag] \/ DownNew(l2[w].tag)
RefillMem == \A s \in SID : LET e == sab[s] IN
  HasWay(e) /\ (e.st = "MEMR" => e.memr = "cmplt") => (e.new <=> mem[e.line])

LEMMA DownShape ==
  ASSUME NEW e, Down(e)
  PROVE  /\ Seeker(e) /\ Acting(e) /\ Looked(e) /\ ~Unwritten(e) /\ e.kind # "ro"
         /\ e.kind # "none" /\ ~wns(e) /\ ~rd(e)
BY DEF Down, Seeker, Acting, Looked, ReadKind, wns, rd, rs

LEMMA DownKept ==
  ASSUME BankInv, DataShapes, [Next]_vars, NEW s \in SID, Down(sab[s])
  PROVE  /\ SameName(sab[s], sab'[s])
         /\ \/ MemWrite(s) /\ (mem'[sab[s].line] <=> sab[s].new)
            \/ Down(sab'[s]) /\ (sab'[s].new = sab[s].new
                                   \/ (Stored(sab[s].line) /\ ~sab'[s].new))
<1>0. OrderInv /\ TurnInv /\ TypeInv /\ HitInv
  BY DEF BankInv, OrderInv
<1> DEFINE e == sab[s]
           f == sab'[s]
<1>1. e.st # "IDLE" /\ e.st # "POP" /\ e.st \in {"L2CW", "MEMW"} /\ s \in Valid
  BY DEF Down, Valid
<1>2. ~Dies(s)
  BY <1>1 DEF Dies, Pop
<1>3. ~Born(s)
  BY <1>1 DEF Born
<1>4. Lives(s) /\ Draws(s) /\ Works(s)
  BY <1>0, <1>1, <1>2, <1>3, EntryMoves, EntryDraws, EntryWorks
<1>5. SameName(e, f)
  BY <1>4 DEF Lives, GoesNext
<1>6. e.st = "L2CW" => ~e.l2c_req
  BY DEF Down, Unwritten
<1>7. ~L2Write(s) /\ ~L2Lookup(s) /\ ~WriteData(s) /\ ~MemRead(s) /\ ~TakesDirty(s)
  <2>1. ~TakesDirty(s)
    BY <1>0, <1>1, TakesBoth
  <2> QED
    BY <1>1, <1>6, <2>1 DEF L2Write, L2Lookup, WriteData, MemRead, Granted
<1>8. /\ f.new = e.new \/ (Stored(e.line) /\ ~f.new)
      /\ e.l1_pd => f.l1_pd
      /\ f.l2_pd = e.l2_pd
  BY <1>4, <1>7 DEF Draws, DrawsNew, DrawsDirty
<1>9. CASE f.st = "MEMW" \/ (f.st = "L2CW" /\ f.l2c_req = e.l2c_req /\ e.st = "L2CW")
  <2>1. ~Unwritten(f) /\ f.st \in {"L2CW", "MEMW"}
    BY <1>6, <1>9 DEF Unwritten
  <2>2. f.kind = e.kind
    BY <1>5 DEF SameName
  <2> QED
    BY <1>5, <1>8, <2>1, <2>2 DEF Down
<1>10. CASE f.st = "POP" /\ MemWrite(s)
  <2>1. mem \in [LINE -> BOOLEAN] /\ e.line \in LINE
    BY <1>0, <1>1, UsedShape DEF TypeInv, Rest
  <2>2. mem' = [mem EXCEPT ![e.line] = e.new]
    BY <1>10 DEF MemWrite
  <2> QED
    BY <1>5, <1>10, <2>1, <2>2
<1>11. e.st = "L2CW" => \/ f.st = "L2CW" /\ f.l2c_req = e.l2c_req
                        \/ f.st = "MEMW"
  <2>1. AfterL2CW(e) = "MEMW"
    BY DEF Down, AfterL2CW, snpl2, cml2
  <2> QED
    BY <1>4, <1>7, <2>1 DEF Draws, DrawsStage
<1>12. e.st = "MEMW" => f.st = "MEMW" \/ (f.st = "POP" /\ MemWrite(s))
  BY <1>4 DEF Draws, DrawsStage
<1> QED
  BY <1>1, <1>9, <1>10, <1>11, <1>12

LEMMA CarrierShape ==
  ASSUME OrderInv, TurnInv, HitInv, DataShapes, NEW t \in SID, Carrier(sab[t]), ~wns(sab[t])
  PROVE  /\ t \in Valid /\ Seeker(sab[t]) /\ Acting(sab[t]) /\ Looked(sab[t])
         /\ sab[t].l1_pd /\ sab[t].l1_dt /\ Cleans(sab[t])
         /\ sab[t].kind \notin {"ro", "none"}
         /\ sab[t].st = "SNOP" \/ (sab[t].st = "L2CW" /\ sab[t].l2c_req)
<1> DEFINE e == sab[t]
<1>1. Seeker(e) /\ e.l1_pd /\ Unwritten(e)
  BY DEF Carrier
<1>2. e.kind # "none"
  BY <1>1 DEF Seeker, ReadKind
<1>3. t \in Valid
  BY <1>2, InUse DEF OrderInv, Valid
<1>4. DataShape(e)
  BY <1>3 DEF DataShapes
<1>5. e.l1_dt /\ e.kind # "ro" /\ (e.st = "SNOP" \/ (e.st = "L2CW" /\ e.l2c_req))
  BY <1>1, <1>4 DEF DataShape, Unwritten
<1> QED
  BY <1>1, <1>2, <1>3, <1>5 DEF Acting, Looked, Cleans

LEMMA MemKept ==
  ASSUME BankInv, DataShapes, DownVal, [Next]_vars, NEW l \in LINE, ~Stored(l)
  PROVE  /\ mem[l] => mem'[l]
         /\ DownNew(l) => DownNew(l)' \/ mem'[l]
<1>0. OrderInv /\ TurnInv /\ TypeInv /\ HitInv
  BY DEF BankInv, OrderInv
<1>1. ASSUME mem[l]
      PROVE  mem'[l]
  <2>1. ASSUME NEW s \in SID, MemWrite(s), sab[s].line = l, mem'[l] <=> sab[s].new
        PROVE  mem'[l]
    <3>1. sab[s].st = "MEMW" /\ s \in Valid
      BY <2>1 DEF MemWrite, Valid
    <3>2. Down(sab[s])
      <4>1. cml2(sab[s]) \/ snpl2(sab[s])
        BY <1>0, <3>1 DEF HitInv, MemKinds
      <4>2. sab[s].l1_pd \/ sab[s].l2_pd
        BY <3>1 DEF DataShapes, DataShape
      <4> QED
        BY <3>1, <4>1, <4>2 DEF Down, Unwritten, cml2, snpl2
    <3> QED
      BY <2>1, <3>2 DEF DownVal
  <2> QED
    BY <1>0, <1>1, <2>1, MemValue DEF MemFrom
<1>2. ASSUME NEW s \in SID, sab[s].line = l, Down(sab[s]), sab[s].new
      PROVE  DownNew(l)' \/ mem'[l]
  <2>1. SameName(sab[s], sab'[s])
    BY <1>2, DownKept
  <2>2. CASE MemWrite(s) /\ (mem'[sab[s].line] <=> sab[s].new)
    BY <1>2, <2>2
  <2>3. CASE Down(sab'[s]) /\ sab'[s].new = sab[s].new
    BY <1>2, <2>1, <2>3 DEF DownNew, SameName
  <2> QED
    BY <1>2, <2>2, <2>3, DownKept
<1> QED
  BY <1>1, <1>2 DEF DownNew

\* Under an entry that has done with the cores nobody carries the line, and its
\* latest store is below.
LEMMA SettledBelow ==
  ASSUME BankInv, DataShapes, Latest, NEW s \in SID, Settled(sab[s]), Pending(sab[s]),
         ~sab[s].l1_pd
  PROVE  /\ sab[s].line \in LINE
         /\ ~DHeld(sab[s].line) /\ ~Borne(sab[s].line) /\ Below(sab[s].line)
<1>0. OrderInv /\ TurnInv /\ ClaimInv /\ OwesInv /\ LateInv /\ HitInv /\ TypeInv
  BY DEF BankInv, OrderInv
<1> DEFINE e == sab[s]
           l == e.line
<1>1. Cleans(e) /\ Holds(e) = {} /\ Seeker(e) /\ Looked(e) /\ Acting(e) /\ e.kind # "ro"
  BY DEF Settled, Cleans, Looked
<1>2. l \in LINE /\ StateShape(e)
  BY <1>0, <1>1, UsedShape DEF Acting
<1>3. ASSUME NEW c \in CORE, DirtyAt(c, l)
      PROVE  FALSE
  <2>1. c = e.mid /\ ~inst(e)
    BY <1>0, <1>1, <1>3, DirtyOwes DEF OwesInv, Swept
  <2>2. ~snpl2(e)
    BY <1>2, <2>1, SizeAssumption DEF StateShape
  <2>3. Open(e) /\ e.kind \in OwnKind
    BY <2>1, <2>2 DEF Pending, Open, inst, OwnKind
  <2>4. req[c].kind = e.kind /\ req[c].line = l
    BY <1>0, <2>1, <2>3 DEF ClaimInv, Answering
  <2> QED
    BY <1>0, <1>3, <2>3, <2>4 DEF OwesInv, OwnClean
<1>4. ASSUME NEW t \in SID, Carrier(sab[t]), sab[t].line = l
      PROVE  FALSE
  <2>1. CASE wns(sab[t])
    <3>1. sab[t].mid = e.mid /\ e.resp = "sent"
      BY <1>0, <1>1, <1>4, <2>1 DEF LateInv, NoLateWrite, Late
    <3>2. ~snpl2(e)
      BY <1>0, <2>1, <3>1, NoOwnerOfSnpL2
    <3> QED
      BY <3>1, <3>2 DEF Pending, Open
  <2>2. CASE ~wns(sab[t])
    <3>1. Seeker(sab[t]) /\ Acting(sab[t]) /\ sab[t].l1_pd
      BY <1>0, <1>4, <2>2, CarrierShape
    <3>2. t = s
      BY <1>0, <1>1, <1>4, <3>1, OneSeeker
    <3> QED
      BY <3>1, <3>2
  <2> QED
    BY <2>1, <2>2
<1> QED
  BY <1>2, <1>3, <1>4 DEF Latest, DHeld, Borne, BorneNew

\* When nothing is on its way above, and the line is not in the L2, the memory
\* has it, unless the entry that takes it there is still on its way.
LEMMA NoneDown ==
  ASSUME OrderInv, TurnInv, HitInv, NEW s \in SID, Seeker(sab[s]), Acting(sab[s]),
         ~Down(sab[s])
  PROVE  ~DownNew(sab[s].line)
<1> SUFFICES ASSUME NEW t \in SID, sab[t].line = sab[s].line, Down(sab[t])
             PROVE  FALSE
  BY DEF DownNew
<1>1. Seeker(sab[t]) /\ Acting(sab[t])
  BY DownShape
<1>2. t = s
  BY <1>1, OneSeeker
<1> QED
  BY <1>2

LEMMA WritesAt ==
  ASSUME OrderInv, TurnInv, NEW u \in SID, L2Write(u)
  PROVE  /\ sab[u].st = "L2CW" /\ Unwritten(sab[u]) /\ ~Down(sab[u])
         /\ Looked(sab[u]) /\ Acting(sab[u]) /\ Holds(sab[u]) = {}
         /\ sab[u].line \in LINE /\ u \in Valid
         /\ sab[u].kind \in ReadKind \cup {"snpl2"} \cup {"wb", "wc", "evict"}
         /\ StateShape(sab[u]) /\ sab[u] \in EntryType
         /\ Seeker(sab[u]) /\ sab[u].kind # "ro" => Settled(sab[u])
<1>1. TypeInv
  BY DEF OrderInv
<1>2. /\ sab[u].st = "L2CW" /\ Unwritten(sab[u]) /\ Looked(sab[u]) /\ Acting(sab[u])
      /\ sab[u].line \in LINE /\ Holds(sab[u]) = {}
  BY <1>1, UnwrittenAt
<1>3. StateShape(sab[u]) /\ sab[u] \in EntryType /\ sab[u].kind \in Kind \ {"none"}
  BY <1>1, <1>2, UsedShape
<1>4. sab[u].kind \in ReadKind \cup {"snpl2"} \cup {"wb", "wc", "evict"}
  BY <1>3 DEF Kind, WriteKind
<1>5. Seeker(sab[u]) /\ sab[u].kind # "ro" => Settled(sab[u])
  BY <1>2 DEF Settled, Cleans
<1> QED
  BY <1>2, <1>3, <1>4, <1>5 DEF Down, Valid

\* What an access that writes the L2 leaves there.
LEMMA WriteEffect ==
  ASSUME TypeInv, CopyInv, NEW u \in SID, L2Write(u), NEW l, l = sab[u].line
  PROVE  /\ Only(u) /\ Written(sab[u], sab'[u]) /\ UNCHANGED <<mem, l1, vb, req>>
         /\ Writes(sab[u]) => ~inv(sab[u]) /\ Hit(l)' # {} /\ \A w \in Hit(l)' : l2'[w].new = sab[u].new
         /\ ~Writes(sab[u]) /\ ~inv(sab[u]) =>
              Hit(l)' = Hit(l) /\ \A w \in Hit(l) : l2'[w].new = l2[w].new
         /\ inv(sab[u]) => Hit(l)' = {}
<1> DEFINE e == sab[u]
           v == WayOf(e)
<1>1. /\ Only(u) /\ Written(e, sab'[u])
      /\ Hit(l) # {} \/ Writes(e) => v \in WAY
      /\ \A w \in WAY : w # v \/ (Hit(l) = {} /\ ~Writes(e)) => l2'[w] = l2[w]
      /\ Hit(l) = {} /\ Writes(e) => v \in RefillWays /\ l2'[v] = Refilled(e)
      /\ Hit(l) # {} /\ inv(e) => l2'[v] = Emptied(l2[v])
      /\ Hit(l) # {} /\ ~inv(e) => l2'[v] = Updated(e, l2[v])
  BY L2WriteFull
<1>2. UNCHANGED <<mem, l1, vb, req>>
  BY DEF L2Write
<1>3. e \in EntryType /\ l2 \in [WAY -> WayType]
  BY DEF TypeInv, Entries, Rest, Ways
<1>4. Writes(e) => ~inv(e)
  BY DEF Writes, wtud, wtuc, inv, wns, rd_alct, rs
<1>5. Hit(l) # {} => v \in Hit(l) /\ \A w \in WAY : w \in Hit(l) => w = v
  <2>1. Hit(l) # {} => HitWay(l) \in Hit(l)
    BY DEF HitWay
  <2> QED
    BY <2>1 DEF WayOf, CopyInv, OneTag, Hit
<1>6. inv(e) => Hit(l)' = {}
  <2>1. inv(e) /\ Hit(l) # {} => Hit(l)' = {}
    BY WrittenWays DEF CopyInv, Gone
  <2>2. inv(e) /\ Hit(l) = {} => \A w \in WAY : l2'[w] = l2[w]
    BY <1>1, <1>4
  <2> QED
    BY <2>1, <2>2 DEF Hit
<1>7. CASE Hit(l) # {} /\ ~inv(e)
  <2>1. v \in WAY /\ l2[v] \in WayType /\ l2[v].vld /\ l2[v].tag = l
    BY <1>3, <1>5, <1>7 DEF Hit
  <2>2. /\ l2'[v].vld = l2[v].vld /\ l2'[v].tag = l2[v].tag
        /\ l2'[v].new = IF Writes(e) THEN e.new ELSE l2[v].new
    <3>1. l2'[v] = Updated(e, l2[v])
      BY <1>1, <1>7
    <3>2. /\ Updated(e, l2[v]).vld = l2[v].vld /\ Updated(e, l2[v]).tag = l2[v].tag
          /\ Updated(e, l2[v]).new = IF Writes(e) THEN e.new ELSE l2[v].new
      BY <1>3, <2>1, UpdatedFields
    <3> QED
      BY <3>1, <3>2, Zenon
  <2>3. \A w \in WAY : w # v => l2'[w] = l2[w]
    BY <1>1
  <2>4. Hit(l)' = Hit(l)
    BY <2>2, <2>3 DEF Hit
  <2> QED
    BY <1>1, <1>2, <1>4, <1>5, <1>7, <2>2, <2>4 DEF Hit
<1>8. CASE Hit(l) = {} /\ Writes(e)
  <2>1. l2'[v].vld /\ l2'[v].tag = l /\ l2'[v].new = e.new /\ v \in WAY
    BY <1>1, <1>8 DEF Refilled
  <2>2. \A w \in WAY : w # v => l2'[w] = l2[w]
    BY <1>1
  <2>3. \A w \in Hit(l)' : w = v
    BY <1>8, <2>2 DEF Hit
  <2>4. v \in Hit(l)'
    BY <2>1 DEF Hit
  <2> QED
    BY <1>1, <1>2, <1>4, <1>8, <2>1, <2>3, <2>4
<1>9. CASE Hit(l) = {} /\ ~Writes(e)
  <2>1. \A w \in WAY : l2'[w] = l2[w]
    BY <1>1, <1>9
  <2>2. Hit(l)' = Hit(l)
    BY <2>1 DEF Hit
  <2> QED
    BY <1>1, <1>2, <1>6, <1>9, <2>2
<1>10. CASE inv(e)
  BY <1>1, <1>2, <1>4, <1>6, <1>10
<1> QED
  BY <1>7, <1>8, <1>9, <1>10

\* Where a dirty copy goes, the latest store goes with it.
LEMMA LatestHeld ==
  ASSUME BankInv, CopiesNew, OwedNew, [Next]_vars, NEW l \in LINE, DHeld(l)
  PROVE  DHeld(l)' \/ BorneNew(l)'
<1>0. OrderInv /\ TurnInv /\ ClaimInv /\ TypeInv
  BY DEF BankInv, OrderInv
<1>1. PICK c \in CORE : DirtyAt(c, l)
  BY DEF DHeld
<1>2. CASE DirtyAt(c, l)'
  BY <1>2 DEF DHeld
<1>3. CASE CreateWrite(c) /\ Owing(c, l)
  <2>1. PICK n \in SID : IsNew(sab'[n], vb[c].kind, vb[c].line, c, WriteDepd, 0)
    BY <1>0, <1>3, CreateWriteFull
  <2> DEFINE f == sab'[n]
  <2>2. wns(f) /\ f.line = l /\ f.st = "DEPD" /\ ~f.wt
    BY <1>3, <2>1 DEF IsNew, Owing, wns, WriteKind
  <2>3. Carrier(f) /\ Val(f)
    BY <2>2 DEF Carrier, Unwritten, Val
  <2> QED
    BY <2>2, <2>3 DEF BorneNew
<1>4. ASSUME NEW s \in SID, SnpResp(s, c), sab[s].line = l, Dirty(c, l),
             acsnoop(sab[s]) # "RO"
      PROVE  BorneNew(l)'
  <2> DEFINE e == sab[s]
             f == sab'[s]
  <2>1. TakesDirty(s) /\ e.st = "SNOP"
    BY <1>4 DEF TakesDirty, SnpResp
  <2>2. Snooped(e, f, c)
    BY <1>0, <1>4, SnpRespFull
  <2>3. f.new
    BY <1>0, <2>1, TakesNew
  <2>4. e.kind \in Kind \ {"none"} /\ e.kind \notin WriteKind
    BY <1>0, <2>1, UsedShape DEF StateShape
  <2>5. f.st = "SNOP" /\ f.line = l /\ f.l1_pd /\ f.kind = e.kind
    BY <1>4, <2>1, <2>2 DEF Snooped, SameAccess, SameRequest
  <2>6. Seeker(f)
    BY <2>4, <2>5 DEF Seeker, Kind
  <2>7. Carrier(f) /\ Val(f)
    BY <2>3, <2>5, <2>6 DEF Carrier, Unwritten, Val
  <2> QED
    BY <2>5, <2>7 DEF BorneNew
<1> QED
  BY <1>0, <1>1, <1>2, <1>3, <1>4, ValueSide DEF ValueFrom, DirtyGoes

\* An entry that carries the latest store goes on to carry it until it writes
\* it to the L2.
LEMMA CarrierOn ==
  ASSUME BankInv, DataShapes, OneHolder, CopiesNew, OwedNew, [Next]_vars, NEW u \in SID,
         Carrier(sab[u]), Val(sab[u]), ~Stored(sab[u].line)
  PROVE  L2Write(u) \/ (Carrier(sab'[u]) /\ SameName(sab[u], sab'[u]) /\ Val(sab'[u]))
<1>0. OrderInv /\ TurnInv /\ TypeInv /\ HitInv /\ CopyInv /\ LateInv
  BY DEF BankInv, OrderInv
<1> DEFINE e == sab[u]
           f == sab'[u]
<1>1. u \in Valid /\ Unwritten(e)
  BY <1>0, WnsNames, CarrierShape DEF Carrier
<1>2. ~Dies(u)
  BY <1>1 DEF Dies, Pop, Unwritten
<1>3. Lives(u) /\ Draws(u) /\ Works(u) /\ Stays(u)
  BY <1>0, <1>1, <1>2, EntryMoves, EntryDraws, EntryWorks, EntryStays DEF Born, HitInv
<1>4. SameName(e, f)
  BY <1>3 DEF Lives, GoesNext
<1> SUFFICES ASSUME ~L2Write(u)
             PROVE  Carrier(f) /\ Val(f)
  BY <1>4
<1>5. CASE wns(e)
  <2>1. wns(f)
    BY <1>4, <1>5 DEF wns, SameName
  <2>2. Val(f)
    BY <1>1, <1>5, <2>1, ValKept
  <2>3. f.st # "MEMW"
    <3>1. HitInv'
      BY <1>0, StepHit
    <3> QED
      BY <2>1, <3>1 DEF HitInv, WriteHit, Looked, Acting
  <2>4. Unwritten(f)
    BY <1>1, <1>3, <1>5, <2>3 DEF Stays, StaysUp
  <2> QED
    BY <2>1, <2>2, <2>4 DEF Carrier
<1>6. CASE ~wns(e)
  <2>1. /\ Seeker(e) /\ e.l1_pd /\ e.kind \notin {"ro", "none"}
        /\ e.st = "SNOP" \/ (e.st = "L2CW" /\ e.l2c_req)
    BY <1>0, <1>6, CarrierShape
  <2>2. e.kind # "evict" /\ e.new
    BY <1>6, <2>1 DEF Seeker, ReadKind, Val
  <2>3. Unwritten(f)
    BY <1>1, <1>3, <1>6, <2>1, <2>2 DEF Stays, StaysUp
  <2>4. f.l1_pd /\ Seeker(f)
    BY <1>3, <1>4, <2>1 DEF Draws, DrawsDirty, SameName, Seeker
  <2>5. ~WriteData(u) /\ ~MemRead(u)
    BY <2>1 DEF WriteData, MemRead
  <2>6. f.new
    <3>1. TakesDirty(u) => f.new
      BY <1>0, TakesNew
    <3> QED
      BY <1>3, <2>1, <2>2, <2>5, <3>1 DEF Draws, DrawsNew
  <2> QED
    BY <2>3, <2>4, <2>6 DEF Carrier, Val
<1> QED
  BY <1>5, <1>6

\* An entry that carries the line after another has written it to the L2 had it
\* later: if the one wrote the latest store, the other has it too.
LEMMA OtherCarrier ==
  ASSUME BankInv, DataShapes, DirtyNew, ValOrder, LateOver, NEW u \in SID, NEW v \in SID,
         u # v, L2Write(u), Carrier(sab[u]), Carrier(sab[v]), sab[v].line = sab[u].line,
         Val(sab[u])
  PROVE  Val(sab[v])
<1>0. OrderInv /\ TurnInv /\ TypeInv /\ HitInv /\ WriteInv /\ LateInv
  BY DEF BankInv, OrderInv
<1> DEFINE e == sab[u]
           g == sab[v]
<1>1. e.st = "L2CW" /\ Acting(e) /\ u \in Valid
  BY <1>0, WritesAt
<1>2. CASE wns(e) /\ wns(g)
  <2>1. AWrite(e) /\ AWrite(g) /\ v \in Valid
    BY <1>0, <1>2, WnsNames
  <2>2. v \notin e.older
    BY <1>0, <1>1, <2>1 DEF WriteInv, WritesInTurn
  <2>3. u \in g.older
    BY <1>0, <1>1, <2>1, <2>2 DEF OrderInv, AgeOrder
  <2> QED
    BY <1>2, <2>3 DEF ValOrder
<1>3. CASE wns(e) /\ ~wns(g)
  <2>1. /\ v \in Valid /\ Seeker(g) /\ Cleans(g) /\ g.l1_dt /\ g.kind \notin {"ro", "none"}
        /\ g.st = "SNOP" \/ (g.st = "L2CW" /\ g.l2c_req)
    BY <1>0, <1>3, CarrierShape
  <2>2. StateShape(g)
    BY <1>0, <2>1, UsedShape DEF Valid
  <2>3. CASE g.st = "SNOP"
    <3>1. Pending(g)
      BY <2>1, <2>2, <2>3 DEF Pending, Open, Seeker, StateShape, snpl2
    <3> QED
      BY <2>1, <3>1 DEF DirtyNew, Val
  <2>4. CASE g.st = "L2CW" /\ g.l2c_req
    <3>1. Settled(g)
      BY <2>1, <2>2, <2>4 DEF Settled, StateShape, Holds
    <3>2. e.mid = g.mid /\ g.resp = "sent"
      BY <1>0, <1>3, <2>1, <3>1 DEF LateInv, NoLateWrite, Late
    <3>3. ~Pending(g)
      BY <1>0, <1>3, <3>2, NoOwnerOfSnpL2 DEF Pending, Open
    <3>4. v \in e.older
      BY <1>3, <2>1, <3>3 DEF LateOver
    <3> QED
      BY <2>4, <3>4 DEF L2Write, Granted
  <2> QED
    BY <2>1, <2>3, <2>4
<1>4. CASE ~wns(e) /\ wns(g)
  <2>1. Seeker(e) /\ Cleans(e)
    BY <1>0, <1>4, CarrierShape
  <2>2. Settled(e)
    BY <1>0, <2>1, WritesAt DEF Cleans
  <2>3. g.mid = e.mid /\ e.resp = "sent"
    BY <1>0, <1>4, <2>1, <2>2 DEF LateInv, NoLateWrite, Late
  <2>4. ~Pending(e)
    BY <1>0, <1>4, <2>3, NoOwnerOfSnpL2 DEF Pending, Open
  <2>5. e.new
    BY <1>4 DEF Val
  <2> QED
    BY <1>4, <2>1, <2>4, <2>5 DEF LateOver
<1>5. CASE ~wns(e) /\ ~wns(g)
  <2>1. Seeker(g) /\ Acting(g) /\ Seeker(e)
    BY <1>0, <1>5, CarrierShape
  <2> QED
    BY <1>0, <1>1, <2>1, OneSeeker
<1> QED
  BY <1>2, <1>3, <1>4, <1>5

\* What carries the line carried it before, or some core held it dirty.
LEMMA NewCarrier ==
  ASSUME BankInv, DataShapes, [Next]_vars, NEW t \in SID, Carrier(sab'[t]),
         NEW l, sab'[t].line = l, ~DHeld(l)
  PROVE  Carrier(sab[t]) /\ sab[t].line = l
<1>0. OrderInv /\ TypeInv
  BY DEF BankInv, OrderInv
<1> DEFINE e == sab[t]
           f == sab'[t]
<1>1. f.kind # "none"
  BY DEF Carrier, wns, Seeker, ReadKind
<1>2. ~Born(t)
  <2>1. ASSUME BornWrite(t), t \notin Valid
        PROVE  FALSE
    <3>1. f.kind \in WriteKind /\ f.line \in LINE
      BY <2>1 DEF BornWrite
    <3>2. wns(f)
      BY <3>1 DEF Carrier, WriteKind, Seeker, ReadKind, wns
    <3>3. f.mid \in CORE /\ Owing(f.mid, f.line)
      <4>1. PICK c \in CORE :
              /\ CreateWrite(c) /\ f.kind = vb[c].kind /\ f.line = vb[c].line /\ f.mid = c
              /\ f.kind \in WriteKind /\ f.line \in LINE
              /\ \A u \in SID \ {t} : MarkedBack(sab[u], sab'[u], t)
        BY <2>1 DEF BornWrite
      <4> QED
        BY <1>0, <2>1, <3>2, <4>1, NewWrite
    <3> QED
      BY <3>3 DEF DHeld, DirtyAt
  <2>2. ~BornSeeker(t)
    BY DEF BornSeeker, Carrier, wns, WriteKind
  <2> QED
    BY <2>1, <2>2 DEF Born
<1>3. OnFrom(t)
  BY <1>1, <1>2, EntryOn
<1>4. SameName(e, f) /\ Works(t) /\ Draws(t)
  BY <1>3 DEF OnFrom
<1>5. Unwritten(e)
  BY <1>4 DEF Works, WorksHit, Carrier
<1>6. ~TakesDirty(t)
  BY <1>0, <1>4, DirtyOwes DEF TakesDirty, DHeld, SameName
<1>7. f.l1_pd => e.l1_pd
  BY <1>4, <1>6 DEF Draws, DrawsDirty
<1> QED
  BY <1>4, <1>5, <1>7 DEF Carrier, SameName, wns, Seeker

\* Once the last entry that carries the line has written it, the latest store is
\* in the L2 or on its way to the memory.
LEMMA LatestWritten ==
  ASSUME BankInv, DataShapes, OneHolder, CopiesNew, OwedNew, DirtyNew, ValOrder, LateOver,
         [Next]_vars, NEW l \in LINE, ~DHeld(l),
         NEW u \in SID, L2Write(u), Carrier(sab[u]), Val(sab[u]), sab[u].line = l
  PROVE  BorneNew(l)' \/ (Below(l)' /\ ~Borne(l)')
<1>0. OrderInv /\ TurnInv /\ TypeInv /\ HitInv /\ CopyInv
  BY DEF BankInv, OrderInv
<1> DEFINE e == sab[u]
           f == sab'[u]
<1>1. Only(u) /\ Written(e, f)
  BY <1>0, WriteEffect
<1>2. CASE \E v \in SID : v # u /\ Carrier(sab[v]) /\ sab[v].line = l
  <2>1. PICK v \in SID : v # u /\ Carrier(sab[v]) /\ sab[v].line = l
    BY <1>2
  <2>2. Val(sab[v])
    BY <2>1, OtherCarrier
  <2>3. sab'[v] = sab[v]
    BY <1>1, <2>1 DEF Only
  <2> QED
    BY <2>1, <2>2, <2>3 DEF BorneNew
<1>3. CASE \A v \in SID : v # u => ~(Carrier(sab[v]) /\ sab[v].line = l)
  <2>1. ~Borne(l)'
    <3> SUFFICES ASSUME NEW t \in SID, Carrier(sab'[t]), sab'[t].line = l
                 PROVE  FALSE
      BY DEF Borne
    <3>1. Carrier(sab[t]) /\ sab[t].line = l
      BY NewCarrier
    <3>2. t = u
      BY <1>3, <3>1
    <3>3. ~Unwritten(f)
      BY <1>0, L2WriteWorks
    <3> QED
      BY <3>2, <3>3 DEF Carrier
  <2>2. e.kind \in ReadKind \cup {"snpl2", "wb", "wc"}
    BY DEF Carrier, Seeker, wns
  <2>3. CASE Writes(e)
    <3>1. e.new
      <4>1. wns(e) => e.wt
        BY <1>0, WritesAt DEF DataShapes, DataShape
      <4> QED
        BY <4>1 DEF Val
    <3>2. Hit(l)' # {} /\ \A w \in Hit(l)' : l2'[w].new = e.new
      BY <1>0, <2>3, WriteEffect
    <3>3. Below(l)'
      BY <3>1, <3>2 DEF Below
    <3> QED
      BY <2>1, <3>3
  <2>4. CASE ~Writes(e)
    <3>1. ~wns(e)
      BY <2>4 DEF Writes, wtud
    <3>2. e.l1_pd /\ e.kind \notin {"ro", "none"} /\ e.new
      BY <1>0, <3>1, CarrierShape DEF Val
    <3>3. e.kind \in {"ci", "snpl2"}
      BY <2>2, <2>4, <3>1, <3>2
         DEF Writes, wtud, wtuc, wns, rd_alct, rs, ReadKind
    <3>4. Hit(l)' = {}
      BY <1>0, <3>3, WriteEffect DEF inv
    <3>5. f.kind = e.kind /\ f.st = "L2CW" /\ f.l1_pd /\ ~Unwritten(f) /\ f.line = l /\ f.new
      <4>1. f.kind = e.kind /\ f.line = l /\ f.st = "L2CW" /\ f.l1_pd /\ ~f.l2c_req
        BY <1>0, <1>1, <3>2, WritesAt DEF Written, SameRequest, SameSnoops
      <4>2. f.new
        BY <1>1, <3>2, <3>3 DEF Written, cml2, snpl2, clean, inv
      <4> QED
        BY <4>1, <4>2 DEF Unwritten
    <3>6. DownNew(l)'
      BY <3>3, <3>5 DEF DownNew, Down
    <3> QED
      BY <2>1, <3>4, <3>6 DEF Below
  <2> QED
    BY <2>3, <2>4
<1> QED
  BY <1>2, <1>3

\* An access of an entry that carries nothing leaves the latest store below.
LEMMA BelowWritten ==
  ASSUME BankInv, DataShapes, CleanNew, RefillMem, DownVal, [Next]_vars,
         NEW l \in LINE, ~Stored(l), Below(l),
         NEW u \in SID, L2Write(u), ~Carrier(sab[u]), sab[u].line = l
  PROVE  Below(l)'
<1>0. OrderInv /\ TurnInv /\ TypeInv /\ HitInv /\ CopyInv
  BY DEF BankInv, OrderInv
<1> DEFINE e == sab[u]
           f == sab'[u]
<1>1. Only(u) /\ Written(e, f)
  BY <1>0, WriteEffect
<1>2. /\ e.st = "L2CW" /\ Unwritten(e) /\ Looked(e) /\ Acting(e) /\ ~Down(e)
      /\ u \in Valid
  BY <1>0, WritesAt
<1>3. ~wns(e) /\ ~e.l1_pd
  BY <1>0, <1>2 DEF Carrier, HitInv, PdHit
<1>4. CASE Writes(e)
  <2>1. rd_alct(e) /\ ~e.l2_hit
    BY <1>3, <1>4 DEF Writes, wtud, wtuc
  <2>2. Seeker(e)
    BY <2>1 DEF Seeker, rd_alct, rs, ReadKind
  <2>3. Hit(l) = {}
    BY <1>0, <1>2, <2>1, <2>2 DEF HitInv, ReadHit
  <2>4. HasWay(e)
    BY <1>0, <1>4, <2>3, Refills
  <2>5. e.new <=> mem[l]
    BY <1>2, <2>4 DEF RefillMem
  <2>6. ~DownNew(l)
    BY <1>0, <1>2, <2>2, NoneDown
  <2>7. e.new
    BY <2>3, <2>5, <2>6 DEF Below
  <2>8. Hit(l)' # {} /\ \A w \in Hit(l)' : l2'[w].new = e.new
    BY <1>0, <1>4, WriteEffect
  <2> QED
    BY <2>7, <2>8 DEF Below
<1>5. mem[l] \/ DownNew(l) => mem'[l] \/ DownNew(l)'
  BY MemKept
<1>6. CASE inv(e)
  <2>1. Hit(l)' = {}
    BY <1>0, <1>6, WriteEffect
  <2>2. CASE Hit(l) = {}
    BY <1>5, <2>1, <2>2 DEF Below
  <2>3. CASE Hit(l) # {}
    <3> DEFINE w == HitWay(l)
    <3>1. w \in Hit(l) /\ w \in WAY /\ l2[w].vld /\ l2[w].tag = l
      BY <2>3 DEF HitWay, Hit
    <3>2. l2[w].new
      BY <2>3, <3>1 DEF Below
    <3>3. CASE l2[w].dirty
      <4>1. f.kind = e.kind /\ f.line = l /\ f.st = "L2CW" /\ ~f.l2c_req
        BY <1>1, <1>2 DEF Written, SameRequest
      <4>2. f.l2_pd /\ f.new
        BY <1>1, <1>3, <1>6, <2>3, <3>2, <3>3 DEF Written, inv, snpl2, cml2
      <4>3. Down(f)
        BY <1>6, <4>1, <4>2 DEF Down, inv, Unwritten
      <4> QED
        BY <2>1, <4>1, <4>2, <4>3 DEF Below, DownNew
    <3>4. CASE ~l2[w].dirty
      <4>1. mem[l] \/ DownNew(l)
        BY <3>1, <3>2, <3>4 DEF CleanNew
      <4> QED
        BY <1>5, <2>1, <4>1 DEF Below
    <3> QED
      BY <3>3, <3>4
  <2> QED
    BY <2>2, <2>3
<1>7. CASE ~Writes(e) /\ ~inv(e)
  <2>1. Hit(l)' = Hit(l) /\ \A w \in Hit(l) : l2'[w].new = l2[w].new
    BY <1>0, <1>7, WriteEffect
  <2> QED
    BY <1>5, <2>1 DEF Below
<1> QED
  BY <1>4, <1>6, <1>7

LEMMA LatestStep ==
  ASSUME BankInv, DataShapes, OneHolder, CopiesNew, OwedNew, DirtyNew, ValOrder, LateOver,
         Latest, CleanNew, RefillMem, DownVal, [Next]_vars
  PROVE  Latest'
<1>0. OrderInv /\ TurnInv /\ TypeInv /\ HitInv /\ CopyInv
  BY DEF BankInv, OrderInv
<1> SUFFICES ASSUME NEW l \in LINE
             PROVE  DHeld(l)' \/ BorneNew(l)' \/ (Below(l)' /\ ~Borne(l)')
  BY DEF Latest
<1>1. CASE Stored(l)
  <2>1. PICK c \in CORE : l1'[c][l].st = "M"
    BY <1>0, <1>1, StoredOld
  <2> QED
    BY <2>1 DEF DHeld, DirtyAt
<1>2. CASE DHeld(l)
  BY <1>2, LatestHeld
<1>3. CASE ~Stored(l) /\ ~DHeld(l) /\ BorneNew(l)
  <2>1. PICK u \in SID : Carrier(sab[u]) /\ sab[u].line = l /\ Val(sab[u])
    BY <1>3 DEF BorneNew
  <2>2. CASE L2Write(u)
    BY <1>3, <2>1, <2>2, LatestWritten
  <2>3. CASE Carrier(sab'[u]) /\ SameName(sab[u], sab'[u]) /\ Val(sab'[u])
    BY <2>1, <2>3 DEF BorneNew, SameName
  <2> QED
    BY <1>3, <2>1, <2>2, <2>3, CarrierOn
<1>4. CASE ~Stored(l) /\ ~DHeld(l) /\ Below(l) /\ ~Borne(l)
  <2>1. ~Borne(l)'
    <3> SUFFICES ASSUME NEW t \in SID, Carrier(sab'[t]), sab'[t].line = l
                 PROVE  FALSE
      BY DEF Borne
    <3> QED
      BY <1>4, NewCarrier DEF Borne
  <2>2. mem[l] \/ DownNew(l) => mem'[l] \/ DownNew(l)'
    BY <1>4, MemKept
  <2>3. CASE \E u \in SID : L2Write(u) /\ sab[u].line = l
    BY <1>4, <2>1, <2>3, BelowWritten DEF Borne
  <2>4. ASSUME NEW u \in SID, L2Write(u), sab[u].line # l
        PROVE  Below(l)'
    <3>1. Hit(l)' = Hit(l) /\ \A v \in Hit(l) : l2'[v] = l2[v]
      BY <1>0, <2>4, WrittenWays DEF CopyInv
    <3> QED
      BY <1>4, <2>2, <3>1 DEF Below
  <2>5. ASSUME \A u \in SID : ~L2Write(u)
        PROVE  Below(l)'
    <3>1. \A w \in WAY : SameWay(w)
      BY <1>0, <2>5, WaysValue DEF WayFrom
    <3>2. Hit(l)' = Hit(l)
      BY <3>1 DEF Hit, SameWay
    <3>3. ASSUME NEW w \in Hit(l)
          PROVE  l2'[w].new <=> l2[w].new
      <4>1. w \in WAY /\ l2[w].tag = l
        BY DEF Hit
      <4> QED
        BY <1>0, <1>4, <2>5, <4>1, WaysValue DEF WayFrom
    <3> QED
      BY <1>4, <2>2, <3>2, <3>3 DEF Below
  <2> QED
    BY <2>1, <2>3, <2>4, <2>5
<1> QED
  BY <1>1, <1>2, <1>3, <1>4 DEF Latest

\* A way that an access changed and left clean and new.
LEMMA CleanWritten ==
  ASSUME BankInv, DataShapes, CleanNew, RefillMem, DownVal, [Next]_vars,
         NEW u \in SID, L2Write(u), NEW w \in WAY, l2'[w] # l2[w],
         l2'[w].vld, ~l2'[w].dirty, l2'[w].new, NEW m, m = l2'[w].tag
  PROVE  mem'[m] \/ DownNew(m)'
<1>0. OrderInv /\ TurnInv /\ TypeInv /\ HitInv /\ CopyInv
  BY DEF BankInv, OrderInv
<1> DEFINE e == sab[u]
           f == sab'[u]
           l == e.line
           v == WayOf(e)
<1>1. /\ Only(u) /\ Written(e, f)
      /\ Hit(l) # {} \/ Writes(e) => v \in WAY
      /\ \A x \in WAY : x # v \/ (Hit(l) = {} /\ ~Writes(e)) => l2'[x] = l2[x]
      /\ Hit(l) = {} /\ Writes(e) => v \in RefillWays /\ l2'[v] = Refilled(e)
      /\ Hit(l) # {} /\ inv(e) => l2'[v] = Emptied(l2[v])
      /\ Hit(l) # {} /\ ~inv(e) => l2'[v] = Updated(e, l2[v])
  BY <1>0, L2WriteFull
<1>2. w = v /\ (Hit(l) # {} \/ Writes(e))
  BY <1>1
<1>3. /\ e.st = "L2CW" /\ Unwritten(e) /\ Looked(e) /\ Acting(e) /\ ~Down(e)
      /\ u \in Valid /\ l \in LINE /\ e \in EntryType
  BY <1>0, WritesAt
<1>4. l2[w] \in WayType
  BY <1>0 DEF TypeInv, Rest, Ways
<1>5. f.kind = e.kind /\ f.line = l /\ f.st = "L2CW" /\ ~f.l2c_req /\ f.l1_pd = e.l1_pd
  BY <1>1, <1>3 DEF Written, SameRequest, SameSnoops
<1>6. CASE Hit(l) = {}
  <2>1. Writes(e) /\ l2'[w] = Refilled(e)
    BY <1>1, <1>2, <1>6
  <2>2. HasWay(e) /\ e.st # "MEMR"
    BY <1>0, <1>3, <1>6, <2>1, Refills
  <2>3. l2'[w].tag = l /\ l2'[w].new = e.new
    <3>1. Refilled(e).tag = l /\ Refilled(e).new = e.new
      BY DEF Refilled
    <3> QED
      BY <2>1, <3>1, Zenon
  <2>4. e.new <=> mem[l]
    BY <2>2 DEF RefillMem
  <2>5. mem' = mem
    BY DEF L2Write
  <2> QED
    BY <2>3, <2>4, <2>5
<1>7. CASE Hit(l) # {}
  <2>1. w \in Hit(l) /\ w = HitWay(l) /\ l2[w].vld /\ l2[w].tag = l
    BY <1>2, <1>7 DEF WayOf, HitWay, Hit
  <2>2. ~inv(e)
    <3>1. inv(e) => ~l2'[w].vld
      BY <1>1, <1>2, <1>4, <1>7, EmptiedFields
    <3> QED
      BY <3>1
  <2>3. l2'[w] = Updated(e, l2[w])
    BY <1>1, <1>2, <1>7, <2>2
  <2>4. /\ Updated(e, l2[w]).tag = l2[w].tag
        /\ Updated(e, l2[w]).dirty <=> (l2[w].dirty \/ wtud(e)) /\ ~wtuc(e) /\ ~clean(e)
        /\ Updated(e, l2[w]).new = IF Writes(e) THEN e.new ELSE l2[w].new
    BY <1>3, <1>4, UpdatedFields
  <2>5. /\ l2'[w].tag = l
        /\ l2'[w].dirty <=> (l2[w].dirty \/ wtud(e)) /\ ~wtuc(e) /\ ~clean(e)
        /\ l2'[w].new = IF Writes(e) THEN e.new ELSE l2[w].new
    BY <2>1, <2>3, <2>4, Zenon
  <2> HIDE DEF v
  <2>6. CASE wtuc(e)
    <3>1. rd_alct(e) => e.l2_hit
      <4>1. rd_alct(e) => Seeker(e)
        BY DEF Seeker, rd_alct, rs, ReadKind
      <4> QED
        BY <1>0, <1>3, <1>7, <4>1 DEF HitInv, ReadHit
    <3>2. e.kind = "csl2" /\ e.l1_pd
      BY <2>6, <3>1 DEF wtuc
    <3>3. f.new
      BY <1>1, <2>5, <2>6, <3>2 DEF Written, Writes, cml2, snpl2, clean, inv
    <3>4. Down(f)
      BY <1>5, <3>2 DEF Down, Unwritten
    <3> QED
      BY <1>5, <2>5, <3>3, <3>4 DEF DownNew
  <2>7. CASE ~wtuc(e) /\ clean(e) /\ l2[w].dirty
    <3>1. e.kind = "csl2" /\ ~e.l1_pd
      BY <2>7 DEF clean
    <3>2. ~Writes(e)
      BY <2>7, <3>1 DEF Writes, wtud, wns, rd_alct, rs
    <3>3. f.new /\ f.l2_pd
      BY <1>1, <1>7, <2>1, <2>5, <2>7, <3>1, <3>2 DEF Written, cml2
    <3>4. Down(f)
      BY <1>5, <3>1, <3>3 DEF Down, Unwritten
    <3> QED
      BY <1>5, <2>5, <3>3, <3>4 DEF DownNew
  <2>8. CASE ~wtuc(e) /\ ~(clean(e) /\ l2[w].dirty)
    <3>1. ~l2[w].dirty /\ ~Writes(e)
      <4>1. clean(e) => ~wtud(e)
        BY DEF clean, wtud, wns, rd_alct, rs
      <4> QED
        BY <2>5, <2>8, <4>1 DEF Writes
    <3>2. mem[m] \/ DownNew(m)
      BY <2>1, <2>5, <3>1 DEF CleanNew
    <3>3. m \in LINE /\ ~Stored(m)
      BY <1>0, <1>3, <2>1, <2>5, StoredOld
    <3> QED
      BY <3>2, <3>3, MemKept
  <2> QED
    BY <2>6, <2>7, <2>8
<1> QED
  BY <1>6, <1>7

LEMMA CleanNewStep ==
  ASSUME BankInv, DataShapes, CleanNew, RefillMem, DownVal, [Next]_vars
  PROVE  CleanNew'
<1>0. TypeInv
  BY DEF BankInv, OrderInv
<1> SUFFICES ASSUME NEW w \in WAY, l2'[w].vld, ~l2'[w].dirty, l2'[w].new, NEW m, m = l2'[w].tag
             PROVE  mem'[m] \/ DownNew(m)'
  BY DEF CleanNew
<1>1. CASE SameWay(w) /\ (l2'[w].new <=> l2[w].new)
  <2>1. l2[w].vld /\ ~l2[w].dirty /\ l2[w].new /\ l2[w].tag = m
    BY <1>1 DEF SameWay
  <2>2. m \in LINE
    BY <1>0, <2>1 DEF TypeInv, Rest, Ways
  <2>3. ~Stored(m)
    BY <1>0, <2>1, <2>2, StoredOld
  <2>4. mem[m] \/ DownNew(m)
    BY <2>1 DEF CleanNew
  <2> QED
    BY <2>2, <2>3, <2>4, MemKept
<1>2. ASSUME NEW u \in SID, L2Write(u)
      PROVE  mem'[m] \/ DownNew(m)'
  <2>1. CASE l2'[w] = l2[w]
    BY <1>1, <2>1 DEF SameWay
  <2>2. CASE l2'[w] # l2[w]
    BY <1>2, <2>2, CleanWritten
  <2> QED
    BY <2>1, <2>2
<1> QED
  BY <1>0, <1>1, <1>2, WaysValue DEF WayFrom

LEMMA RefillMemStep ==
  ASSUME BankInv, DataShapes, RefillMem, [Next]_vars
  PROVE  RefillMem'
<1>0. OrderInv /\ TurnInv /\ TypeInv /\ HitInv
  BY DEF BankInv, OrderInv
<1> SUFFICES ASSUME NEW s \in SID, HasWay(sab'[s]),
                    sab'[s].st = "MEMR" => sab'[s].memr = "cmplt"
             PROVE  sab'[s].new <=> mem'[sab'[s].line]
  BY DEF RefillMem
<1> DEFINE e == sab[s]
           f == sab'[s]
           l == e.line
<1>1. Looked(f) /\ Unwritten(f) /\ f.kind \in ReadKind
  BY WayReader
<1>2. ~L2Allocate(s)
  <2>1. L2Allocate(s) => Fetches(e, f)
    BY <1>0, L2AllocateFull
  <2> QED
    BY <2>1 DEF Fetches
<1>3. ~L2Write(s)
  BY <1>0, <1>1, L2WriteWorks
<1>4. HasWay(e)
  BY <1>0, <1>2, <1>3, WaySame
<1>5. /\ rd_alct(e) /\ Seeker(e) /\ Acting(e) /\ Looked(e) /\ Unwritten(e) /\ ~e.l2_hit
      /\ rd(e) /\ ~wns(e) /\ ~cml2(e) /\ ~snpl2(e)
      /\ e.st \in {"MEMR", "L2CT", "L2CW"}
  BY <1>4, WayReader DEF rd, HasWay, rd_alct, rs, wns, cml2, snpl2
<1>6. OnFrom(s)
  <2>1. f.kind # "none"
    BY <1>1 DEF ReadKind
  <2>2. ~Born(s)
    BY <1>1 DEF Born, BornWrite, BornSeeker, WriteKind, ReadKind
  <2> QED
    BY <2>1, <2>2, EntryOn
<1>7. f.line = l /\ l \in LINE /\ Draws(s) /\ Stays(s)
  BY <1>6 DEF OnFrom, SameName
<1>8. GotData(f)
  BY DEF GotData, HasWay
<1>9. CASE MemRead(s)
  <2>1. f.new = mem[l]
    BY <1>0, <1>5, <1>9, MemReadFull
  <2>2. mem' = mem
    BY <1>9 DEF MemRead
  <2> QED
    BY <1>7, <2>1, <2>2
<1>10. CASE ~MemRead(s)
  <2>1. GotData(e)
    BY <1>5, <1>7, <1>8, <1>10 DEF Stays, StaysGot
  <2>2. e.new <=> mem[l]
    BY <1>4, <2>1 DEF RefillMem, GotData
  <2>3. CASE Stored(l)
    BY <1>0, <1>7, <2>3, StoredOld
  <2>4. CASE ~Stored(l)
    <3>1. ~WriteData(s) /\ ~TakesDirty(s)
      BY <1>5 DEF WriteData, TakesDirty, SnpResp
    <3>2. f.new = e.new
      BY <1>5, <1>7, <1>10, <2>4, <3>1 DEF Draws, DrawsNew
    <3>3. ASSUME NEW t \in SID, MemWrite(t), sab[t].line = l
          PROVE  FALSE
      <4>1. sab[t].st = "MEMW"
        BY <3>3 DEF MemWrite
      <4>2. Seeker(sab[t]) /\ Acting(sab[t])
        BY <1>0, <4>1 DEF HitInv, MemKinds, Seeker, Acting, cml2, snpl2, ReadKind
      <4>3. t = s
        BY <1>0, <1>5, <3>3, <4>2, OneSeeker
      <4> QED
        BY <1>5, <4>1, <4>3
    <3>4. mem'[l] <=> mem[l]
      BY <1>0, <1>7, <2>4, <3>3, MemValue DEF MemFrom
    <3> QED
      BY <1>7, <2>2, <3>2, <3>4
  <2> QED
    BY <2>3, <2>4
<1> QED
  BY <1>9, <1>10

\* An entry that cleans the memory side is not answered before it is done.
LEMMA CleanPending ==
  ASSUME TypeInv, TurnInv, NEW s \in SID, cml2(sab[s]) \/ snpl2(sab[s]), sab[s].st # "POP"
  PROVE  Pending(sab[s])
<1>1. sab[s].kind # "none"
  BY DEF cml2, snpl2
<1>2. StateShape(sab[s])
  BY <1>1, InUse, UsedShape
<1> QED
  BY <1>2 DEF Pending, Open, StateShape, cml2, snpl2, ReadKind

\* Nobody stores to the line of an entry that has done with the cores.
LEMMA NoStoreUnder ==
  ASSUME OrderInv, TurnInv, ClaimInv, OwesInv, NEW s \in SID, Cleans(sab[s]),
         Pending(sab[s]), Holds(sab[s]) = {}
  PROVE  sab[s].line \in LINE /\ ~Stored(sab[s].line)
<1>1. sab[s].line \in LINE
  BY UsedShape DEF Cleans, Looked, Acting, OrderInv
<1> QED
  BY <1>1, StoreUnder DEF Stored

LEMMA DownValStep ==
  ASSUME BankInv, DataShapes, DirtyNew, Latest, DownVal, [Next]_vars
  PROVE  DownVal'
<1>0. OrderInv /\ TurnInv /\ TypeInv /\ HitInv /\ CopyInv /\ ClaimInv /\ OwesInv
  BY DEF BankInv, OrderInv
<1> SUFFICES ASSUME NEW s \in SID, Down(sab'[s])
             PROVE  sab'[s].new
  BY DEF DownVal
<1> DEFINE e == sab[s]
           f == sab'[s]
           l == e.line
<1>1. OnFrom(s)
  <2>1. f.kind # "none" /\ Looked(f) /\ f.kind \notin WriteKind
    BY DownShape DEF Down, WriteKind
  <2>2. ~Born(s)
    BY <2>1 DEF Born, BornWrite, BornSeeker
  <2> QED
    BY <2>1, <2>2, EntryOn
<1>2. /\ s \in Valid /\ Works(s) /\ Draws(s) /\ Stays(s) /\ SameName(e, f)
      /\ e \in EntryType /\ StateShape(e) /\ DataShape(e) /\ l \in LINE
  BY <1>1 DEF OnFrom
<1>3. /\ e.kind \in {"ci", "csl2", "snpl2"} /\ (cml2(e) \/ snpl2(e))
      /\ Seeker(e) /\ ~wns(e) /\ ~rd(e)
      /\ f.st \in {"L2CW", "MEMW"} /\ ~Unwritten(f) /\ (f.l1_pd \/ f.l2_pd)
  BY <1>2 DEF Down, SameName, cml2, snpl2, Seeker, ReadKind, wns, rd, rs
<1>4. CASE Down(e)
  <2>1. /\ Cleans(e) /\ Holds(e) = {}
    BY <1>2, <1>4, DownShape DEF Cleans, Down, StateShape, Holds
  <2>2. Pending(e)
    BY <1>0, <1>3, <1>4, CleanPending DEF Down
  <2>3. ~Stored(l)
    BY <1>0, <2>1, <2>2, NoStoreUnder
  <2>4. ~MemWrite(s)
    <3>1. MemWrite(s) => f.st = "POP"
      BY <1>2, Moved DEF MemWrite, MainState, GoesTo, OrderInv, BankInv
    <3> QED
      BY <1>3, <3>1
  <2>5. f.new = e.new
    BY <1>4, <2>3, <2>4, DownKept
  <2> QED
    BY <1>4, <2>5 DEF DownVal
<1>5. CASE ~Down(e)
  <2>1. Unwritten(e)
    <3> SUFFICES ASSUME ~Unwritten(e)
                 PROVE  FALSE
      OBVIOUS
    <3>1. ~L2Write(s)
      BY <1>0, WritesAt
    <3>2. e.st \in {"POP", "MEMW", "L2CW"}
      BY DEF Unwritten
    <3>3. e.st = "L2CW" /\ ~e.l1_pd /\ ~e.l2_pd
      BY <1>2, <1>3, <1>5, <3>2 DEF Draws, DrawsStage, DataShape, Down
    <3>4. ~TakesDirty(s) /\ ~L2Lookup(s)
      BY <3>3 DEF TakesDirty, SnpResp, L2Lookup
    <3>5. ~f.l1_pd /\ ~f.l2_pd
      BY <1>2, <3>1, <3>3, <3>4 DEF Draws, DrawsDirty
    <3> QED
      BY <1>3, <3>5
  <2>2. L2Write(s)
    BY <1>2, <1>3, <2>1 DEF Stays, StaysUp
  <2>3. /\ Acting(e) /\ Looked(e) /\ Holds(e) = {} /\ e.st = "L2CW" /\ Settled(e)
    BY <1>0, <1>3, <2>2, WritesAt
  <2>4. Written(e, f)
    BY <1>0, <2>2, WriteEffect
  <2>5. Pending(e)
    BY <1>0, <1>3, <2>3, CleanPending
  <2>6. CASE e.l1_pd
    <3>1. e.l1_dt
      BY <1>2, <2>6 DEF DataShape
    <3>2. e.new
      BY <1>3, <2>5, <3>1 DEF DirtyNew
    <3>3. f.new = e.new
      BY <1>3, <2>4, <2>6 DEF Written, clean, inv
    <3> QED
      BY <3>2, <3>3
  <2>7. CASE ~e.l1_pd
    <3>1. ~f.l1_pd
      BY <2>4, <2>7 DEF Written, SameSnoops
    <3>2. Hit(l) # {} /\ l2[HitWay(l)].dirty
      BY <1>3, <2>4, <3>1 DEF Written
    <3>3. f.new = l2[HitWay(l)].new
      BY <1>3, <2>4, <2>7, <3>2 DEF Written, clean, inv
    <3>4. Below(l)
      BY <2>3, <2>5, <2>7, SettledBelow
    <3>5. HitWay(l) \in Hit(l)
      BY <3>2 DEF HitWay
    <3> QED
      BY <3>2, <3>3, <3>4, <3>5 DEF Below
  <2> QED
    BY <2>6, <2>7
<1> QED
  BY <1>4, <1>5

\* A clean to the memory is past the L2 only with what it took on its way to the
\* memory, or with the latest store in memory.
CmoMem == \A s \in SID : LET e == sab[s] IN
  cml2(e) /\ Open(e) /\ Acting(e) /\ ~Unwritten(e) => Down(e) \/ mem[e.line]
\* An invalidation past the L2 leaves no way with the line.
CmoGone == \A s \in SID : LET e == sab[s] IN
  e.kind = "ci" /\ Open(e) /\ ~Unwritten(e) => Hit(e.line) = {}

\* A clean past the L2 was past it, or has just written.
LEMMA CmoFrom ==
  ASSUME BankInv, DataShapes, [Next]_vars, NEW s \in SID,
         cml2(sab'[s]), Open(sab'[s]), ~Unwritten(sab'[s])
  PROVE  /\ SameName(sab[s], sab'[s]) /\ s \in Valid /\ sab[s].line \in LINE
         /\ StateShape(sab[s]) /\ cml2(sab[s]) /\ Open(sab[s]) /\ Seeker(sab[s])
         /\ sab[s].kind # "ro"
         /\ L2Write(s) \/ ~Unwritten(sab[s])
<1> DEFINE e == sab[s]
           f == sab'[s]
<1>1. f.kind # "none" /\ f.kind \notin WriteKind
  BY DEF cml2, WriteKind
<1>2. ~Born(s)
  <2>1. Looked(f)
    BY DEF Unwritten, Looked, Acting
  <2> QED
    BY <1>1, <2>1 DEF Born, BornWrite, BornSeeker
<1>3. OnFrom(s)
  BY <1>1, <1>2, EntryOn
<1>4. /\ SameName(e, f) /\ s \in Valid /\ e.line \in LINE /\ Stays(s) /\ Open(e)
      /\ StateShape(e)
  BY <1>3 DEF OnFrom
<1>5. cml2(e) /\ Seeker(e) /\ e.kind # "ro" /\ ~wns(e)
  BY <1>4 DEF SameName, cml2, Seeker, ReadKind, wns
<1> QED
  BY <1>4, <1>5 DEF Stays, StaysUp

LEMMA CmoMemStep ==
  ASSUME BankInv, DataShapes, Latest, CleanNew, DownVal, CmoMem, [Next]_vars
  PROVE  CmoMem'
<1>0. OrderInv /\ TurnInv /\ TypeInv /\ HitInv /\ CopyInv /\ ClaimInv /\ OwesInv
  BY DEF BankInv, OrderInv
<1> SUFFICES ASSUME NEW s \in SID, cml2(sab'[s]), Open(sab'[s]), Acting(sab'[s]),
                    ~Unwritten(sab'[s])
             PROVE  Down(sab'[s]) \/ mem'[sab'[s].line]
  BY DEF CmoMem
<1> DEFINE e == sab[s]
           f == sab'[s]
           l == e.line
<1>1. /\ SameName(e, f) /\ s \in Valid /\ l \in LINE
      /\ StateShape(e) /\ cml2(e) /\ Open(e) /\ Seeker(e) /\ e.kind # "ro"
      /\ L2Write(s) \/ ~Unwritten(e)
  BY CmoFrom
<1>2. f.line = l /\ f.kind = e.kind /\ e.kind \in {"ci", "csl2"} /\ Pending(e)
  BY <1>1 DEF SameName, Pending, cml2
<1>3. CASE L2Write(s)
  <2>1. /\ Acting(e) /\ Looked(e) /\ Holds(e) = {} /\ e.st = "L2CW" /\ Settled(e) /\ ~Down(e)
    BY <1>0, <1>1, <1>3, WritesAt
  <2>2. Written(e, f) /\ mem' = mem
    BY <1>0, <1>3, WriteEffect
  <2>3. f.st = "L2CW" /\ (f.l1_pd <=> e.l1_pd) /\ (f.l2_pd <=> Hit(l) # {} /\ l2[HitWay(l)].dirty)
    BY <1>1, <2>1, <2>2 DEF Written, SameSnoops
  <2>4. CASE f.l1_pd \/ f.l2_pd
    BY <1>2, <2>3, <2>4 DEF Down
  <2>5. CASE ~f.l1_pd /\ ~f.l2_pd
    <3>1. Below(l)
      BY <1>2, <2>1, <2>3, <2>5, SettledBelow
    <3>2. ~DownNew(l)
      BY <1>0, <1>1, <2>1, NoneDown
    <3>3. mem[l]
      <4>1. CASE Hit(l) = {}
        BY <3>1, <3>2, <4>1 DEF Below
      <4>2. CASE Hit(l) # {}
        <5>1. /\ HitWay(l) \in WAY /\ l2[HitWay(l)].vld /\ l2[HitWay(l)].tag = l
              /\ HitWay(l) \in Hit(l)
          BY <4>2 DEF HitWay, Hit
        <5>2. l2[HitWay(l)].new /\ ~l2[HitWay(l)].dirty
          BY <2>3, <2>5, <3>1, <4>2, <5>1 DEF Below
        <5> QED
          BY <3>2, <5>1, <5>2 DEF CleanNew
      <4> QED
        BY <4>1, <4>2
    <3> QED
      BY <1>2, <2>2, <3>3
  <2> QED
    BY <2>4, <2>5
<1>4. CASE ~Unwritten(e)
  <2>1. Acting(e) /\ Looked(e) /\ Cleans(e) /\ Holds(e) = {}
    BY <1>1, <1>4 DEF Unwritten, Acting, Looked, Cleans, Holds, StateShape
  <2>2. ~Stored(l)
    BY <1>0, <1>2, <2>1, NoStoreUnder
  <2>3. CASE Down(e)
    <3>1. e.new
      BY <2>3 DEF DownVal
    <3> QED
      BY <1>2, <2>2, <2>3, <3>1, DownKept
  <2>4. CASE mem[l]
    BY <1>1, <1>2, <2>2, <2>4, MemKept
  <2> QED
    BY <1>1, <1>4, <2>1, <2>3, <2>4 DEF CmoMem
<1> QED
  BY <1>1, <1>3, <1>4

LEMMA CmoGoneStep ==
  ASSUME BankInv, DataShapes, CmoGone, [Next]_vars
  PROVE  CmoGone'
<1>0. OrderInv /\ TurnInv /\ TypeInv /\ HitInv /\ CopyInv
  BY DEF BankInv, OrderInv
<1> SUFFICES ASSUME NEW s \in SID, sab'[s].kind = "ci", Open(sab'[s]), ~Unwritten(sab'[s]),
                    NEW l, l = sab'[s].line
             PROVE  Hit(l)' = {}
  BY DEF CmoGone
<1> DEFINE e == sab[s]
           f == sab'[s]
<1>1. cml2(f)
  BY DEF cml2
<1>2. /\ SameName(e, f) /\ s \in Valid /\ e.line \in LINE
      /\ StateShape(e) /\ cml2(e) /\ Open(e) /\ Seeker(e)
      /\ L2Write(s) \/ ~Unwritten(e)
  BY <1>1, CmoFrom
<1>3. e.line = l /\ e.kind = "ci"
  BY <1>2 DEF SameName
<1>4. CASE L2Write(s)
  BY <1>0, <1>3, <1>4, WriteEffect DEF inv
<1>5. CASE ~Unwritten(e)
  <2>1. Hit(l) = {}
    BY <1>2, <1>3, <1>5 DEF CmoGone
  <2>2. Acting(e)
    BY <1>5 DEF Unwritten, Acting
  <2>3. ASSUME NEW u \in SID, L2Write(u), sab[u].line = l, Writes(sab[u])
        PROVE  FALSE
    <3>1. HasWay(sab[u])
      BY <1>0, <2>1, <2>3, Refills
    <3>2. Seeker(sab[u]) /\ Acting(sab[u]) /\ rd_alct(sab[u])
      BY <3>1, WayReader
    <3>3. u = s
      BY <1>0, <1>2, <1>3, <2>2, <2>3, <3>2, OneSeeker
    <3> QED
      BY <1>3, <3>2, <3>3 DEF rd_alct, rs
  <2> QED
    BY <1>0, <2>1, <2>3, HitMoves DEF CopyInv, WritesLine
<1> QED
  BY <1>2, <1>4, <1>5

\* A ReadOnce past its look-up that found nothing dirty, and whose line nobody
\* has stored to, knows who may still have it: the cores it has to snoop, and
\* the writes it waits for.
RoClear == \A s \in SID : LET e == sab[s] IN
  Open(e) /\ e.kind = "ro" /\ Looked(e) /\ ~e.l1_dt /\ ~req[e.mid].stored =>
    /\ \A c \in CORE : DirtyAt(c, e.line) => c \in Holds(e)
    /\ \A t \in SID : wns(sab[t]) /\ sab[t].line = e.line => t \in e.depd

\* A core that holds a line dirty is known.
LEMMA DirtyKnown ==
  ASSUME CopyInv, OwesInv, NEW c \in CORE, NEW l \in LINE, DirtyAt(c, l)
  PROVE  Known(c, l)
<1>1. CASE l1[c][l].st = "M"
  BY <1>1 DEF CopyInv, Inclusion
<1>2. CASE Owing(c, l)
  BY <1>2 DEF OwesInv, VictimKnown
<1> QED
  BY <1>1, <1>2 DEF DirtyAt

\* A core becomes dirty only by a store.
LEMMA DirtyFrom ==
  ASSUME TypeInv, [Next]_vars, NEW c \in CORE, NEW l \in LINE, ~Stored(l), DirtyAt(c, l)'
  PROVE  DirtyAt(c, l)
BY CoreSide DEF CoreFrom, OwingFrom, ModifiedFrom, DirtyAt, Stored

\* A snooped core that holds the line dirty gives it.
LEMMA SnoopedGives ==
  ASSUME TypeInv, NEW s \in SID, NEW c \in CORE, SnpResp(s, c), NEW l, l = sab[s].line,
         DirtyAt(c, l)
  PROVE  Dirty(c, l) /\ TakesDirty(s)
<1>1. Owing(c, l) => Bypass(c, l)
  BY DEF SnpResp, Owing, Bypass
<1>2. Dirty(c, l)
  BY <1>1 DEF DirtyAt, Dirty
<1> QED
  BY <1>2 DEF TakesDirty

LEMMA RoClearStep ==
  ASSUME BankInv, DataShapes, RoClear, [Next]_vars
  PROVE  RoClear'
<1>0. /\ OrderInv /\ TurnInv /\ TypeInv /\ HitInv /\ CopyInv /\ ClaimInv /\ OwesInv
      /\ WriteInv
  BY DEF BankInv, OrderInv
<1> SUFFICES ASSUME NEW s \in SID, Open(sab'[s]), sab'[s].kind = "ro", Looked(sab'[s]),
                    ~sab'[s].l1_dt, NEW m, m = sab'[s].mid, ~req'[m].stored,
                    NEW l, l = sab'[s].line
             PROVE  /\ \A c \in CORE : DirtyAt(c, l)' => c \in Holds(sab'[s])
                    /\ \A t \in SID : wns(sab'[t]) /\ sab'[t].line = l => t \in sab'[s].depd
  BY DEF RoClear
<1> DEFINE e == sab[s]
           f == sab'[s]
<1>1. OnFrom(s)
  <2>1. ~Born(s)
    BY DEF Born, BornWrite, BornSeeker, WriteKind
  <2> QED
    BY <2>1, EntryOn
<1>2. /\ s \in Valid /\ Lives(s) /\ Works(s) /\ Draws(s)
      /\ Open(e) /\ e.kind = "ro" /\ e.mid = m /\ e.line = l /\ l \in LINE
      /\ StateShape(e) /\ DataShape(e) /\ ~wns(e) /\ Seeker(e) /\ inst(e)
  BY <1>1 DEF OnFrom, SameName, wns, Seeker, ReadKind, inst
<1>3. ~e.l1_dt
  BY <1>2 DEF Draws, DrawsDirty
<1>4. m \in CORE /\ ~req[m].stored /\ ~Stored(l)
  <2>1. m \in CORE
    BY <1>0, <1>2, Mids
  <2>2. f.kind \in ReadKind => f.resp # "sent"
    BY DEF Open
  <2> QED
    BY <1>0, <1>2, <2>1, <2>2, OpenStored
<1>5. Looked(e) \/ (L2Lookup(s) /\ e.st = "L2C" /\ ~Looked(e))
  BY <1>2 DEF Lives, GoesNext
<1>6. ASSUME NEW c \in CORE, DirtyAt(c, l)'
      PROVE  c \in Holds(f)
  <2>1. DirtyAt(c, l)
    BY <1>0, <1>2, <1>4, <1>6, DirtyFrom
  <2>2. CASE Looked(e)
    <3>1. c \in Holds(e)
      BY <1>2, <1>3, <1>4, <2>1, <2>2 DEF RoClear
    <3>2. ~SnpResp(s, c)
      <4> SUFFICES ASSUME SnpResp(s, c)
                   PROVE  FALSE
        OBVIOUS
      <4>1. TakesDirty(s)
        BY <1>0, <1>2, <2>1, SnoopedGives
      <4> QED
        BY <1>0, <4>1, TakesFull
    <3> QED
      BY <1>2, <3>1, <3>2 DEF Lives, GoesSnoops
  <2>3. CASE L2Lookup(s) /\ e.st = "L2C" /\ ~Looked(e)
    <3>1. Known(c, l)
      BY <1>0, <1>2, <2>1, DirtyKnown
    <3> QED
      BY <1>0, <1>2, <2>3, <3>1, LookedUp
  <2> QED
    BY <1>5, <2>2, <2>3
<1>7. ASSUME NEW t \in SID, wns(sab'[t]), sab'[t].line = l
      PROVE  t \in f.depd
  <2>1. CASE BornWrite(t) /\ t \notin Valid
    <3>1. PICK c \in CORE :
              /\ CreateWrite(c) /\ sab'[t].kind = vb[c].kind /\ sab'[t].line = vb[c].line
              /\ sab'[t].mid = c /\ sab'[t].kind \in WriteKind /\ sab'[t].line \in LINE
              /\ \A u \in SID \ {t} : MarkedBack(sab[u], sab'[u], t)
      BY <2>1 DEF BornWrite
    <3>2. Owing(c, l)
      BY <1>0, <1>7, <2>1, <3>1, NewWrite
    <3>3. s # t
      BY <1>2, <2>1
    <3>4. MarkedBack(e, f, t)
      BY <3>1, <3>3
    <3>5. Looked(e)
      BY <3>4 DEF MarkedBack, SameAccess, Looked, Acting
    <3>6. c \in Holds(e)
      BY <1>2, <1>3, <1>4, <3>2, <3>5 DEF RoClear, DirtyAt
    <3>7. back_mark(e)
      BY <1>2, <3>6 DEF back_mark, Holds, StateShape, WriteKind
    <3> QED
      BY <3>4, <3>7 DEF MarkedBack
  <2>2. CASE SameName(sab[t], sab'[t]) /\ wns(sab[t])
    <3>1. sab[t].line = l /\ AWrite(sab[t]) /\ sab'[t].st # "IDLE"
      BY <1>0, <1>7, <2>2, WnsNames, WnsOn DEF SameName
    <3>2. t \in e.depd
      <4>1. CASE Looked(e)
        BY <1>2, <1>3, <1>4, <2>2, <3>1, <4>1 DEF RoClear
      <4>2. CASE ~Looked(e) /\ e.st = "L2C"
        BY <1>0, <1>2, <3>1, <4>2 DEF WriteInv, WritesMet, ToMeet
      <4> QED
        BY <1>5, <4>1, <4>2
    <3> QED
      BY <1>2, <3>1, <3>2 DEF Lives, GoesRest
  <2> QED
    BY <1>0, <1>7, <2>1, <2>2, WnsOn
<1> QED
  BY <1>6, <1>7

\* A ReadOnce that has done with the cores, and whose line nobody has stored to,
\* finds the latest store below.
LEMMA RoBelow ==
  ASSUME BankInv, DataShapes, Latest, RoClear, NEW s \in SID, Open(sab[s]),
         sab[s].kind = "ro", sab[s].st \in {"L2CR", "MEMR"}, ~req[sab[s].mid].stored
  PROVE  sab[s].line \in LINE /\ Below(sab[s].line)
<1>0. /\ OrderInv /\ TurnInv /\ TypeInv /\ HitInv /\ CopyInv /\ ClaimInv /\ OwesInv
      /\ WriteInv /\ LateInv
  BY DEF BankInv, OrderInv
<1> DEFINE e == sab[s]
           l == e.line
<1>1. /\ s \in Valid /\ Looked(e) /\ Acting(e) /\ Unwritten(e) /\ Seeker(e)
      /\ l \in LINE /\ StateShape(e) /\ DataShape(e)
  <2>1. s \in Valid /\ Looked(e) /\ Acting(e) /\ Unwritten(e) /\ Seeker(e)
    BY DEF Valid, Looked, Acting, Unwritten, Seeker, ReadKind
  <2> QED
    BY <1>0, <2>1, UsedShape DEF DataShapes, Valid
<1>2. Holds(e) = {} /\ ~e.l1_dt /\ ~e.l1_pd
  BY <1>1 DEF Holds, StateShape, DataShape
<1>3. ~DHeld(l)
  BY <1>1, <1>2 DEF RoClear, DHeld
<1>4. ASSUME NEW t \in SID, Carrier(sab[t]), sab[t].line = l
      PROVE  FALSE
  <2>1. wns(sab[t])
    <3> SUFFICES ASSUME ~wns(sab[t])
                 PROVE  FALSE
      OBVIOUS
    <3>1. Seeker(sab[t]) /\ Acting(sab[t]) /\ sab[t].l1_pd
      BY <1>0, <1>4, CarrierShape
    <3>2. t = s
      BY <1>0, <1>1, <1>4, <3>1, OneSeeker
    <3> QED
      BY <1>2, <3>1, <3>2
  <2>2. t \in e.depd
    BY <1>1, <1>2, <1>4, <2>1 DEF RoClear
  <2>3. e.st = "MEMR"
    BY <1>1, <2>2 DEF DataShape
  <2>4. Hit(l) = {}
    BY <1>0, <1>1, <2>3 DEF HitInv, ReadHit, DataShape
  <2>5. ~Looked(sab[t])
    BY <1>0, <1>4, <2>1, <2>4 DEF HitInv, WriteHit, Carrier
  <2>6. ~Known(sab[t].mid, l)
    <3>1. ASSUME NEW u \in SID, sab[u].line = l, Taker(sab[u]), sab[t].mid \in Holds(sab[u])
          PROVE  FALSE
      <4>1. sab[u].kind \in Kind /\ sab[u].kind # "none"
        BY <3>1 DEF Taker, Kind, ReadKind
      <4> QED
        BY <1>0, <2>4, <3>1, <4>1, HolderHits
    <3>2. ASSUME NEW u \in SID, sab[u].line = l, Filled(sab[u])
          PROVE  FALSE
      <4>1. Seeker(sab[u]) /\ Acting(sab[u]) /\ sab[u].st = "L2CW"
        BY <3>2 DEF Filled, Seeker, Acting, ReadKind
      <4>2. u = s
        BY <1>0, <1>1, <3>2, <4>1, OneSeeker
      <4> QED
        BY <2>3, <4>1, <4>2
    <3>3. ~InFilter(sab[t].mid, l)
      BY <2>4 DEF InFilter
    <3> QED
      BY <3>1, <3>2, <3>3 DEF Known
  <2>7. PICK u \in SID : TakesAway(u, l)
    BY <1>0, <1>4, <2>1, <2>5, <2>6 DEF LateInv, WnsKnown
  <2>8. Seeker(sab[u]) /\ Acting(sab[u]) /\ sab[u].kind # "ro" /\ sab[u].line = l
    BY <2>7 DEF TakesAway, Cleans, Looked
  <2>9. u = s
    BY <1>0, <1>1, <2>8, OneSeeker
  <2> QED
    BY <2>8, <2>9
<1> QED
  BY <1>1, <1>3, <1>4 DEF Latest, BorneNew

\* The first look-up finds the latest store, or knows who brings it.
LEMMA ReadLooksUp ==
  ASSUME BankInv, DataShapes, Latest, NEW s \in SID, Open(sab[s]), rd(sab[s]), L2Lookup(s),
         sab[s].st = "L2C", sab'[s].l2_hit, NEW l, l = sab[s].line
  PROVE  \/ sab'[s].new
         \/ \E c \in Holds(sab'[s]) : DirtyAt(c, l)'
         \/ sab'[s].wns_pend /\ ~sab'[s].l1_dt /\ Holds(sab'[s]) # {}
<1>0. /\ OrderInv /\ TurnInv /\ TypeInv /\ HitInv /\ CopyInv /\ ClaimInv /\ OwesInv
      /\ WriteInv /\ LateInv
  BY DEF BankInv, OrderInv
<1> DEFINE e == sab[s]
           f == sab'[s]
<1>1. e.l2c_req
  BY DEF L2Lookup, Granted
<1>2. /\ s \in Valid /\ Seeker(e) /\ Acting(e) /\ ~Looked(e) /\ Asks(e) /\ ToMeet(e)
  BY <1>1 DEF Valid, Seeker, Acting, Looked, Asks, ToMeet, Open
<1>3. l \in LINE /\ DataShape(e) /\ e.mid \in CORE
  BY <1>0, <1>2, UsedShape, Mids DEF DataShapes, Valid
<1>4. LooksUp(e, f) /\ UNCHANGED <<l1, vb>>
  BY <1>0, L2LookupFull DEF L2Lookup
<1>5. ~e.l1_pd /\ ~f.l1_dt /\ f.wns_pend = e.wns_pend
  BY <1>0, <1>2, <1>3, <1>4 DEF HitInv, PdHit, DataShape, LooksUp
<1>6. Hit(l) # {} /\ f.new = l2[HitWay(l)].new
  BY <1>4, <1>5 DEF LooksUp
<1>7. CASE DHeld(l)
  <2>1. PICK c \in CORE : DirtyAt(c, l)
    BY <1>7 DEF DHeld
  <2>2. DirtyAt(c, l)'
    BY <1>4, <2>1 DEF DirtyAt, Owing
  <2>3. Known(c, l)
    BY <1>0, <1>3, <2>1, DirtyKnown
  <2>4. c \in Holds(f) \/ (c = e.mid /\ ~inst(e))
    BY <1>0, <1>2, <2>3, LookedUp
  <2>5. ~(c = e.mid /\ ~inst(e))
    <3> SUFFICES ASSUME c = e.mid, ~inst(e)
                 PROVE  FALSE
      OBVIOUS
    <3>1. req[c].kind = e.kind /\ req[c].line = l
      BY <1>0 DEF ClaimInv, Answering
    <3>2. e.kind \in OwnKind
      BY DEF OwnKind, inst, Open
    <3> QED
      BY <1>0, <2>1, <3>1, <3>2 DEF OwesInv, OwnClean
  <2> QED
    BY <2>2, <2>4, <2>5
<1>8. CASE BorneNew(l)
  <2>1. PICK t \in SID : Carrier(sab[t]) /\ sab[t].line = l
    BY <1>8 DEF BorneNew
  <2>2. wns(sab[t])
    <3> SUFFICES ASSUME ~wns(sab[t])
                 PROVE  FALSE
      OBVIOUS
    <3>1. Seeker(sab[t]) /\ Acting(sab[t]) /\ Looked(sab[t])
      BY <1>0, <2>1, CarrierShape
    <3>2. t = s
      BY <1>0, <1>2, <2>1, <3>1, OneSeeker
    <3> QED
      BY <1>2, <3>1, <3>2
  <2>3. AWrite(sab[t]) /\ sab[t].mid \in CORE
    BY <1>0, <2>2, WnsNames
  <2>4. t \in e.depd /\ ~Looked(sab[t])
    BY <1>0, <1>2, <2>3 DEF WriteInv, WritesMet
  <2>5. e.wns_pend
    BY <1>2, <1>3, <2>4 DEF DataShape
  <2>6. Known(sab[t].mid, l)
    <3>1. ASSUME NEW u \in SID, TakesAway(u, l)
          PROVE  FALSE
      <4>1. Seeker(sab[u]) /\ Acting(sab[u]) /\ Looked(sab[u]) /\ sab[u].line = l
        BY <3>1 DEF TakesAway, Cleans, Looked
      <4>2. u = s
        BY <1>0, <1>2, <4>1, OneSeeker
      <4> QED
        BY <1>2, <4>1, <4>2
    <3> QED
      BY <1>0, <2>1, <2>2, <2>4, <3>1 DEF LateInv, WnsKnown
  <2>7. sab[t].mid \in Holds(f) \/ (sab[t].mid = e.mid /\ ~inst(e))
    BY <1>0, <1>2, <2>3, <2>6, LookedUp
  <2>8. ~(sab[t].mid = e.mid /\ ~inst(e))
    <3>1. ~inst(e) => e.kind \in OwnKind
      BY DEF OwnKind, inst, Open
    <3> QED
      BY <1>0, <1>2, <2>1, <2>2, <3>1 DEF LateInv, OwnWrite
  <2> QED
    BY <1>5, <2>5, <2>7, <2>8
<1>9. CASE Below(l)
  <2>1. HitWay(l) \in Hit(l)
    BY <1>6 DEF HitWay
  <2> QED
    BY <1>6, <1>9, <2>1 DEF Below
<1> QED
  BY <1>3, <1>7, <1>8, <1>9 DEF Latest

\* What a read takes from the memory, or from the L2 when a write-back overtook
\* its snoops, is the latest store.
LEMMA ReadBelow ==
  ASSUME BankInv, DataShapes, Latest, RoClear, NEW s \in SID, Open(sab[s]), rd(sab[s]),
         \/ MemRead(s)
         \/ L2Lookup(s) /\ sab[s].st = "L2CR"
  PROVE  sab'[s].new \/ (sab[s].kind = "ro" /\ req[sab[s].mid].stored)
<1>0. OrderInv /\ TurnInv /\ TypeInv /\ HitInv
  BY DEF BankInv, OrderInv
<1> DEFINE e == sab[s]
           f == sab'[s]
           l == e.line
<1>1. /\ e.st \in {"L2CR", "MEMR"}
      /\ s \in Valid /\ Looked(e) /\ Acting(e) /\ Unwritten(e) /\ Seeker(e) /\ ~Down(e)
  BY DEF MemRead, Valid, Looked, Acting, Unwritten, Seeker, ReadKind, Down, Open
<1>2. StateShape(e) /\ DataShape(e) /\ l \in LINE
  BY <1>0, <1>1, UsedShape DEF DataShapes, Valid
<1>3. Holds(e) = {} /\ ~e.l1_pd
  BY <1>1, <1>2 DEF Holds, StateShape, DataShape
<1>4. Below(l) \/ (e.kind = "ro" /\ req[e.mid].stored)
  <2>1. CASE e.kind = "ro"
    BY <1>1, <2>1, RoBelow
  <2>2. CASE e.kind # "ro"
    <3>1. Settled(e) /\ Pending(e)
      BY <1>1, <1>3, <2>2 DEF Settled, Cleans, Pending
    <3> QED
      BY <1>3, <3>1, SettledBelow
  <2> QED
    BY <2>1, <2>2
<1>5. CASE MemRead(s) /\ Below(l)
  <2>1. e.st = "MEMR"
    BY <1>5 DEF MemRead
  <2>2. ~e.l2_hit /\ Hit(l) = {}
    BY <1>0, <1>1, <1>2, <2>1 DEF DataShape, HitInv, ReadHit
  <2>3. ~DownNew(l)
    BY <1>0, <1>1, NoneDown
  <2>4. mem[l]
    BY <1>5, <2>2, <2>3 DEF Below
  <2>5. f.new = mem[l]
    BY <1>0, <1>5, <2>2, MemReadFull
  <2> QED
    BY <2>4, <2>5
<1>6. CASE L2Lookup(s) /\ e.st = "L2CR" /\ Below(l)
  <2>1. Hit(l) # {}
    BY <1>0, <1>1, <1>6 DEF HitInv, SnoopsHit, ReadHit
  <2>2. LooksUp(e, f)
    BY <1>0, <1>6, L2LookupFull
  <2>3. f.new = l2[HitWay(l)].new
    BY <1>3, <1>6, <2>1, <2>2 DEF LooksUp
  <2>4. HitWay(l) \in Hit(l)
    BY <2>1 DEF HitWay
  <2> QED
    BY <1>6, <2>1, <2>3, <2>4 DEF Below
<1> QED
  BY <1>4, <1>5, <1>6

\* A store under a read makes its data old: the core that stores is still to be
\* snooped, or a ReadOnce is told.
LEMMA ReadStored ==
  ASSUME BankInv, [Next]_vars, NEW s \in SID, Open(sab[s]), sab[s].kind # "ro", rd(sab[s]),
         Looked(sab[s]), NEW l, l = sab[s].line, Stored(l)
  PROVE  \E c \in Holds(sab'[s]) : DirtyAt(c, l)'
<1>0. /\ OrderInv /\ TurnInv /\ TypeInv /\ ClaimInv /\ OwesInv
  BY DEF BankInv, OrderInv
<1>1. Cleans(sab[s]) /\ Pending(sab[s]) /\ l \in LINE
  BY <1>0, Mids DEF Cleans, Seeker, Pending, Open
<1>2. /\ SameButNew(sab[s], sab'[s])
      /\ \E c \in CORE : Store(c, l) /\ l1'[c][l].st = "M"
  BY <1>0, <1>1, StoredOld
<1>3. PICK c \in CORE : Store(c, l) /\ l1'[c][l].st = "M"
  BY <1>2
<1>4. c \in Holds(sab[s])
  BY <1>0, <1>1, <1>3, StoreUnder
<1>5. c \in Holds(sab'[s])
  BY <1>2, <1>4 DEF SameButNew, SameSnoops, Holds
<1>6. DirtyAt(c, l)'
  BY <1>3 DEF DirtyAt
<1> QED
  BY <1>5, <1>6

\* A dirty copy that a read still has to snoop stays where it is, comes with the
\* answer, or overtakes the snoop as a write-back.
LEMMA ReadHolder ==
  ASSUME BankInv, DataShapes, CopiesNew, OwedNew, [Next]_vars, NEW s \in SID, OnFrom(s),
         Open(sab[s]), rd(sab[s]), Looked(sab[s]), NEW l, l = sab[s].line,
         NEW c \in Holds(sab[s]), DirtyAt(c, l), ~Stored(l)
  PROVE  \/ sab'[s].new
         \/ \E d \in Holds(sab'[s]) : DirtyAt(d, l)'
         \/ /\ sab'[s].wns_pend /\ sab'[s].l1_dt = sab[s].l1_dt
            /\ Holds(sab'[s]) # {} /\ sab'[s].st \in {"SNOP", "L2C"}
<1>0. /\ OrderInv /\ TurnInv /\ TypeInv /\ ClaimInv /\ HitInv
  BY DEF BankInv, OrderInv
<1> DEFINE e == sab[s]
           f == sab'[s]
<1>1. /\ s \in Valid /\ Lives(s) /\ SameName(e, f) /\ StateShape(e) /\ e \in EntryType
      /\ l \in LINE /\ Seeker(e) /\ Acting(e) /\ e.kind \notin WriteKind
  BY DEF OnFrom, Seeker, Open, Looked, ReadKind, WriteKind
<1>2. c \in CORE
  BY <1>1 DEF Holds, EntryType
<1>3. CASE TakesDirty(s)
  BY <1>0, <1>3, TakesNew
<1>4. CASE SnpResp(s, c)
  BY <1>0, <1>2, <1>3, <1>4, SnoopedGives
<1>5. CASE DirtyAt(c, l)' /\ ~SnpResp(s, c)
  <2>1. c \in Holds(f)
    BY <1>1, <1>5 DEF Lives, GoesSnoops
  <2> QED
    BY <1>5, <2>1
<1>6. CASE CreateWrite(c)
  <2>1. back_mark(e)
    BY <1>1 DEF back_mark, Holds, StateShape
  <2>2. PICK n \in SID : n \notin Valid /\ \A t \in SID \ {n} : MarkedBack(sab[t], sab'[t], n)
    BY <1>0, <1>2, <1>6, CreateWriteFull
  <2>3. MarkedBack(e, f, n)
    BY <1>1, <2>2
  <2>4. f.wns_pend /\ f.l1_dt = e.l1_dt /\ Holds(f) = Holds(e) /\ f.st = e.st
    BY <2>1, <2>3 DEF MarkedBack, Holds, SameAccess
  <2>5. e.st \in {"SNOP", "L2C"}
    BY <1>1 DEF Holds, StateShape
  <2> QED
    BY <2>4, <2>5
<1>7. ASSUME NEW t \in SID, SnpResp(t, c), sab[t].line = l, Dirty(c, l)
      PROVE  sab'[s].new
  <2>1. sab[t].st = "SNOP" /\ sab[t].kind \in Kind \ {"none"} /\ StateShape(sab[t])
    BY <1>0, <1>7, UsedShape DEF SnpResp
  <2>2. Seeker(sab[t]) /\ Acting(sab[t])
    <3>1. sab[t].kind \notin WriteKind
      BY <2>1 DEF StateShape
    <3> QED
      BY <2>1, <3>1 DEF Seeker, Acting, Kind
  <2>3. t = s
    BY <1>0, <1>1, <1>7, <2>2, OneSeeker
  <2> QED
    BY <1>0, <1>2, <1>3, <1>7, <2>3, TakesNew DEF TakesDirty
<1> QED
  BY <1>0, <1>1, <1>2, <1>4, <1>5, <1>6, <1>7, ValueSide DEF ValueFrom, DirtyGoes

\* A read that knew where its data would come from still does.
LEMMA ReadGoesOn ==
  ASSUME BankInv, DataShapes, CopiesNew, OwedNew, DirtyNew, ReadNew, [Next]_vars,
         NEW s \in SID, OnFrom(s), Open(sab'[s]), Open(sab[s]), rd(sab[s]), Looked(sab[s]),
         GotData(sab[s]), GotData(sab'[s]), ~MemRead(s),
         ~(L2Lookup(s) /\ sab[s].st = "L2CR"),
         NEW l, l = sab[s].line, NEW m, m = sab[s].mid
  PROVE  \/ sab'[s].new
         \/ sab[s].kind = "ro" /\ req'[m].stored
         \/ \E c \in Holds(sab'[s]) : DirtyAt(c, l)'
         \/ /\ sab'[s].wns_pend /\ ~sab'[s].l1_dt
            /\ sab'[s].st = "SNOP" \/ (sab'[s].st = "L2C" /\ Holds(sab'[s]) # {})
<1>0. /\ OrderInv /\ TurnInv /\ TypeInv /\ ClaimInv /\ HitInv
  BY DEF BankInv, OrderInv
<1> DEFINE e == sab[s]
           f == sab'[s]
<1>1. /\ s \in Valid /\ Lives(s) /\ Draws(s) /\ Stays(s) /\ SameName(e, f)
      /\ StateShape(e) /\ DataShape(e) /\ l \in LINE /\ ~wns(e) /\ ~cml2(e) /\ ~snpl2(e)
  BY DEF OnFrom, rd, rs, wns, cml2, snpl2
<1>2. m \in CORE
  BY <1>0, Mids
<1>3. (req[m].stored \/ Stored(l)) => req'[m].stored
  <2>1. f.kind \in ReadKind => f.resp # "sent"
    BY DEF Open
  <2> QED
    BY <1>0, <1>1, <1>2, <2>1, OpenStored DEF SameName
<1>4. CASE Stored(l)
  <2>1. CASE e.kind = "ro"
    BY <1>3, <1>4, <2>1
  <2>2. CASE e.kind # "ro"
    BY <1>4, <2>2, ReadStored
  <2> QED
    BY <2>1, <2>2
<1>5. CASE TakesDirty(s)
  BY <1>0, <1>5, TakesNew
<1>6. CASE ~Stored(l) /\ ~TakesDirty(s)
  <2>1. f.new = e.new
    <3>1. ~WriteData(s)
      BY <1>1 DEF WriteData
    <3>2. ~(L2Lookup(s) /\ e.st = "L2C")
      BY DEF L2Lookup, Granted, Looked
    <3> QED
      BY <1>1, <1>6, <3>1, <3>2 DEF Draws, DrawsNew
  <2>2. f.l1_dt => e.l1_dt
    BY <1>1, <1>6 DEF Draws, DrawsDirty
  <2>3. e.l1_dt => e.new \/ (e.kind = "ro" /\ req[m].stored)
    BY DEF DirtyNew, Pending
  <2>4. CASE e.new
    BY <2>1, <2>4
  <2>5. CASE e.kind = "ro" /\ req[m].stored
    BY <1>3, <2>5
  <2>6. ASSUME NEW c \in Holds(e), DirtyAt(c, l), ~e.l1_dt
        PROVE  \/ f.new
               \/ \E d \in Holds(f) : DirtyAt(d, l)'
               \/ /\ f.wns_pend /\ ~f.l1_dt
                  /\ f.st = "SNOP" \/ (f.st = "L2C" /\ Holds(f) # {})
    BY <1>6, <2>2, <2>6, ReadHolder
  <2>7. ASSUME e.wns_pend, ~e.l1_dt, e.st = "SNOP" \/ (e.st = "L2C" /\ Holds(e) # {})
        PROVE  /\ f.wns_pend /\ ~f.l1_dt
               /\ f.st = "SNOP" \/ (f.st = "L2C" /\ Holds(f) # {})
    <3>1. f.wns_pend /\ ~f.l1_dt
      BY <1>1, <2>2, <2>7 DEF Draws, DrawsDirty
    <3>2. CASE e.st = "SNOP"
      <4>1. reply(e)
        BY <2>7 DEF reply
      <4>2. f.st \in {"SNOP", "L2CR"}
        BY <1>1, <3>2, <4>1 DEF Draws, DrawsStage
      <4>3. f.st # "L2CR"
        BY <1>1, <3>2 DEF Stays, StaysGot, GotData
      <4> QED
        BY <3>1, <4>2, <4>3
    <3>3. CASE e.st = "L2C" /\ Holds(e) # {}
      <4>1. f.st = "SNOP" \/ Holds(f) # {}
        BY <1>1, <3>3 DEF Lives, GoesSnoops
      <4>2. TurnInv'
        BY <1>0, StepTurn
      <4>3. Holds(f) # {} => f.st \in {"L2C", "SNOP"}
        BY <4>2 DEF TurnInv, StateShapes, StateShape, Holds
      <4> QED
        BY <3>1, <4>1, <4>3
    <3> QED
      BY <2>7, <3>2, <3>3
  <2>8. \/ e.new
        \/ e.kind = "ro" /\ req[m].stored
        \/ \E c \in Holds(e) : DirtyAt(c, l)
        \/ e.wns_pend /\ ~e.l1_dt /\ (e.st = "SNOP" \/ (e.st = "L2C" /\ Holds(e) # {}))
    BY DEF ReadNew
  <2> QED
    BY <2>3, <2>4, <2>5, <2>6, <2>7, <2>8
<1> QED
  BY <1>4, <1>5, <1>6

LEMMA ReadNewStep ==
  ASSUME BankInv, DataShapes, CopiesNew, OwedNew, DirtyNew, Latest, RoClear, ReadNew,
         [Next]_vars
  PROVE  ReadNew'
<1>0. /\ OrderInv /\ TurnInv /\ TypeInv /\ HitInv
  BY DEF BankInv, OrderInv
<1> SUFFICES ASSUME NEW s \in SID, Open(sab'[s]), rd(sab'[s]), Looked(sab'[s]),
                    GotData(sab'[s]), NEW l, l = sab'[s].line, NEW m, m = sab'[s].mid
             PROVE  \/ sab'[s].new
                    \/ sab'[s].kind = "ro" /\ req'[m].stored
                    \/ \E c \in Holds(sab'[s]) : DirtyAt(c, l)'
                    \/ /\ sab'[s].wns_pend /\ ~sab'[s].l1_dt
                       /\ \/ sab'[s].st = "SNOP"
                          \/ sab'[s].st = "L2C" /\ Holds(sab'[s]) # {}
  BY DEF ReadNew
<1> DEFINE e == sab[s]
           f == sab'[s]
<1>1. OnFrom(s)
  <2>1. f.kind # "none" /\ f.kind \notin WriteKind
    BY DEF Open, ReadKind, WriteKind
  <2>2. ~Born(s)
    BY <2>1 DEF Born, BornWrite, BornSeeker
  <2> QED
    BY <2>1, <2>2, EntryOn
<1>2. /\ Lives(s) /\ Stays(s) /\ Open(e) /\ rd(e) /\ e.line = l /\ e.mid = m
      /\ f.kind = e.kind
  BY <1>1 DEF OnFrom, SameName, rd, rs
<1>3. CASE ~Looked(e)
  <2>1. L2Lookup(s) /\ e.st = "L2C"
    BY <1>2, <1>3 DEF Lives, GoesNext
  <2>2. f.st = "L2C"
    BY <1>0, <2>1, L2LookupFull DEF LooksUp
  <2>3. f.l2_hit
    BY <2>2 DEF GotData
  <2> QED
    BY <1>2, <2>1, <2>2, <2>3, ReadLooksUp
<1>4. CASE Looked(e) /\ (MemRead(s) \/ (L2Lookup(s) /\ e.st = "L2CR"))
  <2>1. req' = req
    BY <1>4 DEF MemRead, L2Lookup
  <2> QED
    BY <1>2, <1>4, <2>1, ReadBelow
<1>5. CASE Looked(e) /\ ~MemRead(s) /\ ~(L2Lookup(s) /\ e.st = "L2CR")
  <2>1. GotData(e)
    BY <1>2, <1>5 DEF Stays, StaysGot
  <2> QED
    BY <1>1, <1>2, <1>5, <2>1, ReadGoesOn
<1> QED
  BY <1>3, <1>4, <1>5

(***************************************************************************)
(* The data: together with the invariant of the bank these facts are kept  *)
(* by every step.                                                          *)
(***************************************************************************)
DataInv == /\ DataShapes /\ OneHolder /\ DirtySwept
           /\ CopiesNew /\ OwedNew /\ DirtyNew /\ ReadNew
           /\ ValOrder /\ LateOver /\ Latest
           /\ CleanNew /\ RefillMem /\ DownVal /\ RoClear
           /\ CmoMem /\ CmoGone

LEMMA InitData == Init => DataInv
<1> SUFFICES ASSUME Init PROVE DataInv
  OBVIOUS
<1>1. \A s \in SID : sab[s] = IdleEntry
  BY DEF Init
<1>2. \A s \in SID :
        /\ sab[s].st = "IDLE" /\ sab[s].kind = "none" /\ ~sab[s].l1_pd
        /\ ~sab[s].l1_dt /\ sab[s].cp = {} /\ sab[s].snp = {}
  BY <1>1 DEF IdleEntry
<1>3. \A s \in SID :
        /\ ~wns(sab[s]) /\ ~Seeker(sab[s]) /\ ~Open(sab[s]) /\ ~Pending(sab[s])
        /\ ~Carrier(sab[s]) /\ ~Down(sab[s]) /\ ~HasWay(sab[s])
  BY <1>2 DEF wns, Seeker, Open, Pending, Carrier, Down, HasWay, ReadKind, snpl2,
              rd_alct, rs
<1>4. \A w \in WAY : ~l2[w].vld
  BY DEF Init, InvalidWay
<1>5. \A c \in CORE, l \in LINE : l1[c][l].st = "I" /\ mem[l]
  BY DEF Init
<1>6. \A c \in CORE : vb[c].st = "none"
  BY DEF Init, NoVB
<1>7. DataShapes /\ DirtySwept
  BY <1>2, <1>3 DEF DataShapes, Valid, DirtySwept
<1>8. OneHolder /\ CopiesNew /\ OwedNew
  BY <1>3, <1>5, <1>6 DEF OneHolder, MayDirty, Unique, Owing, CopiesNew, OwedNew
<1>9. DirtyNew /\ ReadNew /\ ValOrder /\ LateOver
  BY <1>3 DEF DirtyNew, ReadNew, ValOrder, LateOver
<1>10. Latest
  <2>1. \A l \in LINE : mem[l]
    BY DEF Init
  <2> QED
    BY <1>3, <1>4, <2>1 DEF Latest, Below, Borne, Hit
<1>11. CleanNew /\ RefillMem /\ DownVal /\ RoClear
  BY <1>3, <1>4 DEF CleanNew, RefillMem, DownVal, RoClear
<1>12. CmoMem /\ CmoGone
  BY <1>3 DEF CmoMem, CmoGone
<1> QED
  BY <1>7, <1>8, <1>9, <1>10, <1>11, <1>12 DEF DataInv

LEMMA StepData == BankInv /\ DataInv /\ [Next]_vars => DataInv'
<1> SUFFICES ASSUME BankInv, DataInv, [Next]_vars PROVE DataInv'
  OBVIOUS
<1>1. DataShapes'
  BY DataShapesStep DEF BankInv, DataInv
<1>2. OneHolder' /\ DirtySwept'
  BY OneHolderStep, DirtySweptStep DEF DataInv
<1>3. CopiesNew' /\ OwedNew' /\ DirtyNew' /\ ReadNew'
  BY CopiesNewStep, OwedNewStep, DirtyNewStep, ReadNewStep DEF DataInv
<1>4. ValOrder' /\ LateOver' /\ Latest'
  BY ValOrderStep, LateOverStep, LatestStep DEF DataInv
<1>5. CleanNew' /\ RefillMem' /\ DownVal' /\ RoClear'
  BY CleanNewStep, RefillMemStep, DownValStep, RoClearStep DEF DataInv
<1>6. CmoMem' /\ CmoGone'
  BY CmoMemStep, CmoGoneStep DEF DataInv
<1> QED
  BY <1>1, <1>2, <1>3, <1>4, <1>5, <1>6 DEF DataInv

\* The invariants of the bank and of its data hold in every behaviour.
THEOREM DataInvariant == Spec => [](BankInv /\ DataInv)
<1>1. Init => DataInv
  BY InitData
<1>2. BankInv /\ DataInv /\ [Next]_vars => DataInv'
  BY StepData
<1> QED
  BY <1>1, <1>2, BankInvariant, PTL DEF Spec

\* What the invariants say of the copies, of the latest store and of the CMOs.
LEMMA CopiesAreNew ==
  ASSUME BankInv, DataInv
  PROVE  DataValue
<1>1. \A c \in CORE, l \in LINE : l1[c][l].st # "I" => l1[c][l].new
  BY DEF DataInv, CopiesNew
<1>2. ASSUME NEW s \in SID, rd(sab[s]), sab[s].resp = "rdy", ~req[sab[s].mid].stored
      PROVE  sab[s].new
  BY <1>2, ReadyNew DEF BankInv, DataInv
<1> QED
  BY <1>1, <1>2 DEF DataValue

LEMMA StoreIsKept ==
  ASSUME BankInv, DataInv
  PROVE  NoLostStore
<1>0. TypeInv /\ TurnInv /\ ClaimInv
  BY DEF BankInv, OrderInv
<1> SUFFICES ASSUME NEW l \in LINE
             PROVE  \/ mem[l]
                    \/ \E c \in CORE : l1[c][l].st = "M" /\ l1[c][l].new
                    \/ \E c \in CORE : vb[c].line = l /\ vb[c].kind \in {"wb", "wc"} /\ vb[c].new
                    \/ \E w \in Hit(l) : l2[w].dirty /\ l2[w].new
                    \/ \E s \in SID : sab[s].line = l /\ Carries(sab[s])
  BY DEF NoLostStore
<1>1. CASE DHeld(l)
  <2>1. PICK c \in CORE : DirtyAt(c, l)
    BY <1>1 DEF DHeld
  <2>2. l1[c][l].st = "M" => l1[c][l].new
    BY DEF DataInv, CopiesNew
  <2>3. Owing(c, l) => vb[c].line = l /\ vb[c].kind \in {"wb", "wc"} /\ vb[c].new
    BY DEF DataInv, OwedNew, Owing
  <2> QED
    BY <2>1, <2>2, <2>3 DEF DirtyAt
<1>2. CASE BorneNew(l)
  <2>1. PICK s \in SID : Carrier(sab[s]) /\ sab[s].line = l /\ Val(sab[s])
    BY <1>2 DEF BorneNew
  <2>2. sab[s].st # "POP"
    BY <2>1 DEF Carrier, Unwritten
  <2>3. CASE wns(sab[s]) /\ ~sab[s].wt
    <3>1. sab[s].mid \in CORE /\ sab[s].kind \in {"wb", "wc"}
      BY <1>0, <2>3, WnsNames DEF wns
    <3>2. StateShape(sab[s])
      BY <1>0 DEF TurnInv, StateShapes
    <3>3. WriteOpen(sab[s])
      BY <2>3, <3>1, <3>2 DEF WriteOpen, StateShape, WriteKind
    <3>4. vb[sab[s].mid].kind = sab[s].kind /\ vb[sab[s].mid].line = l
      BY <1>0, <2>1, <3>3 DEF ClaimInv, Victims
    <3>5. vb[sab[s].mid].new
      BY <2>3 DEF DataInv, OwedNew
    <3> QED
      BY <3>1, <3>4, <3>5
  <2>4. CASE ~(wns(sab[s]) /\ ~sab[s].wt)
    <3>1. Carries(sab[s])
      BY <2>1, <2>2, <2>4 DEF Carries, Carrier, Val
    <3> QED
      BY <2>1, <3>1
  <2> QED
    BY <2>3, <2>4
<1>3. CASE DownNew(l)
  <2>1. PICK s \in SID : sab[s].line = l /\ Down(sab[s]) /\ sab[s].new
    BY <1>3 DEF DownNew
  <2>2. Carries(sab[s])
    BY <2>1 DEF Carries, Down
  <2> QED
    BY <2>1, <2>2
<1>4. CASE Below(l) /\ Hit(l) = {}
  BY <1>3, <1>4 DEF Below
<1>5. CASE Below(l) /\ Hit(l) # {}
  <2>1. PICK w \in Hit(l) : l2[w].new
    BY <1>5 DEF Below
  <2>2. ~l2[w].dirty => mem[l] \/ DownNew(l)
    BY <2>1 DEF Hit, DataInv, CleanNew
  <2> QED
    BY <1>3, <2>1, <2>2
<1> QED
  BY <1>1, <1>2, <1>4, <1>5 DEF DataInv, Latest

LEMMA CmoIsDone ==
  ASSUME BankInv, DataInv
  PROVE  CmoDone
<1>0. TypeInv /\ TurnInv /\ ClaimInv /\ CopyInv
  BY DEF BankInv, OrderInv
<1> SUFFICES ASSUME NEW s \in SID, cml2(sab[s]), sab[s].resp = "rdy"
             PROVE  /\ ~req[sab[s].mid].stored => mem[sab[s].line]
                    /\ sab[s].kind = "ci" =>
                         /\ Hit(sab[s].line) = {}
                         /\ \A c \in CORE : l1[c][sab[s].line].st = "I"
  BY DEF CmoDone
<1> DEFINE e == sab[s]
<1>1. StateShape(e)
  BY <1>0 DEF TurnInv, StateShapes
<1>2. e.st = "POP" /\ Open(e)
  BY <1>1 DEF StateShape, Open, cml2, ReadKind
<1>3. Acting(e) /\ Looked(e) /\ ~Unwritten(e) /\ ~Down(e) /\ Holds(e) = {}
  BY <1>1, <1>2 DEF Acting, Looked, Unwritten, Down, Holds, StateShape
<1>4. mem[e.line]
  BY <1>2, <1>3 DEF DataInv, CmoMem
<1>5. ASSUME e.kind = "ci"
      PROVE  Hit(e.line) = {}
  BY <1>2, <1>3, <1>5 DEF DataInv, CmoGone
<1>6. ASSUME e.kind = "ci", NEW c \in CORE
      PROVE  l1[c][e.line].st = "I"
  <2>1. CASE c = e.mid
    BY <1>0, <1>2, <1>6, <2>1 DEF ClaimInv, Answering, Asking, FillKind
  <2>2. CASE c # e.mid
    <3>1. Seeks(e) /\ ~MayStay(e, c)
      BY <1>3, <1>6 DEF Seeks, Taker, MayStay
    <3> QED
      BY <1>0, <1>3, <2>2, <3>1 DEF CopyInv, Found
  <2> QED
    BY <2>1, <2>2
<1> QED
  BY <1>4, <1>5, <1>6

\* No core reads an old value: every copy in an L1 holds the latest store to its
\* line, and so does the data an entry answers a read with, unless the line was
\* stored to while the read was on its way.
THEOREM CoresReadTheLatest == Spec => []DataValue
<1>1. BankInv /\ DataInv => DataValue
  BY CopiesAreNew
<1> QED
  BY <1>1, DataInvariant, PTL

\* The latest store to a line is never lost, whatever takes the line: a snoop, a
\* write-back, a replacement in the L2 or a cache maintenance request.
THEOREM StoresAreNotLost == Spec => []NoLostStore
<1>1. BankInv /\ DataInv => NoLostStore
  BY StoreIsKept
<1> QED
  BY <1>1, DataInvariant, PTL

\* A cache maintenance request to the memory is answered when what was stored
\* before it is in memory, and an invalidation when no cache has the line.
THEOREM MaintenanceIsDone == Spec => []CmoDone
<1>1. BankInv /\ DataInv => CmoDone
  BY CmoIsDone
<1> QED
  BY <1>1, DataInvariant, PTL
=============================================================================
