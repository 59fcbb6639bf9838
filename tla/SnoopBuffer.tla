---------------------------- MODULE SnoopBuffer ----------------------------
(***************************************************************************)
(* Coherence of one snoop buffer bank (SNB): the entries of the snoop      *)
(* address buffer (SAB), the L2 set they work on with its snoop filter (the *)
(* CP bits), and the L1 caches and victim buffers (VB) of the cores that   *)
(* the entries serve and snoop.                                            *)
(*                                                                         *)
(* One step is one transition of one entry, one access to the L2, one      *)
(* message or one action of a core; the L2 pipeline and the channels are    *)
(* in order, so an access takes effect where it is granted.                *)
(*                                                                         *)
(* The lines of LINE share one index addr[13:7]: these are the lines the   *)
(* SAB orders against each other; they also share an L2 set and a bank.    *)
(* Lines of other indexes never meet them in the SAB.                      *)
(*                                                                         *)
(* A copy of a line is abstracted to one bit, "new": whether it holds the  *)
(* most recent store to the line.                                          *)
(*                                                                         *)
(* Left out: the shared status of L2 lines, which nothing sets because the *)
(* memory is plain AXI (rresp[3:2] is tied to 0 in ct_ebiu_read_channel)   *)
(* and there is no external snooper; the ECC error paths; non-shareable,   *)
(* partial and barrier requests; L2 prefetches.                            *)
(*                                                                         *)
(* A definition with a double underscore in its name is a faulty variant of *)
(* the definition after it: a mistake that a property has to notice.       *)
(***************************************************************************)
EXTENDS Naturals, FiniteSets

CONSTANTS
  CORE,      \* the cores, one per PIU
  LINE,      \* the cache lines with one SAB index
  NONE,      \* no core, no line
  READS,     \* the request kinds the cores issue on AR
  RDEPTH,    \* read entries of the SAB (16 in the code)
  RESERVED,  \* those of them only snoops of the L2 may take (2 in the code)
  WDEPTH,    \* write entries of the SAB (8 in the code)
  WAYS       \* ways of the L2 set (16 in the code)

\* ReadShared, ReadUnique, CleanUnique, the instruction fetches ReadShared
\* ("irs") and ReadOnce ("ro"), and the cache maintenance requests
\* CleanInvalid and CleanShared to the L1 or to the memory.
ReadKind  == {"rs", "ru", "cu", "irs", "ro", "ci", "csl1", "csl2"}
\* WriteBack, WriteClean and Evict: in the code wb, wc and evict.
WriteKind == {"wb", "wc", "evict"}
Kind == ReadKind \cup WriteKind \cup {"snpl2", "none"}

ASSUME SizeAssumption ==
  /\ RESERVED \in Nat /\ RDEPTH \in Nat /\ RDEPTH > RESERVED
  /\ WDEPTH \in Nat \ {0} /\ WAYS \in Nat \ {0}
  /\ READS \subseteq ReadKind
  /\ NONE \notin CORE /\ NONE \notin LINE

VARIABLES
  sab,     \* the SAB entries
  l2,      \* the ways of the L2 set
  rplc,    \* the L2 replacement pointer (the fifo bits of the set)
  mem,     \* mem[l]: whether memory, behind the CIU victim buffer, is new
  l1,      \* l1[c][l]: state and data of the line in core c's L1
  vb,      \* vb[c]: core c's victim buffer entry for this index
  req      \* req[c]: the read request core c has outstanding, and whether its
           \* line has been stored to since

vars == <<sab, l2, rplc, mem, l1, vb, req>>

RSID == 0 .. RDEPTH - 1
WSID == RDEPTH .. RDEPTH + WDEPTH - 1
SID  == RSID \cup WSID
WAY  == 0 .. WAYS - 1

MainState == {"IDLE", "DEPD", "L2C", "SNOP", "L2CR", "L2CA", "MEMR", "L2CT",
              "L2CW", "MEMW", "POP"}

\* An entry: main FSM state, request, the entries it waits for (depd_val) and
\* the older ones (agevec), the L2 request FSM, the latched L2 response, the
\* cores to snoop or snooped, the collected CR bits, the memory FSM, the
\* response to the core and its acknowledge.
IdleEntry ==
  [st |-> "IDLE", kind |-> "none", line |-> NONE, mid |-> NONE,
   depd |-> {}, older |-> {}, wns_pend |-> FALSE, snpl2_done |-> FALSE,
   ini |-> 0, l2c_req |-> FALSE, l2_hit |-> FALSE, l2_pd |-> FALSE,
   cp |-> {}, snp |-> {}, l1_dt |-> FALSE, l1_pd |-> FALSE, l1_sh |-> FALSE,
   new |-> FALSE, wt |-> FALSE, memr |-> "idle", resp |-> "no",
   ack |-> FALSE]

InvalidWay == [vld |-> FALSE, tag |-> NONE, dirty |-> FALSE, pend |-> FALSE,
               cp |-> {}, new |-> FALSE]

NoVB  == [st |-> "none", kind |-> "none", line |-> NONE, new |-> FALSE]
NoReq == [kind |-> "none", line |-> NONE, sent |-> FALSE, stored |-> FALSE]

Init ==
  /\ sab = [s \in SID |-> IdleEntry]
  /\ l2 = [w \in WAY |-> InvalidWay]
  /\ rplc = 0
  /\ mem = [l \in LINE |-> TRUE]
  /\ l1 = [c \in CORE |-> [l \in LINE |-> [st |-> "I", new |-> FALSE]]]
  /\ vb = [c \in CORE |-> NoVB]
  /\ req = [c \in CORE |-> NoReq]

-----------------------------------------------------------------------------
(***************************************************************************)
(* Decoded fields of an entry.                                             *)
(***************************************************************************)

wns(e)   == e.kind \in {"wb", "wc"}
evict(e) == e.kind = "evict"
inst(e)  == e.kind \in {"irs", "ro"}
rs(e)    == e.kind \in {"rs", "irs"}
rd(e)    == rs(e) \/ e.kind \in {"ro", "ru"}
rd_alct(e) == rs(e) \/ e.kind = "ru"
cml2(e)  == e.kind \in {"csl2", "ci"}
snpl2(e) == e.kind = "snpl2"

Valid == {s \in SID : sab[s].st # "IDLE"}

\* Same-index writes, which every request waits for (sab_wns_x).
WnsEntries == {s \in Valid : wns(sab[s]) \/ evict(sab[s])}

\* What a new write and a snoop of the L2 wait for.
WriteDepd == WnsEntries
SnpL2Depd__all == Valid
SnpL2Depd == WnsEntries

\* A read that found no dirty copy because a write-back overtook its snoop
\* must read the L2 again.
reply__not_for_ru(e) == e.wns_pend /\ rs(e) /\ ~e.l1_dt
reply(e) == e.wns_pend /\ rd(e) /\ ~e.l1_dt

\* Entries that a write created now still gets ahead of.
back_mark__not_snooping(e) ==
  e.kind \notin WriteKind /\ e.st \in {"DEPD", "L2C"}
back_mark(e) ==
  /\ e.kind \notin WriteKind
  /\ e.st \in {"DEPD", "L2C"} \/ (e.st = "SNOP" /\ e.snp # {})

\* The R response is raised when the data is final; a CMO to memory answers
\* only when it is done.
rresp_rdy__cmo_early(e, to) ==
  \/ to = "L2CW" /\ (rd(e) \/ cml2(e) \/ e.kind \in {"cu", "csl1"})
  \/ to = "POP" /\ e.kind = "csl1" /\ e.st # "L2CW"
rresp_rdy(e, to) ==
  \/ to = "L2CW" /\ (rd(e) \/ e.kind \in {"cu", "csl1"})
  \/ to = "POP" /\ cml2(e)
  \/ to = "POP" /\ e.kind = "csl1" /\ e.st # "L2CW"

\* Entering main state "to", with the requests and responses it raises.
Goto(e, to) ==
  [e EXCEPT
     !.st = to,
     !.l2c_req = \/ to \in {"L2C", "L2CR", "L2CA", "L2CT"}
                 \/ to = "L2CW" /\ e.kind # "ro",
     !.memr = IF to = "MEMR" THEN "req" ELSE @,
     !.snpl2_done = @ /\ to # "L2CA",
     !.snp = IF to = "SNOP" THEN e.cp ELSE @,
     !.cp = {},
     !.resp = IF rresp_rdy(e, to) THEN "rdy" ELSE @]

\* A new entry: it waits in DEPD for its dependencies or its write data.
NewEntry(kind, line, mid, depd, ini) ==
  LET e == [IdleEntry EXCEPT
              !.kind = kind, !.line = line, !.mid = mid, !.depd = depd,
              !.older = Valid, !.ini = ini, !.snpl2_done = TRUE,
              !.resp = IF kind = "evict" THEN "rdy" ELSE "no"]
  IN  Goto(e, IF depd # {} \/ kind \in WriteKind THEN "DEPD" ELSE "L2C")

\* The free entry of S that is taken: the lowest.
FreeEntries(S) == S \ Valid
Lowest(S) == CHOOSE s \in S : \A t \in S : s <= t

\* Reads of the cores leave some read entries to the snoops of the L2.
PiuSid__all == RSID
PiuSid == 0 .. RDEPTH - RESERVED - 1

-----------------------------------------------------------------------------
(***************************************************************************)
(* The cores.  A core keeps back a read while its victim buffer holds a     *)
(* line of the index, and the victim buffer holds one line of the index at  *)
(* a time.                                                                  *)
(***************************************************************************)

\* The state of a core's own copy under which it issues a request.
MayIssue(k, st) == CASE k \in {"rs", "ru", "ci"}  -> st = "I"
                     [] k = "cu"                  -> st = "S"
                     [] k \in {"csl1", "csl2"}    -> st # "M"
                     [] k \in {"irs", "ro"}       -> TRUE

IssueRead(c, k, l) ==
  /\ req[c].kind = "none"
  /\ vb[c].st = "none" \/ k \in {"irs", "ro"}
  /\ MayIssue(k, l1[c][l].st)
  /\ req' = [req EXCEPT ![c] = [kind |-> k, line |-> l,
                              sent |-> FALSE, stored |-> FALSE]]
  /\ UNCHANGED <<sab, l2, rplc, mem, l1, vb>>

\* A store hit.  It makes every other copy of the line old.
Store(c, l) ==
  /\ l1[c][l].st \in {"E", "M"}
  /\ vb[c].st = "none"
  /\ ~(req[c].line = l /\ req[c].kind \in {"ci", "csl1", "csl2"})
  /\ l1' = [d \in CORE |-> [l1[d] EXCEPT ![l] =
              IF d = c THEN [st |-> "M", new |-> TRUE]
              ELSE [@ EXCEPT !.new = FALSE]]]
  /\ vb' = [d \in CORE |-> [vb[d] EXCEPT !.new = @ /\ vb[d].line # l]]
  /\ sab' = [s \in SID |-> [sab[s] EXCEPT !.new = @ /\ sab[s].line # l]]
  /\ l2' = [w \in WAY |-> [l2[w] EXCEPT !.new = @ /\ l2[w].tag # l]]
  /\ mem' = [mem EXCEPT ![l] = FALSE]
  /\ req' = [d \in CORE |-> [req[d] EXCEPT !.stored = @ \/ req[d].line = l]]
  /\ UNCHANGED rplc

\* The line leaves the L1 for the victim buffer as "kind" (a replacement, or
\* a clean of the line by its own core: the copy stays, clean).
ToVictimBuffer(c, l, kind, copy) ==
  /\ vb[c].st = "none"
  /\ vb' = [vb EXCEPT ![c] = [st |-> "hold", kind |-> kind, line |-> l,
                              new |-> l1[c][l].new]]
  /\ l1' = [l1 EXCEPT ![c][l] = copy]
  /\ UNCHANGED <<sab, l2, rplc, mem, req>>

Invalid == [st |-> "I", new |-> FALSE]

Replace(c, l) ==
  /\ ~(req[c].line = l /\ req[c].kind \in {"ci", "csl1", "csl2"})
  /\ \/ /\ l1[c][l].st = "M"
        /\ ToVictimBuffer(c, l, "wb", Invalid)
     \/ /\ l1[c][l].st \in {"E", "S"}
        /\ ToVictimBuffer(c, l, "evict", Invalid)

CleanOwn(c, l) ==
  /\ READS \cap {"csl1", "csl2"} # {}
  /\ l1[c][l].st = "M"
  /\ ToVictimBuffer(c, l, "wc", [l1[c][l] EXCEPT !.st = "E"])

\* A CMO that invalidates drops the clean copy of its own core.
CleanInvOwn(c, l) ==
  /\ "ci" \in READS
  /\ l1[c][l].st \in {"E", "S"}
  /\ vb[c].st = "none"
  /\ l1' = [l1 EXCEPT ![c][l] = Invalid]
  /\ UNCHANGED <<sab, l2, rplc, mem, vb, req>>

\* The victim buffer hands its request to AW: from now on no snoop takes it.
SendAw(c) ==
  /\ vb[c].st = "hold"
  /\ vb' = [vb EXCEPT ![c].st = "sent"]
  /\ UNCHANGED <<sab, l2, rplc, mem, l1, req>>

-----------------------------------------------------------------------------
(***************************************************************************)
(* Creation of entries.                                                    *)
(***************************************************************************)

CreateRead(c) ==
  /\ req[c].kind # "none" /\ ~req[c].sent
  /\ FreeEntries(PiuSid) # {}
  /\ LET s == Lowest(FreeEntries(PiuSid))
     IN  sab' = [sab EXCEPT ![s] =
                   NewEntry(req[c].kind, req[c].line, c, Valid, 0)]
  /\ req' = [req EXCEPT ![c].sent = TRUE]
  /\ UNCHANGED <<l2, rplc, mem, l1, vb>>

\* A write waits for the writes before it only, and the entries that still
\* have to meet it are marked back to wait for it.
CreateWrite(c) ==
  /\ vb[c].st = "sent"
  /\ FreeEntries(WSID) # {}
  /\ LET n == Lowest(FreeEntries(WSID))
     IN  sab' = [s \in SID |->
                   IF s = n
                   THEN NewEntry(vb[c].kind, vb[c].line, c, WriteDepd, 0)
                   ELSE IF back_mark(sab[s])
                        THEN [sab[s] EXCEPT !.depd = @ \cup {n},
                                            !.wns_pend = TRUE]
                        ELSE sab[s]]
  /\ vb' = [vb EXCEPT ![c].st = "sab"]
  /\ UNCHANGED <<l2, rplc, mem, l1, req>>

\* The write data reaches its entry, which then owes the B response.
WriteData(s) ==
  /\ sab[s].st = "DEPD" /\ wns(sab[s]) /\ ~sab[s].wt
  /\ sab' = [sab EXCEPT ![s].wt = TRUE, ![s].new = vb[sab[s].mid].new,
                        ![s].resp = "rdy"]
  /\ UNCHANGED <<l2, rplc, mem, l1, vb, req>>

LeaveDepd(s) ==
  /\ sab[s].st = "DEPD"
  /\ sab[s].depd = {}
  /\ wns(sab[s]) => sab[s].wt
  /\ sab' = [sab EXCEPT ![s] = Goto(sab[s], "L2C")]
  /\ UNCHANGED <<l2, rplc, mem, l1, vb, req>>

-----------------------------------------------------------------------------
(***************************************************************************)
(* Accesses to the L2, granted to the oldest entry that asks for one.      *)
(***************************************************************************)

Granted(s) ==
  /\ sab[s].l2c_req
  /\ \A t \in sab[s].older : ~sab[t].l2c_req

Hit(l)  == {w \in WAY : l2[w].vld /\ l2[w].tag = l}
HitWay(l) == CHOOSE w \in Hit(l) : TRUE

\* The CP bits an access in L2C clears.
clr_cp__own_on_cu(e) ==
  CASE e.kind \in {"wb", "evict"}   -> {e.mid}
    [] e.kind \in {"ru", "ci"}      -> CORE \ {e.mid}
    [] e.kind \in {"cu", "snpl2"}   -> CORE
    [] OTHER                        -> {}
clr_cp(e) ==
  CASE e.kind \in {"wb", "evict"}               -> {e.mid}
    [] e.kind \in {"ru", "cu", "ci", "snpl2"}   -> CORE \ {e.mid}
    [] OTHER                                    -> {}

\* The cores to snoop: those with the line, but for the data side of the one
\* that asks.
cp_after_mask(e, cp) ==
  IF wns(e) \/ evict(e) THEN {} ELSE IF inst(e) THEN cp ELSE cp \ {e.mid}

\* L2C, L2CR, L2CT: read or look up the line, taking the cores that have it.
L2Lookup(s) ==
  LET e == sab[s]
      hit == Hit(e.line) # {}
      way == l2[HitWay(e.line)]
      reads == e.st = "L2CR" \/ (e.st = "L2C" /\ rd(e))
  IN
  /\ e.st \in {"L2C", "L2CR", "L2CT"} /\ Granted(s)
  /\ sab' = [sab EXCEPT ![s] =
       [e EXCEPT !.l2c_req = FALSE, !.l2_hit = hit,
                 !.l2_pd = hit /\ way.dirty,
                 !.cp = IF e.st = "L2C" /\ hit
                        THEN cp_after_mask(e, way.cp) ELSE {},
                 !.new = IF reads /\ hit /\ ~e.l1_pd THEN way.new ELSE @]]
  /\ l2' = IF e.st = "L2C" /\ hit
           THEN [l2 EXCEPT ![HitWay(e.line)].cp = @ \ clr_cp(e)]
           ELSE l2
  /\ UNCHANGED <<rplc, mem, l1, vb, req>>

\* The way to allocate: the pointer's, unless it is already given away.
NotPending == {w \in WAY : ~l2[w].pend}
NextWay(w) == (w + 1) % WAYS
way_fifo == IF rplc \in NotPending THEN rplc ELSE Lowest(NotPending)

\* L2CA: give a way to the line to come; if the way is in use, its line is
\* snooped out by an entry of its own (snpl2).
L2Allocate(s) ==
  LET w == way_fifo
      free == FreeEntries(RSID)
  IN
  /\ sab[s].st = "L2CA" /\ Granted(s)
  /\ NotPending # {}
  /\ \/ /\ ~l2[w].vld
        /\ sab' = [sab EXCEPT ![s] =
                     [Goto(sab[s], "MEMR") EXCEPT !.snpl2_done = TRUE]]
     \/ /\ l2[w].vld
        /\ free # {}
        /\ sab' = [sab EXCEPT
                     ![s] = Goto(sab[s], "MEMR"),
                     ![Lowest(free)] =
                        NewEntry("snpl2", l2[w].tag, NONE, SnpL2Depd, s)]
  /\ l2' = [l2 EXCEPT ![w].pend = TRUE]
  /\ rplc' = NextWay(w)
  /\ UNCHANGED <<mem, l1, vb, req>>

\* The request types of L2CW.
wtud(e) == wns(e) \/ (e.l1_pd /\ (rd_alct(e) \/ e.kind \in {"cu", "csl1"}))
wtuc(e) == (rd_alct(e) /\ ~e.l2_hit /\ ~e.l1_pd) \/ (e.kind = "csl2" /\ e.l1_pd)
clean(e) == e.kind = "csl2" /\ ~e.l1_pd
inv(e)  == e.kind \in {"ci", "snpl2"}

\* A write that misses takes the lowest way that is pending.
RefillWays == {w \in WAY : l2[w].pend /\ ~l2[w].vld}

\* The CP bits it sets.
set_cp(e) == IF rd_alct(e) THEN {e.mid} ELSE {}

\* What a write leaves in the way: the refilled line, nothing, or the line it
\* hit with its status, and its data if it carries any.
Refilled(e) == [vld |-> TRUE, tag |-> e.line, pend |-> FALSE,
                dirty |-> wtud(e), cp |-> set_cp(e), new |-> e.new]
Emptied(way) == [InvalidWay EXCEPT !.pend = way.pend]
Updated(e, way) ==
  [way EXCEPT !.dirty = (@ \/ wtud(e)) /\ ~wtuc(e) /\ ~clean(e),
              !.cp = @ \cup set_cp(e),
              !.new = IF wtud(e) \/ wtuc(e) THEN e.new ELSE @]

L2Write(s) ==
  LET e == sab[s]
      hit == Hit(e.line) # {}
      w == IF hit THEN HitWay(e.line) ELSE Lowest(RefillWays)
      write == wtud(e) \/ wtuc(e)
  IN
  /\ e.st = "L2CW" /\ Granted(s)
  /\ ~hit /\ write => RefillWays # {}
  /\ l2' = CASE ~hit /\ write    -> [l2 EXCEPT ![w] = Refilled(e)]
             [] hit /\ inv(e)    -> [l2 EXCEPT ![w] = Emptied(@)]
             [] hit /\ ~inv(e)   -> [l2 EXCEPT ![w] = Updated(e, @)]
             [] ~hit /\ ~write   -> l2
  /\ sab' = [sab EXCEPT ![s] =
       IF cml2(e) \/ snpl2(e)
       THEN [e EXCEPT !.l2c_req = FALSE, !.l2_hit = hit,
                      !.l2_pd = hit /\ l2[w].dirty,
                      !.new = IF (clean(e) \/ (inv(e) /\ ~e.l1_pd)) /\ hit /\ l2[w].dirty
                              THEN l2[w].new ELSE @]
       ELSE [e EXCEPT !.l2c_req = FALSE]]
  /\ UNCHANGED <<rplc, mem, l1, vb, req>>

-----------------------------------------------------------------------------
(***************************************************************************)
(* The main FSM after an access is complete.                               *)
(***************************************************************************)

\* The next state of an entry in L2C.
AfterL2C(e) ==
  CASE e.cp # {}                                  -> "SNOP"
    [] e.cp = {} /\ (evict(e) \/ e.kind = "csl1") -> "POP"
    [] e.cp = {} /\ (cml2(e) \/ snpl2(e))         ->
         IF e.depd = {} THEN "L2CW" ELSE "L2C"
    [] OTHER -> CASE e.l2_hit \/ e.kind = "cu" -> "L2CW"
                  [] rd_alct(e) /\ ~e.l2_hit   -> "L2CA"
                  [] wns(e) /\ ~e.l2_hit       -> "MEMW"
                  [] e.kind = "ro" /\ ~e.l2_hit -> "MEMR"

\* The next state of an entry in SNOP.
AfterSnop(e) ==
  CASE reply(e)                    -> "L2CR"
    [] e.kind = "csl1" /\ ~e.l1_pd -> "POP"
    [] OTHER                       -> "L2CW"

AfterL2CW(e) ==
  IF (snpl2(e) \/ cml2(e)) /\ (e.l1_pd \/ e.l2_pd) THEN "MEMW" ELSE "POP"

Step(s, to) ==
  /\ sab' = [sab EXCEPT ![s] = Goto(sab[s], to)]
  /\ UNCHANGED <<l2, rplc, mem, l1, vb, req>>

LeaveL2(s) ==
  LET e == sab[s]
  IN
  /\ ~e.l2c_req
  /\ \/ e.st = "L2C" /\ AfterL2C(e) # "L2C" /\ Step(s, AfterL2C(e))
     \/ e.st \in {"L2CR", "L2CT"} /\ Step(s, "L2CW")
     \/ e.st = "L2CW" /\ Step(s, AfterL2CW(e))

LeaveSnop(s) ==
  /\ sab[s].st = "SNOP"
  /\ sab[s].snp = {} /\ sab[s].depd = {}
  /\ Step(s, AfterSnop(sab[s]))

\* The data of the line comes from the memory.
MemRead(s) ==
  LET e == sab[s]
  IN
  /\ e.st = "MEMR" /\ e.memr = "req"
  /\ sab' = [sab EXCEPT ![s].memr = "cmplt",
                        ![s].new = IF rd(e) /\ ~e.l2_hit THEN mem[e.line] ELSE @]
  /\ UNCHANGED <<l2, rplc, mem, l1, vb, req>>

\* A read whose data came still waits for the line it replaces to be gone.
MemrDone__way_in_use(e) == e.memr = "cmplt"
MemrDone(e) == e.memr = "cmplt" /\ e.snpl2_done

LeaveMemr(s) ==
  /\ sab[s].st = "MEMR" /\ MemrDone(sab[s])
  /\ Step(s, IF sab[s].kind = "ru" THEN "L2CT" ELSE "L2CW")

MemWrite(s) ==
  /\ sab[s].st = "MEMW"
  /\ mem' = [mem EXCEPT ![sab[s].line] = sab[s].new]
  /\ sab' = [sab EXCEPT ![s] = Goto(sab[s], "POP")]
  /\ UNCHANGED <<l2, rplc, l1, vb, req>>

\* The entry pops: nobody waits for it any more, and the read whose way it
\* emptied goes on.
Pop(s) ==
  /\ sab[s].st = "POP"
  /\ sab[s].ack \/ snpl2(sab[s])
  /\ sab' = [t \in SID |->
       IF t = s THEN IdleEntry
       ELSE [sab[t] EXCEPT !.depd = @ \ {s}, !.older = @ \ {s},
               !.snpl2_done = @ \/ (snpl2(sab[s]) /\ sab[s].ini = t)]]
  /\ UNCHANGED <<l2, rplc, mem, l1, vb, req>>

-----------------------------------------------------------------------------
(***************************************************************************)
(* Snoops and responses.                                                   *)
(***************************************************************************)

\* The response of a core to a snoop of an entry: CleanInvalid takes the line
\* away, CleanShared (also for ReadShared) makes it clean and shared,
\* ReadOnce leaves it.
acsnoop__ru_shares(e) == CASE e.kind \in {"cu", "ci", "snpl2"}          -> "CI"
                           [] rd_alct(e) \/ e.kind \in {"csl1", "csl2"} -> "CS"
                           [] e.kind = "ro"                            -> "RO"
acsnoop(e) == CASE e.kind \in {"cu", "ru", "ci", "snpl2"} -> "CI"
                [] rs(e) \/ e.kind \in {"csl1", "csl2"}   -> "CS"
                [] e.kind = "ro"                          -> "RO"

SnpResp(s, c) ==
  LET e == sab[s]
      l == e.line
      k == acsnoop(e)
      mine == vb[c].line = l
      bypass == mine /\ vb[c].st = "hold" /\ vb[c].kind # "evict"
      cancel == mine /\ vb[c].st = "hold" /\ vb[c].kind = "evict"
      st == l1[c][l].st
      dirty == bypass \/ st = "M"
  IN
  /\ e.st = "SNOP" /\ c \in e.snp
  /\ mine => vb[c].st = "hold"
  /\ sab' = [sab EXCEPT ![s] =
       [e EXCEPT !.snp = @ \ {c},
                 !.l1_dt = @ \/ dirty,
                 !.l1_pd = @ \/ (dirty /\ k # "RO"),
                 !.l1_sh = @ \/ ((bypass \/ st # "I") /\ k # "CI"),
                 !.new = CASE bypass -> vb[c].new
                           [] ~bypass /\ dirty -> l1[c][l].new
                           [] OTHER -> @]]
  /\ vb' = IF cancel \/ (bypass /\ k # "RO") THEN [vb EXCEPT ![c] = NoVB] ELSE vb
  /\ l1' = CASE k = "CI" -> [l1 EXCEPT ![c][l] = Invalid]
             [] k = "CS" /\ st # "I" -> [l1 EXCEPT ![c][l].st = "S"]
             [] OTHER -> l1
  /\ UNCHANGED <<l2, rplc, mem, req>>

\* The B response frees the victim buffer and is acknowledged.
SendB(s) ==
  /\ sab[s].kind \in WriteKind /\ sab[s].resp = "rdy"
  /\ sab' = [sab EXCEPT ![s].resp = "sent", ![s].ack = TRUE]
  /\ vb' = [vb EXCEPT ![sab[s].mid] = NoVB]
  /\ UNCHANGED <<l2, rplc, mem, l1, req>>

\* The R response fills the L1, or makes its shared copy unique.
SendR(s) ==
  LET e == sab[s]
      fill(st) == [l1 EXCEPT ![e.mid][e.line] = [st |-> st, new |-> e.new]]
  IN
  /\ e.kind \in ReadKind /\ e.resp = "rdy"
  /\ l1' = CASE e.kind = "rs" -> fill(IF e.l1_sh THEN "S" ELSE "E")
             [] e.kind = "ru" -> fill("E")
             [] e.kind = "cu" /\ l1[e.mid][e.line].st = "S" ->
                  [l1 EXCEPT ![e.mid][e.line].st = "E"]
             [] OTHER -> l1
  /\ sab' = [sab EXCEPT ![s].resp = "sent", ![s].ack = TRUE]
  /\ req' = [req EXCEPT ![e.mid] = NoReq]
  /\ UNCHANGED <<l2, rplc, mem, vb>>

-----------------------------------------------------------------------------
CoreStep(c) ==
  \/ \E l \in LINE :
       \/ \E k \in READS : IssueRead(c, k, l)
       \/ Store(c, l)
       \/ Replace(c, l)
       \/ CleanOwn(c, l)
       \/ CleanInvOwn(c, l)
  \/ SendAw(c)

CreateStep(c) == CreateRead(c) \/ CreateWrite(c)

EntryStep(s) ==
  \/ WriteData(s) \/ LeaveDepd(s)
  \/ L2Lookup(s) \/ L2Allocate(s) \/ L2Write(s)
  \/ LeaveL2(s) \/ LeaveSnop(s) \/ MemRead(s) \/ LeaveMemr(s) \/ MemWrite(s)
  \/ SendB(s) \/ SendR(s) \/ Pop(s)
  \/ \E c \in CORE : SnpResp(s, c)

Next ==
  \/ \E c \in CORE : CoreStep(c) \/ CreateStep(c)
  \/ \E s \in SID : EntryStep(s)

Spec == Init /\ [][Next]_vars

\* The SAB and the cores' buses never stop: an entry that can move moves, a
\* victim buffer request is sent and created, and a read that finds room again
\* and again is created: AR arbitrates by the matrix of PrioMatrix.
\* Nothing is assumed of what the cores ask for.
EntryFairness__data_lost(s) ==
  WF_vars((wns(sab[s]) => sab[s].wt) /\ EntryStep(s))
EntryFairness(s) == WF_vars(EntryStep(s))
ArFairness__fixed_priority(c) == WF_vars(CreateRead(c))
ArFairness(c) == SF_vars(CreateRead(c))

Fairness ==
  /\ \A s \in SID : EntryFairness(s)
  /\ \A c \in CORE : /\ ArFairness(c)
                      /\ WF_vars(CreateWrite(c))
                      /\ WF_vars(SendAw(c))

FairSpec == Spec /\ Fairness

-----------------------------------------------------------------------------
(***************************************************************************)
(* Properties.                                                             *)
(***************************************************************************)

EntryType ==
  [st : MainState, kind : Kind, line : LINE \cup {NONE}, mid : CORE \cup {NONE},
   depd : SUBSET SID, older : SUBSET SID, wns_pend : BOOLEAN,
   snpl2_done : BOOLEAN, ini : SID, l2c_req : BOOLEAN, l2_hit : BOOLEAN,
   l2_pd : BOOLEAN, cp : SUBSET CORE, snp : SUBSET CORE, l1_dt : BOOLEAN,
   l1_pd : BOOLEAN, l1_sh : BOOLEAN, new : BOOLEAN, wt : BOOLEAN,
   memr : {"idle", "req", "cmplt"}, resp : {"no", "rdy", "sent"},
   ack : BOOLEAN]

WayType == [vld : BOOLEAN, tag : LINE \cup {NONE}, dirty : BOOLEAN,
            pend : BOOLEAN, cp : SUBSET CORE, new : BOOLEAN]

\* The types of the state.
TypeOK ==
  /\ sab \in [SID -> EntryType]
  /\ l2 \in [WAY -> WayType]
  /\ rplc \in WAY
  /\ mem \in [LINE -> BOOLEAN]
  /\ l1 \in [CORE -> [LINE -> [st : {"I", "S", "E", "M"}, new : BOOLEAN]]]
  /\ vb \in [CORE -> [st : {"none", "hold", "sent", "sab"},
                      kind : WriteKind \cup {"none"},
                      line : LINE \cup {NONE}, new : BOOLEAN]]
  /\ req \in [CORE -> [kind : ReadKind \cup {"none"}, line : LINE \cup {NONE},
                       sent : BOOLEAN, stored : BOOLEAN]]

\* Single writer or multiple readers: while a core holds a line E or M, which
\* lets its next store hit, no other core holds the line.
SWMR ==
  \A c, d \in CORE, l \in LINE :
    c # d /\ l1[c][l].st \in {"E", "M"} => l1[d][l].st = "I"

\* No core reads an old value: its L1 copies hold the latest store, and so
\* does the data of a read whose R response is ready, unless the line was
\* stored to while the read was on its way.
DataValue ==
  /\ \A c \in CORE, l \in LINE : l1[c][l].st # "I" => l1[c][l].new
  /\ \A s \in SID :
       rd(sab[s]) /\ sab[s].resp = "rdy" /\ ~req[sab[s].mid].stored => sab[s].new

\* The latest store is never lost: somewhere there is a copy of it that is
\* not thrown away, memory itself or a copy on its way to memory.
Carries(e) ==
  e.new /\ e.st # "POP" /\ (e.wt \/ e.l1_pd \/ (e.st \in {"L2CW", "MEMW"} /\ e.l2_pd))
NoLostStore ==
  \A l \in LINE :
    \/ mem[l]
    \/ \E c \in CORE : l1[c][l].st = "M" /\ l1[c][l].new
    \/ \E c \in CORE : vb[c].line = l /\ vb[c].kind \in {"wb", "wc"} /\ vb[c].new
    \/ \E w \in Hit(l) : l2[w].dirty /\ l2[w].new
    \/ \E s \in SID : sab[s].line = l /\ Carries(sab[s])

\* Inclusion: the snoop filter knows every L1 copy, or a request that is
\* under way does: the fill whose CP bit is still to be set, or the snoop
\* that has cleared the CP bit and is still to reach the core.
SnoopFilter ==
  \A c \in CORE, l \in LINE : l1[c][l].st # "I" =>
    \/ \E w \in Hit(l) : c \in l2[w].cp
    \/ \E s \in SID :
         /\ sab[s].line = l
         /\ \/ c \in sab[s].cp \cup sab[s].snp
            \/ sab[s].mid = c /\ sab[s].resp = "sent" /\ sab[s].st = "L2CW"

\* The ways given away are those of the reads that have not refilled yet; a
\* read that refills finds its way empty; and a line is in one way only.
HasWay(e) == rd_alct(e) /\ ~e.l2_hit /\
  (e.st \in {"MEMR", "L2CT"} \/ (e.st = "L2CW" /\ e.l2c_req))
RefillHasWay ==
  /\ Cardinality({s \in SID : HasWay(sab[s])}) = Cardinality({w \in WAY : l2[w].pend})
  /\ \A s \in SID :
       HasWay(sab[s]) /\ sab[s].st = "L2CW" => \E w \in WAY : l2[w].pend /\ ~l2[w].vld
  /\ \A l \in LINE : Cardinality(Hit(l)) <= 1

\* The snoop of the L2 for a line to replace always finds an entry, and a way.
SnpL2HasEntry ==
  \A s \in SID : sab[s].st = "L2CA" => FreeEntries(RSID) # {} /\ NotPending # {}

\* A CMO to memory is answered only when what was stored before it is in
\* memory, and no cache keeps a line that was to be invalidated.
CmoDone ==
  \A s \in SID :
    LET e == sab[s]
    IN cml2(e) /\ e.resp = "rdy" =>
         /\ ~req[e.mid].stored => mem[e.line]
         /\ e.kind = "ci" => /\ Hit(e.line) = {}
                             /\ \A c \in CORE : l1[c][e.line].st = "I"

\* The memory behind the bus sees the requests for one line one at a time: no
\* write of the line while another write or a read of it is under way. The
\* bus does not order a read before a write that follows it (ExternalBus).
MemOneAtATime ==
  \A s \in Valid : sab[s].st = "MEMW" =>
    \A t \in Valid \ {s} : sab[t].line = sab[s].line =>
      sab[t].st # "MEMW" /\ ~(sab[t].st = "MEMR" /\ sab[t].memr = "req")

\* No entries wait for each other: in every set of entries one waits for none
\* of the others, be it for their ordering or for the snoop of the L2.
WaitsFor(s) == sab[s].depd \cup
  {t \in SID : snpl2(sab[t]) /\ sab[t].ini = s /\ ~sab[s].snpl2_done}
NoCircularWait ==
  \A S \in (SUBSET Valid) \ {{}} : \E s \in S : WaitsFor(s) \cap S = {}

\* Every read a core issues is answered, and every line its victim buffer
\* holds leaves it, whatever the other cores do meanwhile.
ReadsAnswered == \A c \in CORE : req[c].kind # "none" ~> req[c].kind = "none"
VictimsLeave  == \A c \in CORE : vb[c].st # "none" ~> vb[c].st = "none"

=============================================================================
