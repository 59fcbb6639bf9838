-------------------------- MODULE Broadcast_proofs --------------------------
(***************************************************************************)
(* Proofs about Broadcast for any number of cores and any depths: the      *)
(* queues of the BMBIF, which are filled without a test, never overflow,   *)
(* no line that an invalidation was to remove is filled in after it, the   *)
(* two transactions of an operation meet, and a barrier that is answered   *)
(* has behind it all its core asked for before.                            *)
(***************************************************************************)
EXTENDS Broadcast, OrderFacts, FiniteSetTheorems, TLAPS

(***************************************************************************)
(* What the variables hold on which a barrier depends.                     *)
(***************************************************************************)
Op == CORE \X KIND \X Nat
Message == [k : {"ctc", "fetch", "bar", "snp"}, op : Op \cup {NONE},
            half : {0, 1, 2}, id : Nat]
BarType == [st : {"IDLE", "WAIT", "REQ", "W_BAR_CMPLT", "RESP"},
            grant : SUBSET TARGET, cmplt : SUBSET TARGET]
EntryType == [k : {"free", "fetch", "st", "bar"}, mid : CORE \cup {NONE},
              send : SUBSET CORE, wait : SUBSET CORE, older : SUBSET ENTRY]

ProgramTypes ==
  /\ left \in [CORE -> [KIND -> Nat]] /\ half \in [CORE -> Op \cup {NONE}]
  /\ fence \in [CORE -> {"none", "aw", "ar"}]
  /\ ar \in [CORE -> Seq(Message)] /\ ws \in [CORE -> {NONE, "st", "bar"}]
IfuTypes ==
  /\ refill \in [CORE -> {"IDLE", "WFD1", "INV_WFD1", "CTC_INV"}]
  /\ stale \in [CORE -> BOOLEAN]
BarrierTypes ==
  /\ bar \in [CORE -> BarType] /\ kid \in [TARGET -> Seq(CORE)]
  /\ sab \in [ENTRY -> EntryType] /\ ncq_bar = [c \in CORE |-> ncq_bar[c]]
Types == ProgramTypes /\ IfuTypes /\ BarrierTypes

(***************************************************************************)
(* The halves of a core's barrier are in order: the state of the bar FSM   *)
(* tells how many of them the port has met.                                *)
(***************************************************************************)
HasBar(q) == \E i \in DOMAIN q : q[i].k = "bar"
OneBar(q) == \A i, j \in DOMAIN q : q[i].k = "bar" /\ q[j].k = "bar" => i = j

HalvesOf(c) ==
  /\ OneBar(ar[c])
  /\ fence[c] = "none" => ~HasBar(ar[c]) /\ ws[c] # "bar" /\ bar[c].st = "IDLE"
  /\ fence[c] = "aw" => /\ ~HasBar(ar[c]) /\ bar[c].st \in {"IDLE", "WAIT"}
                        /\ ws[c] = "bar" <=> bar[c].st = "IDLE"
  /\ fence[c] = "ar" => /\ bar[c].st = "IDLE" <=> (HasBar(ar[c]) /\ ws[c] = "bar")
                        /\ bar[c].st = "WAIT" <=> ~(HasBar(ar[c]) <=> ws[c] = "bar")
Halves == \A c \in CORE : HalvesOf(c)

(***************************************************************************)
(* A barrier that was granted at a target and is not complete there is in  *)
(* one place: in the queue of the BMBIF, or with the target.               *)
(***************************************************************************)
Going(c, t) ==
  /\ bar[c].st \in {"REQ", "W_BAR_CMPLT"}
  /\ t \in bar[c].grant /\ t \notin bar[c].cmplt

Queued == \A t \in TARGET : \A i \in DOMAIN kid[t] : Going(kid[t][i], t)
Once == \A t \in TARGET : \A i, j \in DOMAIN kid[t] : kid[t][i] = kid[t][j] => i = j

At(c, t) ==
  \/ t = "snb" /\ \E e \in ENTRY : sab[e].k = "bar" /\ sab[e].mid = c
  \/ t = "ncq" /\ ncq_bar[c] # NONE
  \/ t = "ctcq" /\ sync \in {"WFE", "CMPLT"} /\ bar_mid = c
NotIn(c, t) == \A i \in DOMAIN kid[t] : kid[t][i] # c

Taken == \A c \in CORE, t \in TARGET : At(c, t) => Going(c, t) /\ NotIn(c, t)
OneEntry == \A e, f \in ENTRY :
  /\ sab[e].k = "bar" => sab[e].mid \in CORE
  /\ sab[e].k = "bar" /\ sab[f].k = "bar" /\ sab[e].mid = sab[f].mid => e = f
MidIsCore == sync \in {"WFE", "CMPLT"} => bar_mid \in CORE

Granted == \A c \in CORE : bar[c].cmplt \subseteq bar[c].grant

Places == Queued /\ Once /\ Taken /\ OneEntry /\ MidIsCore /\ Granted

IInv == Types /\ Halves /\ Places /\ NoStaleLine

-----------------------------------------------------------------------------
(***************************************************************************)
(* Types.                                                                  *)
(***************************************************************************)

LEMMA NoneIsOther ==
  NONE \notin CORE /\ NONE # 0 /\ NONE # "bar"
BY BroadcastAssumption

LEMMA FreeType == Free \in EntryType /\ Free.k = "free"
BY DEF Free, EntryType

LEMMA MsgType ==
  ASSUME NEW k \in {"ctc", "fetch", "bar"}, NEW op \in Op \cup {NONE},
         NEW n \in {0, 1, 2}
  PROVE  /\ Msg(k, op, n, 0) \in Message
         /\ Msg(k, op, n, 0).k = k /\ Msg(k, op, n, 0).op = op
BY DEF Msg, Message

LEMMA UseType ==
  ASSUME ProgramTypes, NEW c \in CORE, NEW k \in KIND, Use(c, k)
  PROVE  left' \in [CORE -> [KIND -> Nat]] /\ left[c][k] \in Nat
<1>1. left[c] \in [KIND -> Nat] /\ left[c][k] \in Nat /\ left[c][k] > 0
  BY DEF ProgramTypes, Use
<1>2. [left[c] EXCEPT ![k] = @ - 1] \in [KIND -> Nat]
  BY <1>1
<1> QED
  BY <1>1, <1>2 DEF ProgramTypes, Use

\* What a request adds to the queues of its core.
LEMMA AskTypes ==
  ASSUME Types, Ask
  PROVE  Types'
<1> USE DEF Types
<1>1. ASSUME NEW c \in CORE, NEW k \in {"ici", "tlb"}, SendCtc(c, k)
      PROVE  Types'
  <2> DEFINE op == <<c, k, left[c][k]>>
  <2>1. op \in Op
    BY <1>1, UseType DEF SendCtc, Op, KIND
  <2>2. Msg("ctc", op, 1, 0) \in Message /\ Msg("ctc", op, 1, 0).op = op
    BY <2>1, MsgType
  <2>3. /\ ar' = [ar EXCEPT ![c] = Append(@, Msg("ctc", op, 1, 0))]
        /\ half' = [half EXCEPT ![c] =
             IF More(Msg("ctc", op, 1, 0)) THEN Msg("ctc", op, 1, 0).op ELSE NONE]
        /\ Use(c, k)
        /\ UNCHANGED <<fence, ifu, ws, bar, kid, sab, ncq_bar>>
    BY <1>1, Zenon DEF SendCtc, aw, nc
  <2> HIDE DEF op
  <2>4. left' \in [CORE -> [KIND -> Nat]]
    BY <2>3, UseType DEF KIND
  <2>5. ar' \in [CORE -> Seq(Message)] /\ half' \in [CORE -> Op \cup {NONE}]
    BY <2>1, <2>2, <2>3 DEF ProgramTypes
  <2> QED
    BY <2>3, <2>4, <2>5 DEF ProgramTypes, IfuTypes, BarrierTypes, ifu
<1>2. ASSUME NEW c \in CORE, Fetch(c)
      PROVE  Types'
  <2>1. Msg("fetch", NONE, 0, 0) \in Message
    BY MsgType
  <2>2. /\ ar' = [ar EXCEPT ![c] = Append(@, Msg("fetch", NONE, 0, 0))]
        /\ Use(c, "fetch") /\ UNCHANGED <<half, fence, ws>>
    BY <1>2 DEF Fetch, aw
  <2>3. left' \in [CORE -> [KIND -> Nat]]
    BY <2>2, UseType DEF KIND
  <2>4. Append(ar[c], Msg("fetch", NONE, 0, 0)) \in Seq(Message)
    BY <2>1 DEF ProgramTypes
  <2>5. ar' \in [CORE -> Seq(Message)]
    BY <2>2, <2>4 DEF ProgramTypes
  <2>6. ProgramTypes'
    BY <2>2, <2>3, <2>5 DEF ProgramTypes
  <2> QED
    BY <1>2, <2>6 DEF Fetch, IfuTypes, BarrierTypes, nc
<1>3. ASSUME NEW c \in CORE, ChangeFlow(c)
      PROVE  Types'
  BY <1>3 DEF ChangeFlow, ProgramTypes, IfuTypes, BarrierTypes, prog, aw, nc
<1>4. ASSUME NEW c \in CORE, Store(c)
      PROVE  Types'
  <2>1. Use(c, "st") /\ "st" \in KIND
    BY <1>4 DEF Store, KIND
  <2>2. left' \in [CORE -> [KIND -> Nat]]
    BY <2>1, UseType
  <2> QED
    BY <1>4, <2>2 DEF Store, ProgramTypes, IfuTypes, BarrierTypes, ifu, nc
<1>5. ASSUME NEW c \in CORE, NEW k \in {"wo", "so"}, NcWrite(c, k)
      PROVE  Types'
  <2>1. Use(c, k) /\ k \in KIND
    BY <1>5 DEF NcWrite, KIND
  <2>2. left' \in [CORE -> [KIND -> Nat]]
    BY <2>1, UseType
  <2> QED
    BY <1>5, <2>2 DEF NcWrite, ProgramTypes, IfuTypes, BarrierTypes, ifu, nc
<1>6. ASSUME NEW c \in CORE, FenceAw(c)
      PROVE  Types'
  <2>1. Use(c, "fence") /\ "fence" \in KIND
    BY <1>6 DEF FenceAw, KIND
  <2>2. left' \in [CORE -> [KIND -> Nat]]
    BY <2>1, UseType
  <2> QED
    BY <1>6, <2>2 DEF FenceAw, ProgramTypes, IfuTypes, BarrierTypes, ifu, nc
<1> QED
  BY <1>1, <1>2, <1>3, <1>4, <1>5, <1>6 DEF Ask

\* The barrier in the port of its core and in the BMBIF.
BarrierStep ==
  \E c \in CORE :
    \/ FenceAr(c) \/ ArBar(c) \/ AwBar(c) \/ \E t \in TARGET : BmbGrant(c, t)
    \/ BarDone(c) \/ BarResp(c)

LEMMA BarrierStepTypes ==
  ASSUME Types, BarrierStep
  PROVE  Types'
<1> USE DEF Types
<1>1. ASSUME NEW c \in CORE, FenceAr(c)
      PROVE  Types'
  <2>1. Msg("bar", NONE, 0, 0) \in Message
    BY MsgType
  <2> QED
    BY <1>1, <2>1 DEF FenceAr, ProgramTypes, IfuTypes, BarrierTypes, ifu, aw, nc
<1>2. ASSUME NEW c \in CORE, BarHalf(c)
      PROVE  bar' \in [CORE -> BarType]
  BY <1>2 DEF BarHalf, BarrierTypes, BarType
<1>3. ASSUME NEW c \in CORE, ArBar(c)
      PROVE  Types'
  BY <1>2, <1>3 DEF ArBar, ProgramTypes, IfuTypes, BarrierTypes, prog, ifu, aw, nc
<1>4. ASSUME NEW c \in CORE, AwBar(c)
      PROVE  Types'
  BY <1>2, <1>4 DEF AwBar, ProgramTypes, IfuTypes, BarrierTypes, prog, ifu, nc
<1>5. ASSUME NEW c \in CORE, NEW t \in TARGET, BmbGrant(c, t)
      PROVE  Types'
  <2>1. bar' \in [CORE -> BarType]
    <3>1. PICK G, s : G = bar[c].grant \cup {t} /\ s = IF G = TARGET THEN "W_BAR_CMPLT" ELSE "REQ"
      OBVIOUS
    <3>2. bar' = [bar EXCEPT ![c] = [@ EXCEPT !.grant = G, !.st = s]]
      BY <1>5, <3>1, Zenon DEF BmbGrant
    <3>3. bar \in [CORE -> BarType]
      BY DEF BarrierTypes
    <3>4. G \in SUBSET TARGET /\ s \in {"W_BAR_CMPLT", "REQ"}
      BY <3>1, <3>3 DEF BarType
    <3>5. [bar[c] EXCEPT !.grant = G, !.st = s] \in BarType
      BY <3>3, <3>4 DEF BarType
    <3> QED
      BY <3>2, <3>3, <3>5
  <2>2. kid' \in [TARGET -> Seq(CORE)]
    BY <1>5 DEF BmbGrant, BarrierTypes
  <2> QED
    BY <1>5, <2>1, <2>2
    DEF BmbGrant, ProgramTypes, IfuTypes, BarrierTypes, prog, ifu, aw, nc
<1>6. ASSUME NEW c \in CORE, BarDone(c)
      PROVE  Types'
  <2>1. bar' \in [CORE -> BarType]
    BY <1>6, ZenonT(60) DEF BarDone, BarrierTypes, BarType
  <2> QED
    BY <1>6, <2>1
    DEF BarDone, ProgramTypes, IfuTypes, BarrierTypes, prog, ifu, aw, nc
<1>7. ASSUME NEW c \in CORE, BarResp(c)
      PROVE  Types'
  <2>1. bar' \in [CORE -> BarType]
    BY <1>7 DEF BarResp, BarrierTypes, BarType
  <2> QED
    BY <1>7, <2>1
    DEF BarResp, ProgramTypes, IfuTypes, BarrierTypes, ifu, aw, nc
<1> QED
  BY <1>1, <1>3, <1>4, <1>5, <1>6, <1>7 DEF BarrierStep
LEMMA CmpltType ==
  ASSUME BarrierTypes, NEW c, NEW t \in TARGET, Cmplt(c, t)
  PROVE  bar' \in [CORE -> BarType]
BY DEF Cmplt, BarrierTypes, BarType

LEMMA PopType ==
  ASSUME BarrierTypes, NEW t \in TARGET, kid[t] # <<>>, Pop(t)
  PROVE  kid' \in [TARGET -> Seq(CORE)] /\ Head(kid[t]) \in CORE
BY DEF Pop, BarrierTypes

\* The CTC queue.
CtcStep ==
  \/ \E c \in CORE : SendSecond(c) \/ CtcCreate(c) \/ AcCtc(c)
  \/ CtcBar \/ CtcEmpty \/ CtcCmplt

LEMMA CtcStepTypes ==
  ASSUME Types, CtcStep
  PROVE  Types'
<1> USE DEF Types
<1>1. ASSUME NEW c \in CORE, SendSecond(c)
      PROVE  Types'
  <2>1. half[c] \in Op \cup {NONE}
    BY DEF ProgramTypes
  <2>2. Msg("ctc", half[c], 2, 0) \in Message
    BY <2>1, MsgType
  <2>3. ar' \in [CORE -> Seq(Message)] /\ half' \in [CORE -> Op \cup {NONE}]
    BY <1>1, <2>2 DEF SendSecond, ProgramTypes
  <2> QED
    BY <1>1, <2>3 DEF SendSecond, ProgramTypes, IfuTypes, BarrierTypes, ifu, aw, nc
<1>2. ASSUME NEW c \in CORE, CtcCreate(c)
      PROVE  Types'
  <2>1. /\ ar[c] # <<>> /\ ar' = [ar EXCEPT ![c] = Tail(@)]
        /\ UNCHANGED <<prog, ifu, aw, bar, kid, sab, nc>>
    BY <1>2, Zenon DEF CtcCreate
  <2> QED
    BY <2>1 DEF ProgramTypes, IfuTypes, BarrierTypes, prog, ifu, aw, nc
<1>3. ASSUME NEW c \in CORE, AcCtc(c)
      PROVE  Types'
  <2>1. UNCHANGED <<prog, ifu, ar, aw, bar, kid, sab, nc>>
    BY <1>3, Zenon DEF AcCtc
  <2> QED
    BY <2>1 DEF ProgramTypes, IfuTypes, BarrierTypes, prog, ifu, aw, nc
<1>4. CASE CtcBar
  <2>1. kid' \in [TARGET -> Seq(CORE)]
    BY <1>4, PopType DEF CtcBar, bar_grant, bar_req_vld, TARGET
  <2> QED
    BY <1>4, <2>1
    DEF CtcBar, ProgramTypes, IfuTypes, BarrierTypes, prog, ifu, aw, nc
<1>5. CASE CtcEmpty
  BY <1>5 DEF CtcEmpty, ProgramTypes, IfuTypes, BarrierTypes, prog, ifu, aw, nc
<1>6. CASE CtcCmplt
  <2>1. bar' \in [CORE -> BarType]
    BY <1>6, CmpltType DEF CtcCmplt, TARGET
  <2> QED
    BY <1>6, <2>1
    DEF CtcCmplt, ProgramTypes, IfuTypes, BarrierTypes, prog, ifu, aw, nc
<1> QED
  BY <1>1, <1>2, <1>3, <1>4, <1>5, <1>6 DEF CtcStep

\* The snoop buffer.
LEMMA CreateType ==
  ASSUME BarrierTypes, NEW S \in SUBSET ENTRY, NEW r \in EntryType, Create(S, r)
  PROVE  sab' \in [ENTRY -> EntryType]
BY DEF BarrierTypes, Create

LEMMA EnterType ==
  ASSUME BarrierTypes, NEW c \in CORE, NEW k \in {"fetch", "st"},
         NEW S \in SUBSET ENTRY, Enter(c, k, S)
  PROVE  \E e \in ENTRY, r \in EntryType :
           /\ sab[e] = Free /\ r.k = k /\ r.mid = c /\ sab' = [sab EXCEPT ![e] = r]
<1>1. PICK T \in SUBSET (CORE \ {c}) :
        Create(S, [k |-> k, mid |-> c, send |-> T, wait |-> T, older |-> {}])
  BY DEF Enter
<1>2. [k |-> k, mid |-> c, send |-> T, wait |-> T, older |-> {}] \in EntryType
  BY DEF EntryType
<1> QED
  BY <1>1, <1>2 DEF Create

\* An entry leaves, and nobody waits for it any more.
LeaveShape(e) ==
  /\ sab' \in [ENTRY -> EntryType] /\ sab'[e].k = "free"
  /\ \A f \in ENTRY \ {e} : /\ sab'[f].k = sab[f].k /\ sab'[f].mid = sab[f].mid
                            /\ sab'[f].older = sab[f].older \ {e}

LEMMA LeaveType ==
  ASSUME BarrierTypes, NEW e \in ENTRY, Leave(e)
  PROVE  LeaveShape(e)
<1> DEFINE Left(f) == [sab[f] EXCEPT !.older = @ \ {e}]
<1>1. ASSUME NEW f \in ENTRY
      PROVE  /\ Left(f) \in EntryType /\ Left(f).k = sab[f].k /\ Left(f).mid = sab[f].mid
             /\ Left(f).older = sab[f].older \ {e}
  <2>1. sab[f] \in EntryType
    BY DEF BarrierTypes
  <2> QED
    BY <2>1 DEF EntryType
<1>2. sab' = [f \in ENTRY |-> IF f = e THEN Free ELSE Left(f)]
  BY DEF Leave
<1> HIDE DEF Left
<1> QED
  BY <1>1, <1>2, FreeType DEF LeaveShape

\* An entry goes on with its request.
SameRequests ==
  /\ sab' \in [ENTRY -> EntryType]
  /\ \A f \in ENTRY : /\ sab'[f].k = sab[f].k /\ sab'[f].mid = sab[f].mid
                      /\ sab'[f].older = sab[f].older

LEMMA SnoopType ==
  ASSUME BarrierTypes, NEW c \in CORE,
         (\E e \in ENTRY : AcSnoop(c, e)) \/ CrSnoop(c)
  PROVE  SameRequests
<1>1. ASSUME NEW f \in ENTRY, NEW g \in EntryType, g.k = sab[f].k, g.mid = sab[f].mid,
             g.older = sab[f].older, sab' = [sab EXCEPT ![f] = g]
      PROVE  SameRequests
  BY <1>1 DEF BarrierTypes, SameRequests
<1>2. ASSUME NEW e \in ENTRY, AcSnoop(c, e)
      PROVE  SameRequests
  <2> DEFINE g == [sab[e] EXCEPT !.send = @ \ {c}]
  <2>1. sab[e] \in EntryType
    BY DEF BarrierTypes
  <2>2. g \in EntryType /\ g.k = sab[e].k /\ g.mid = sab[e].mid /\ g.older = sab[e].older
    BY <2>1 DEF EntryType
  <2>3. sab' = [sab EXCEPT ![e] = g]
    BY <1>2 DEF AcSnoop
  <2> HIDE DEF g
  <2> QED
    BY <1>1, <2>2, <2>3
<1>3. ASSUME CrSnoop(c)
      PROVE  SameRequests
  <2> DEFINE e == Head(owed[c]).id
             g == [sab[e] EXCEPT !.wait = @ \ {c}]
  <2>1. sab' = [sab EXCEPT ![e] = g]
    BY <1>3 DEF CrSnoop
  <2>2. CASE e \in ENTRY
    <3>1. sab[e] \in EntryType
      BY <2>2 DEF BarrierTypes
    <3> HIDE DEF e
    <3>2. g \in EntryType /\ g.k = sab[e].k /\ g.mid = sab[e].mid /\ g.older = sab[e].older
      BY <3>1 DEF EntryType
    <3> HIDE DEF g
    <3> QED
      BY <1>1, <2>1, <2>2, <3>2
  <2>3. CASE e \notin ENTRY
    <3> HIDE DEF e, g
    <3>1. sab' = sab
      BY <2>1, <2>3 DEF BarrierTypes
    <3> QED
      BY <3>1 DEF BarrierTypes, SameRequests
  <2> QED
    BY <2>2, <2>3
<1> QED
  BY <1>2, <1>3

SabStep ==
  \/ \E c \in CORE : \/ SabFetch(c) \/ SabStore(c) \/ \E e \in ENTRY : AcSnoop(c, e)
                     \/ CrSnoop(c)
  \/ SabBar \/ \E e \in ENTRY : SabStoreDone(e) \/ SabFetchDone(e) \/ SabBarDone(e)

LEMMA EntriesAre == RENTRY \in SUBSET ENTRY /\ WENTRY \in SUBSET ENTRY
BY DEF ENTRY

LEMMA SabStepTypes ==
  ASSUME Types, SabStep
  PROVE  Types'
<1> USE DEF Types
<1>1. ASSUME NEW c \in CORE, SabFetch(c)
      PROVE  Types'
  <2>1. sab' \in [ENTRY -> EntryType]
    BY <1>1, EnterType, EntriesAre DEF SabFetch, BarrierTypes
  <2> QED
    BY <1>1, <2>1 DEF SabFetch, ProgramTypes, IfuTypes, BarrierTypes, prog, ifu, aw, nc
<1>2. ASSUME NEW c \in CORE, SabStore(c)
      PROVE  Types'
  <2>1. sab' \in [ENTRY -> EntryType]
    BY <1>2, EnterType, EntriesAre DEF SabStore, BarrierTypes
  <2> QED
    BY <1>2, <2>1 DEF SabStore, ProgramTypes, IfuTypes, BarrierTypes, prog, ifu, nc
<1>3. ASSUME NEW c \in CORE, NEW e \in ENTRY, AcSnoop(c, e)
      PROVE  Types'
  <2>1. sab' \in [ENTRY -> EntryType]
    BY <1>3, SnoopType DEF SameRequests
  <2> QED
    BY <1>3, <2>1 DEF AcSnoop, ProgramTypes, IfuTypes, BarrierTypes, prog, ifu, aw, nc
<1>4. ASSUME NEW c \in CORE, CrSnoop(c)
      PROVE  Types'
  <2>1. sab' \in [ENTRY -> EntryType]
    BY <1>4, SnoopType DEF SameRequests
  <2> QED
    BY <1>4, <2>1 DEF CrSnoop, ProgramTypes, IfuTypes, BarrierTypes, prog, ifu, aw, nc
<1>5. CASE SabBar
  <2>1. kid' \in [TARGET -> Seq(CORE)] /\ Head(kid["snb"]) \in CORE
    BY <1>5, PopType DEF SabBar, TARGET
  <2>2. [k |-> "bar", mid |-> Head(kid["snb"]), send |-> {}, wait |-> {},
         older |-> BarDepd] \in EntryType
    BY <2>1 DEF EntryType, BarDepd
  <2>3. sab' \in [ENTRY -> EntryType]
    BY <1>5, <2>2, CreateType, EntriesAre DEF SabBar
  <2> QED
    BY <1>5, <2>1, <2>3
    DEF SabBar, ProgramTypes, IfuTypes, BarrierTypes, prog, ifu, aw, nc
<1>6. ASSUME NEW e \in ENTRY, SabStoreDone(e)
      PROVE  Types'
  <2>1. sab' \in [ENTRY -> EntryType]
    BY <1>6, LeaveType DEF SabStoreDone, LeaveShape
  <2> QED
    BY <1>6, <2>1
    DEF SabStoreDone, ProgramTypes, IfuTypes, BarrierTypes, prog, ifu, aw, nc
<1>7. ASSUME NEW e \in ENTRY, SabFetchDone(e)
      PROVE  Types'
  <2>1. sab' \in [ENTRY -> EntryType]
    BY <1>7, LeaveType DEF SabFetchDone, LeaveShape
  <2> QED
    BY <1>7, <2>1
    DEF SabFetchDone, ProgramTypes, IfuTypes, BarrierTypes, prog, aw, nc
<1>8. ASSUME NEW e \in ENTRY, SabBarDone(e)
      PROVE  Types'
  <2>1. sab' \in [ENTRY -> EntryType]
    BY <1>8, LeaveType DEF SabBarDone, LeaveShape
  <2>2. bar' \in [CORE -> BarType]
    BY <1>8, CmpltType DEF SabBarDone, TARGET
  <2> QED
    BY <1>8, <2>1, <2>2
    DEF SabBarDone, ProgramTypes, IfuTypes, BarrierTypes, prog, ifu, aw, nc
<1> QED
  BY <1>1, <1>2, <1>3, <1>4, <1>5, <1>6, <1>7, <1>8 DEF SabStep
\* The non-cacheable queue and the EBIU.
NcStep ==
  \/ \E c \in CORE : NcqCreate(c) \/ NcqBarDone(c) \/ MemDone(c)
  \/ NcqBar \/ EbiuTake

LEMMA NcStepTypes ==
  ASSUME Types, NcStep
  PROVE  Types'
<1> USE DEF Types
<1>1. ASSUME NEW c \in CORE, NcqCreate(c)
      PROVE  Types'
  BY <1>1 DEF NcqCreate, ProgramTypes, IfuTypes, BarrierTypes, prog, ifu
<1>2. ASSUME NEW c \in CORE, NcqBarDone(c)
      PROVE  Types'
  <2>1. bar' \in [CORE -> BarType]
    BY <1>2, CmpltType DEF NcqBarDone, TARGET
  <2>2. ncq_bar' = [d \in CORE |-> ncq_bar'[d]]
    BY <1>2 DEF NcqBarDone, BarrierTypes
  <2> QED
    BY <1>2, <2>1, <2>2
    DEF NcqBarDone, ProgramTypes, IfuTypes, BarrierTypes, prog, ifu, aw
<1>3. ASSUME Answered \/ UNCHANGED ncq_bar
      PROVE  ncq_bar' = [d \in CORE |-> ncq_bar'[d]]
  BY <1>3 DEF Answered, BarrierTypes
<1>4. ASSUME NEW c \in CORE, MemDone(c)
      PROVE  Types'
  <2>1. ncq_bar' = [d \in CORE |-> ncq_bar'[d]]
    BY <1>3, <1>4 DEF MemDone
  <2> QED
    BY <1>4, <2>1
    DEF MemDone, ProgramTypes, IfuTypes, BarrierTypes, prog, ifu, aw
<1>5. CASE EbiuTake
  <2>1. ncq_bar' = [d \in CORE |-> ncq_bar'[d]]
    BY <1>3, <1>5 DEF EbiuTake
  <2> QED
    BY <1>5, <2>1
    DEF EbiuTake, ProgramTypes, IfuTypes, BarrierTypes, prog, ifu, aw
<1>6. CASE NcqBar
  <2>1. kid' \in [TARGET -> Seq(CORE)]
    BY <1>6, PopType DEF NcqBar, TARGET
  <2>2. ncq_bar' = [ncq_bar EXCEPT ![Head(kid["ncq"])] = total_aw_ostd_cnt]
    BY <1>6 DEF NcqBar
  <2>3. ncq_bar' = [d \in CORE |-> ncq_bar'[d]]
    BY <2>2 DEF BarrierTypes
  <2> QED
    BY <1>6, <2>1, <2>3
    DEF NcqBar, ProgramTypes, IfuTypes, BarrierTypes, prog, ifu, aw
<1> QED
  BY <1>1, <1>2, <1>4, <1>5, <1>6 DEF NcStep

\* The core obeys.
ObeyStep ==
  \E c \in CORE : \/ AcTakeCtc(c) \/ AcTakeSnoop(c) \/ Launch(c)
                  \/ CtcInv(c) \/ InvDone(c) \/ CrCtc(c)

\* No barrier, nor anything it depends on, is touched.
Aside ==
  UNCHANGED <<left, half, fence, ar, ws, bar, kid, sab, ncq_bar, sync, bar_mid>>

LEMMA ObeyIsAside ==
  ASSUME ObeyStep
  PROVE  Aside
<1>1. ASSUME NEW c \in CORE, \/ AcTakeCtc(c) \/ AcTakeSnoop(c) \/ Launch(c)
                             \/ CtcInv(c) \/ InvDone(c) \/ CrCtc(c)
      PROVE  UNCHANGED <<prog, ar, aw, bar, kid, sync, bar_mid, sab, nc>>
  BY <1>1, Zenon
  DEF AcTakeCtc, AcTakeSnoop, Launch, CtcInv, InvDone, CrCtc, ctc
<1> QED
  BY <1>1 DEF ObeyStep, Aside, prog, aw, nc

LEMMA ObeyStepTypes ==
  ASSUME Types, ObeyStep
  PROVE  Types'
<1> USE DEF Types
<1>1. IfuTypes'
  <2>1. ASSUME NEW c \in CORE, CtcInv(c)
        PROVE  IfuTypes'
    BY <2>1 DEF CtcInv, IfuTypes
  <2>2. ASSUME NEW c \in CORE, InvDone(c)
        PROVE  IfuTypes'
    BY <2>2 DEF InvDone, IfuTypes, AfterInv, ifu
  <2>3. ASSUME NEW c \in CORE, AcTakeCtc(c) \/ AcTakeSnoop(c) \/ Launch(c) \/ CrCtc(c)
        PROVE  UNCHANGED ifu
    BY <2>3, Zenon DEF AcTakeCtc, AcTakeSnoop, Launch, CrCtc
  <2> QED
    BY <2>1, <2>2, <2>3 DEF ObeyStep, IfuTypes, ifu
<1>2. Aside
  BY ObeyIsAside
<1> QED
  BY <1>1, <1>2 DEF Aside, ProgramTypes, BarrierTypes

LEMMA NextSteps ==
  ASSUME Next
  PROVE  Ask \/ BarrierStep \/ CtcStep \/ SabStep \/ NcStep \/ ObeyStep
BY Zenon DEF Next, Serve, BarrierStep, CtcStep, SabStep, NcStep, ObeyStep

LEMMA TypesInit ==
  ASSUME Init
  PROVE  Types
<1>1. left \in [CORE -> [KIND -> Nat]]
  BY BroadcastAssumption DEF Init
<1>2. ProgramTypes
  BY <1>1 DEF Init, ProgramTypes
<1>3. IfuTypes
  BY DEF Init, IfuTypes
<1>4. BarrierTypes
  BY FreeType DEF Init, BarrierTypes, BarType
<1> QED
  BY <1>2, <1>3, <1>4 DEF Types

LEMMA TypesStep ==
  ASSUME Types, [Next]_vars
  PROVE  Types'
<1>1. CASE UNCHANGED vars
  BY <1>1 DEF Types, ProgramTypes, IfuTypes, BarrierTypes, vars, prog, ifu, aw, nc
<1> QED
  BY <1>1, NextSteps, AskTypes, BarrierStepTypes, CtcStepTypes, SabStepTypes,
     NcStepTypes, ObeyStepTypes

-----------------------------------------------------------------------------
(***************************************************************************)
(* No stale line.                                                          *)
(***************************************************************************)

LEMMA NoStaleLineStep ==
  ASSUME Types, NoStaleLine, [Next]_vars
  PROVE  NoStaleLine'
<1> USE DEF Types, IfuTypes, NoStaleLine
<1>1. ASSUME NEW c \in CORE, Fetch(c)
      PROVE  NoStaleLine'
  BY <1>1 DEF Fetch
<1>2. ASSUME NEW c \in CORE, ChangeFlow(c)
      PROVE  NoStaleLine'
  BY <1>2 DEF ChangeFlow
<1>3. ASSUME NEW e \in ENTRY, SabFetchDone(e)
      PROVE  NoStaleLine'
  BY <1>3 DEF SabFetchDone
<1>4. ASSUME NEW c \in CORE, CtcInv(c)
      PROVE  NoStaleLine'
  BY <1>4 DEF CtcInv
<1>5. ASSUME NEW c \in CORE, InvDone(c)
      PROVE  NoStaleLine'
  <2>1. CASE OnIcache(c)
    <3>1. refill[c] # "WFD1" /\ refill' = [refill EXCEPT ![c] = AfterInv(@)]
      BY <1>5, <2>1 DEF InvDone, IcacheFree
    <3>2. stale' = [stale EXCEPT ![c] = refill[c] # "IDLE"]
      BY <1>5, <2>1 DEF InvDone
    <3> QED
      BY <3>1, <3>2 DEF AfterInv
  <2>2. CASE ~OnIcache(c)
    BY <1>5, <2>2 DEF InvDone, ifu
  <2> QED
    BY <2>1, <2>2
<1>6. CASE UNCHANGED ifu
  BY <1>6 DEF ifu
<1>7. \/ UNCHANGED ifu
      \/ \E c \in CORE : Fetch(c) \/ ChangeFlow(c) \/ CtcInv(c) \/ InvDone(c)
      \/ \E e \in ENTRY : SabFetchDone(e)
  <2>1. CASE Ask
    BY <2>1, Zenon DEF Ask, SendCtc, Store, NcWrite, FenceAw
  <2>2. CASE BarrierStep
    BY <2>2, Zenon DEF BarrierStep, FenceAr, ArBar, AwBar, BmbGrant, BarDone, BarResp
  <2>3. CASE CtcStep
    BY <2>3, Zenon DEF CtcStep, SendSecond, CtcCreate, AcCtc, CtcBar, CtcEmpty, CtcCmplt
  <2>4. CASE SabStep
    BY <2>4, Zenon
    DEF SabStep, SabFetch, SabStore, AcSnoop, CrSnoop, SabBar, SabStoreDone, SabBarDone
  <2>5. CASE NcStep
    BY <2>5, Zenon DEF NcStep, NcqCreate, NcqBarDone, MemDone, NcqBar, EbiuTake
  <2>6. CASE ObeyStep
    BY <2>6, Zenon DEF ObeyStep, AcTakeCtc, AcTakeSnoop, Launch, CrCtc
  <2>7. CASE UNCHANGED vars
    BY <2>7, Zenon DEF vars
  <2> QED
    BY <2>1, <2>2, <2>3, <2>4, <2>5, <2>6, <2>7, NextSteps
<1> QED
  BY <1>1, <1>2, <1>3, <1>4, <1>5, <1>6, <1>7
-----------------------------------------------------------------------------
(***************************************************************************)
(* The halves of a barrier.                                                *)
(***************************************************************************)

LEMMA AppendBars ==
  ASSUME NEW q \in Seq(Message), NEW m \in Message, OneBar(q),
         m.k = "bar" => ~HasBar(q)
  PROVE  /\ OneBar(Append(q, m))
         /\ HasBar(Append(q, m)) <=> m.k = "bar" \/ HasBar(q)
<1>1. /\ DOMAIN Append(q, m) = 1 .. Len(q) + 1 /\ DOMAIN q = 1 .. Len(q)
      /\ Append(q, m)[Len(q) + 1] = m /\ Len(q) \in Nat
      /\ \A i \in DOMAIN q : Append(q, m)[i] = q[i]
  OBVIOUS
<1> QED
  BY <1>1 DEF OneBar, HasBar

LEMMA TailBars ==
  ASSUME NEW q \in Seq(Message), q # <<>>, OneBar(q)
  PROVE  /\ OneBar(Tail(q))
         /\ HasBar(Tail(q)) <=> Head(q).k # "bar" /\ HasBar(q)
         /\ Head(q).k = "bar" => HasBar(q)
<1>1. /\ DOMAIN q = 1 .. Len(q) /\ Len(q) \in Nat /\ Len(q) > 0
      /\ DOMAIN Tail(q) = 1 .. Len(q) - 1 /\ Head(q) = q[1]
      /\ \A i \in DOMAIN Tail(q) : Tail(q)[i] = q[i + 1]
  OBVIOUS
<1>2. OneBar(Tail(q))
  BY <1>1 DEF OneBar
<1>3. ASSUME HasBar(Tail(q))
      PROVE  Head(q).k # "bar" /\ HasBar(q)
  <2>1. PICK i \in 1 .. Len(q) - 1 : q[i + 1].k = "bar"
    BY <1>1, <1>3 DEF HasBar
  <2>2. i + 1 \in DOMAIN q /\ 1 \in DOMAIN q /\ i + 1 # 1
    BY <1>1
  <2> QED
    BY <1>1, <2>1, <2>2 DEF HasBar, OneBar
<1>4. ASSUME Head(q).k # "bar", HasBar(q)
      PROVE  HasBar(Tail(q))
  <2>1. PICK i \in 1 .. Len(q) : q[i].k = "bar"
    BY <1>1, <1>4 DEF HasBar
  <2>2. i - 1 \in DOMAIN Tail(q) /\ Tail(q)[i - 1] = q[i]
    BY <1>1, <1>4, <2>1
  <2> QED
    BY <2>1, <2>2 DEF HasBar
<1>5. Head(q).k = "bar" => HasBar(q)
  BY <1>1 DEF HasBar
<1> QED
  BY <1>2, <1>3, <1>4, <1>5

LEMMA HalvesFrame ==
  ASSUME Halves, UNCHANGED fence,
         \A c \in CORE : /\ OneBar(ar'[c])
                         /\ HasBar(ar'[c]) <=> HasBar(ar[c])
                         /\ ws'[c] = "bar" <=> ws[c] = "bar"
                         /\ bar'[c].st = bar[c].st
  PROVE  Halves'
BY DEF Halves, HalvesOf, OneBar, HasBar

\* AR gets or gives up something else than a barrier.
LEMMA OtherOnAr ==
  ASSUME Types, Halves, UNCHANGED <<fence, ws, bar>>, NEW c \in CORE,
         \/ \E m \in Message : m.k # "bar" /\ ar' = [ar EXCEPT ![c] = Append(@, m)]
         \/ ar[c] # <<>> /\ Head(ar[c]).k # "bar" /\ ar' = [ar EXCEPT ![c] = Tail(@)]
  PROVE  Halves'
<1>1. ar \in [CORE -> Seq(Message)] /\ \A d \in CORE : OneBar(ar[d])
  BY DEF Types, ProgramTypes, Halves, HalvesOf
<1>2. \A d \in CORE : OneBar(ar'[d]) /\ (HasBar(ar'[d]) <=> HasBar(ar[d]))
  <2>1. ASSUME NEW m \in Message, m.k # "bar", ar' = [ar EXCEPT ![c] = Append(@, m)]
        PROVE  \A d \in CORE : OneBar(ar'[d]) /\ (HasBar(ar'[d]) <=> HasBar(ar[d]))
    BY <1>1, <2>1, AppendBars
  <2>2. ASSUME ar[c] # <<>>, Head(ar[c]).k # "bar", ar' = [ar EXCEPT ![c] = Tail(@)]
        PROVE  \A d \in CORE : OneBar(ar'[d]) /\ (HasBar(ar'[d]) <=> HasBar(ar[d]))
    BY <1>1, <2>2, TailBars
  <2> QED
    BY <2>1, <2>2
<1> QED
  BY <1>2, HalvesFrame

\* A target says that it is done, or nothing happens to the barrier at all.
LEMMA OtherOnBar ==
  ASSUME Types, Halves, UNCHANGED <<fence, ar, ws>>,
         UNCHANGED bar \/ \E c, t : Cmplt(c, t)
  PROVE  Halves'
<1>1. \A c \in CORE : bar'[c].st = bar[c].st
  BY DEF Types, BarrierTypes, BarType, Cmplt
<1>2. \A c \in CORE : OneBar(ar'[c]) /\ ar'[c] = ar[c]
  BY DEF Halves, HalvesOf
<1> QED
  BY <1>1, <1>2, HalvesFrame

LEMMA AskHalves ==
  ASSUME Types, Halves, Ask
  PROVE  Halves'
<1>1. ASSUME NEW c \in CORE, NEW k \in {"ici", "tlb"}, SendCtc(c, k)
      PROVE  Halves'
  <2> DEFINE m == Msg("ctc", <<c, k, left[c][k]>>, 1, 0)
  <2>1. <<c, k, left[c][k]>> \in Op
    BY <1>1, UseType DEF SendCtc, Op, KIND, Types
  <2>2. m \in Message /\ m.k = "ctc"
    BY <2>1, MsgType
  <2>3. ar' = [ar EXCEPT ![c] = Append(@, m)] /\ UNCHANGED <<fence, ws, bar>>
    BY <1>1 DEF SendCtc, aw
  <2> QED
    BY <2>2, <2>3, OtherOnAr
<1>2. ASSUME NEW c \in CORE, Fetch(c)
      PROVE  Halves'
  <2> DEFINE m == Msg("fetch", NONE, 0, 0)
  <2>1. m \in Message /\ m.k = "fetch"
    BY MsgType
  <2>2. ar' = [ar EXCEPT ![c] = Append(@, m)] /\ UNCHANGED <<fence, ws, bar>>
    BY <1>2 DEF Fetch, Use, aw
  <2> QED
    BY <2>1, <2>2, OtherOnAr
<1>3. ASSUME NEW c \in CORE, Store(c)
      PROVE  Halves'
  BY <1>3, NoneIsOther DEF Store, Use, Types, ProgramTypes, Halves, HalvesOf
<1>4. ASSUME NEW c \in CORE, FenceAw(c)
      PROVE  Halves'
  BY <1>4 DEF FenceAw, Types, ProgramTypes, Halves, HalvesOf
<1>5. ASSUME NEW c \in CORE, ChangeFlow(c) \/ \E k \in {"wo", "so"} : NcWrite(c, k)
      PROVE  Halves'
  <2>1. UNCHANGED <<fence, ar, ws, bar>>
    BY <1>5 DEF ChangeFlow, NcWrite, prog, aw
  <2> QED
    BY <2>1, OtherOnBar
<1> QED
  BY <1>1, <1>2, <1>3, <1>4, <1>5 DEF Ask

LEMMA BarrierStepHalves ==
  ASSUME Types, Halves, BarrierStep
  PROVE  Halves'
<1> USE DEF Types, ProgramTypes, BarrierTypes, BarType
<1>1. \A d \in CORE : ar[d] \in Seq(Message) /\ OneBar(ar[d])
  BY DEF Halves, HalvesOf
<1>2. ASSUME NEW c \in CORE, FenceAr(c)
      PROVE  Halves'
  <2> DEFINE m == Msg("bar", NONE, 0, 0)
  <2>1. m \in Message /\ m.k = "bar"
    BY MsgType
  <2>2. /\ fence[c] = "aw" /\ fence' = [fence EXCEPT ![c] = "ar"]
        /\ ar' = [ar EXCEPT ![c] = Append(@, m)] /\ UNCHANGED <<ws, bar>>
    BY <1>2 DEF FenceAr, aw
  <2>3. ~HasBar(ar[c])
    BY <2>2 DEF Halves, HalvesOf
  <2>4. OneBar(Append(ar[c], m)) /\ HasBar(Append(ar[c], m))
    BY <1>1, <2>1, <2>3, AppendBars
  <2>5. OneBar(ar'[c]) /\ HasBar(ar'[c]) /\ \A d \in CORE \ {c} : ar'[d] = ar[d]
    BY <2>2, <2>4
  <2> HIDE DEF m
  <2>6. HalvesOf(c)'
    BY <2>2, <2>5 DEF Halves, HalvesOf, OneBar, HasBar
  <2>7. ASSUME NEW d \in CORE \ {c}
        PROVE  HalvesOf(d)'
    BY <2>2, <2>5 DEF Halves, HalvesOf, OneBar, HasBar
  <2> QED
    BY <2>6, <2>7 DEF Halves
<1>3. ASSUME NEW c \in CORE, ArBar(c)
      PROVE  Halves'
  <2>1. /\ ar[c] # <<>> /\ Head(ar[c]).k = "bar" /\ ar' = [ar EXCEPT ![c] = Tail(@)]
        /\ BarHalf(c) /\ UNCHANGED <<fence, ws>>
    BY <1>3 DEF ArBar, prog, aw
  <2>2. HasBar(ar[c]) /\ OneBar(Tail(ar[c])) /\ ~HasBar(Tail(ar[c]))
    BY <1>1, <2>1, TailBars
  <2>3. OneBar(ar'[c]) /\ ~HasBar(ar'[c]) /\ \A d \in CORE \ {c} : ar'[d] = ar[d]
    BY <2>1, <2>2
  <2>4. /\ bar'[c].st = IF bar[c].st = "IDLE" THEN "WAIT" ELSE "REQ"
        /\ \A d \in CORE \ {c} : bar'[d] = bar[d]
    BY <2>1 DEF BarHalf
  <2>5. HalvesOf(c)'
    BY <2>1, <2>2, <2>3, <2>4 DEF Halves, HalvesOf, OneBar, HasBar
  <2>6. ASSUME NEW d \in CORE \ {c}
        PROVE  HalvesOf(d)'
    BY <2>1, <2>3, <2>4 DEF Halves, HalvesOf, OneBar, HasBar
  <2> QED
    BY <2>5, <2>6 DEF Halves
<1>4. ASSUME NEW c \in CORE, AwBar(c)
      PROVE  Halves'
  <2>1. /\ ws[c] = "bar" /\ ws' = [ws EXCEPT ![c] = NONE]
        /\ BarHalf(c) /\ UNCHANGED <<fence, ar>>
    BY <1>4 DEF AwBar, prog
  <2>2. /\ bar'[c].st = IF bar[c].st = "IDLE" THEN "WAIT" ELSE "REQ"
        /\ \A d \in CORE \ {c} : bar'[d] = bar[d]
    BY <2>1 DEF BarHalf
  <2>3. ws'[c] # "bar" /\ \A d \in CORE \ {c} : ws'[d] = ws[d]
    BY <2>1, NoneIsOther
  <2>4. HalvesOf(c)'
    BY <2>1, <2>2, <2>3 DEF Halves, HalvesOf, OneBar, HasBar
  <2>5. ASSUME NEW d \in CORE \ {c}
        PROVE  HalvesOf(d)'
    BY <2>1, <2>2, <2>3 DEF Halves, HalvesOf, OneBar, HasBar
  <2> QED
    BY <2>4, <2>5 DEF Halves
<1>5. ASSUME NEW c \in CORE, BarDone(c) \/ \E t \in TARGET : BmbGrant(c, t)
      PROVE  Halves'
  <2>1. /\ UNCHANGED <<fence, ar, ws>>
        /\ bar[c].st \in {"REQ", "W_BAR_CMPLT"}
        /\ bar'[c].st \in {"REQ", "W_BAR_CMPLT", "RESP"}
        /\ \A d \in CORE \ {c} : bar'[d] = bar[d]
    <3>1. ASSUME BarDone(c)
          PROVE  /\ bar[c].st = "W_BAR_CMPLT" /\ bar' = [bar EXCEPT ![c].st = "RESP"]
                 /\ UNCHANGED <<fence, ar, ws>>
      BY <3>1 DEF BarDone, prog, aw
    <3>2. ASSUME NEW t \in TARGET, BmbGrant(c, t)
          PROVE  /\ bar[c].st = "REQ" /\ bar'[c].st \in {"REQ", "W_BAR_CMPLT"}
                 /\ \A d \in CORE \ {c} : bar'[d] = bar[d]
                 /\ UNCHANGED <<fence, ar, ws>>
      BY <3>2 DEF BmbGrant, bar_req, prog, aw
    <3> QED
      BY <1>5, <3>1, <3>2
  <2>2. HalvesOf(c)'
    BY <2>1 DEF Halves, HalvesOf, OneBar, HasBar
  <2>3. ASSUME NEW d \in CORE \ {c}
        PROVE  HalvesOf(d)'
    BY <2>1 DEF Halves, HalvesOf, OneBar, HasBar
  <2> QED
    BY <2>2, <2>3 DEF Halves
<1>6. ASSUME NEW c \in CORE, BarResp(c)
      PROVE  Halves'
  <2>1. /\ UNCHANGED <<ar, ws>> /\ fence' = [fence EXCEPT ![c] = "none"]
        /\ bar[c].st = "RESP" /\ bar'[c].st = "IDLE"
        /\ \A d \in CORE \ {c} : bar'[d] = bar[d]
    BY <1>6 DEF BarResp, aw
  <2>2. fence[c] = "ar"
    BY <2>1 DEF Halves, HalvesOf
  <2>3. HalvesOf(c)'
    BY <2>1, <2>2 DEF Halves, HalvesOf, OneBar, HasBar
  <2>4. ASSUME NEW d \in CORE \ {c}
        PROVE  HalvesOf(d)'
    BY <2>1 DEF Halves, HalvesOf, OneBar, HasBar
  <2> QED
    BY <2>3, <2>4 DEF Halves
<1> QED
  BY <1>2, <1>3, <1>4, <1>5, <1>6 DEF BarrierStep
LEMMA HalvesStep ==
  ASSUME Types, Halves, [Next]_vars
  PROVE  Halves'
<1>1. ASSUME NEW c \in CORE, SendSecond(c)
      PROVE  Halves'
  <2> DEFINE m == Msg("ctc", half[c], 2, 0)
  <2>1. half[c] \in Op \cup {NONE}
    BY DEF Types, ProgramTypes
  <2>2. m \in Message /\ m.k = "ctc"
    BY <2>1, MsgType
  <2>3. ar' = [ar EXCEPT ![c] = Append(@, m)] /\ UNCHANGED <<fence, ws, bar>>
    BY <1>1 DEF SendSecond, aw
  <2> QED
    BY <2>2, <2>3, OtherOnAr
<1>2. ASSUME NEW c \in CORE, CtcCreate(c) \/ SabFetch(c)
      PROVE  Halves'
  <2>1. /\ ar[c] # <<>> /\ Head(ar[c]).k \in {"ctc", "fetch"}
        /\ ar' = [ar EXCEPT ![c] = Tail(@)]
        /\ UNCHANGED <<fence, ws, bar>>
    BY <1>2 DEF CtcCreate, SabFetch, prog, aw
  <2> QED
    BY <2>1, OtherOnAr
<1>3. ASSUME NEW c \in CORE, SabStore(c)
      PROVE  Halves'
  <2>1. /\ ws[c] = "st" /\ ws' = [ws EXCEPT ![c] = NONE]
        /\ UNCHANGED <<fence, ar, bar>>
    BY <1>3 DEF SabStore, prog
  <2>2. \A d \in CORE : (ws'[d] = "bar" <=> ws[d] = "bar") /\ OneBar(ar[d])
    BY <2>1, NoneIsOther DEF Types, ProgramTypes, Halves, HalvesOf
  <2> QED
    BY <2>1, <2>2, HalvesFrame
<1>4. \/ Ask \/ BarrierStep
      \/ \E c \in CORE : SendSecond(c) \/ CtcCreate(c) \/ SabFetch(c) \/ SabStore(c)
      \/ UNCHANGED <<fence, ar, ws>> /\ (UNCHANGED bar \/ \E c, t : Cmplt(c, t))
  <2>1. CASE CtcStep
    BY <2>1 DEF CtcStep, AcCtc, CtcBar, CtcEmpty, CtcCmplt, prog, aw
  <2>2. CASE SabStep
    BY <2>2 DEF SabStep, AcSnoop, CrSnoop, SabBar, SabStoreDone, SabFetchDone,
                SabBarDone, prog, aw
  <2>3. CASE NcStep
    BY <2>3 DEF NcStep, NcqCreate, NcqBarDone, MemDone, NcqBar, EbiuTake, prog, aw
  <2>4. CASE ObeyStep
    BY <2>4, ObeyIsAside DEF Aside
  <2>5. CASE UNCHANGED vars
    BY <2>5 DEF vars, prog, aw
  <2> QED
    BY <2>1, <2>2, <2>3, <2>4, <2>5, NextSteps
<1> QED
  BY <1>1, <1>2, <1>3, <1>4, AskHalves, BarrierStepHalves, OtherOnBar

-----------------------------------------------------------------------------
(***************************************************************************)
(* The places of a barrier.                                                *)
(***************************************************************************)

\* Nothing new is at a target, and what was on its way still is.
LEMMA PlacesFrame ==
  ASSUME Places, UNCHANGED <<kid, sync, bar_mid>>,
         \A c \in CORE, t \in TARGET : Going(c, t) => Going(c, t)',
         \A e \in ENTRY : sab'[e].k = "bar" =>
                            sab[e].k = "bar" /\ sab'[e].mid = sab[e].mid,
         \A c \in CORE : ncq_bar'[c] # NONE => ncq_bar[c] # NONE,
         BarrierTypes, Granted'
  PROVE  Places'
<1>1. Queued'
  <2>1. \A t \in TARGET : \A i \in DOMAIN kid[t] : kid[t][i] \in CORE
    BY DEF BarrierTypes
  <2> QED
    BY <2>1 DEF Places, Queued
<1>2. Once' /\ MidIsCore'
  BY DEF Places, Once, MidIsCore
<1>3. Taken'
  <2>1. \A c \in CORE, t \in TARGET : At(c, t)' => At(c, t)
    BY DEF At
  <2> QED
    BY <2>1 DEF Places, Taken, NotIn
<1>4. OneEntry'
  BY DEF Places, OneEntry
<1> QED
  BY <1>1, <1>2, <1>3, <1>4 DEF Places

\* The barrier at the head of a queue goes to the target, which had none of its
\* core.
LEMMA PopPlaces ==
  ASSUME BarrierTypes, Places, NEW t \in TARGET, kid[t] # <<>>, Pop(t),
         NEW c, c = Head(kid[t])
  PROVE  /\ c \in CORE /\ Going(c, t) /\ ~At(c, t) /\ NotIn(c, t)'
         /\ \A u \in TARGET : \A i \in DOMAIN kid'[u] :
              \E j \in DOMAIN kid[u] : kid'[u][i] = kid[u][j]
         /\ Once'
<1> DEFINE q == kid[t]
<1>1. /\ q \in Seq(CORE) /\ q # <<>> /\ kid' = [kid EXCEPT ![t] = Tail(q)]
      /\ kid \in [TARGET -> Seq(CORE)]
  BY DEF BarrierTypes, Pop
<1> HIDE DEF q
<1>2. /\ Head(q) = q[1] /\ 1 \in DOMAIN q /\ Head(q) \in CORE
      /\ \A i \in DOMAIN Tail(q) :
           Tail(q)[i] = q[i + 1] /\ i + 1 \in DOMAIN q /\ i + 1 # 1
      /\ \A i, j \in DOMAIN Tail(q) : i + 1 = j + 1 => i = j
  BY <1>1
<1>3. Going(c, t) /\ ~At(c, t)
  BY <1>2 DEF q, Places, Queued, Taken, NotIn
<1>4. \A i, j \in DOMAIN q : q[i] = q[j] => i = j
  BY DEF q, Places, Once
<1>5. kid'[t] = Tail(q) /\ \A u \in TARGET \ {t} : kid'[u] = kid[u]
  BY <1>1
<1>6. NotIn(c, t)'
  <2>1. \A i \in DOMAIN Tail(q) : Tail(q)[i] # c
    BY <1>2, <1>4 DEF q
  <2> QED
    BY <1>5, <2>1 DEF NotIn
<1>7. \A u \in TARGET : \A i \in DOMAIN kid'[u] :
        \E j \in DOMAIN kid[u] : kid'[u][i] = kid[u][j]
  <2>1. \A i \in DOMAIN Tail(q) : \E j \in DOMAIN q : Tail(q)[i] = q[j]
    BY <1>2
  <2> QED
    BY <1>5, <2>1, ZenonT(60) DEF q
<1>8. Once'
  <2>1. \A i, j \in DOMAIN Tail(q) : Tail(q)[i] = Tail(q)[j] => i = j
    BY <1>2, <1>4
  <2> QED
    BY <1>5, <2>1 DEF Places, Once
<1> QED
  BY <1>2, <1>3, <1>6, <1>7, <1>8 DEF q
\* After a pop, what was on its way still is, and the queues hold nothing new.
LEMMA AfterPop ==
  ASSUME BarrierTypes, Places, NEW t \in TARGET, kid[t] # <<>>, Pop(t), UNCHANGED bar
  PROVE  /\ Queued'
         /\ \A c \in CORE, u \in TARGET : /\ NotIn(c, u) => NotIn(c, u)'
                                          /\ Going(c, u)' <=> Going(c, u)
<1>1. \A u \in TARGET : \A i \in DOMAIN kid'[u] :
        \E j \in DOMAIN kid[u] : kid'[u][i] = kid[u][j]
  BY PopPlaces
<1>2. \A c, u : Going(c, u)' <=> Going(c, u)
  BY DEF Going
<1>3. Queued'
  BY <1>1 DEF Places, Queued, Going
<1> QED
  BY <1>1, <1>2, <1>3 DEF NotIn

\* A target that says it is done has a barrier of the core no more.
LEMMA CmpltPlaces ==
  ASSUME BarrierTypes, Places, NEW c \in CORE, NEW t \in TARGET, Cmplt(c, t), At(c, t),
         UNCHANGED kid, ~At(c, t)',
         \A d \in CORE, u \in TARGET : At(d, u)' => At(d, u),
         OneEntry', MidIsCore'
  PROVE  Places'
<1>1. \A d \in CORE, u \in TARGET : Going(d, u) /\ (d # c \/ u # t) => Going(d, u)'
  BY DEF Cmplt, Going, BarrierTypes, BarType
<1>2. NotIn(c, t)
  BY DEF Places, Taken
<1>3. Queued'
  <2>1. \A u \in TARGET : \A i \in DOMAIN kid[u] :
          kid[u][i] \in CORE /\ (kid[u][i] # c \/ u # t)
    BY <1>2 DEF NotIn, BarrierTypes
  <2> QED
    BY <1>1, <2>1 DEF Places, Queued
<1>4. Taken'
  BY <1>1 DEF Places, Taken, NotIn
<1>5. Once'
  BY DEF Places, Once
<1>6. Granted'
  <2>1. t \in bar[c].grant
    BY DEF Places, Taken, Going
  <2> QED
    BY <2>1 DEF Cmplt, Places, Granted, BarrierTypes, BarType
<1> QED
  BY <1>3, <1>4, <1>5, <1>6 DEF Places

LEMMA BarrierStepPlaces ==
  ASSUME Types, Halves, Places, BarrierStep
  PROVE  Places'
<1>1. BarrierTypes
  BY DEF Types
<1>2. ASSUME NEW c \in CORE,
             \A t \in TARGET : ~Going(c, t),
             \A d \in CORE \ {c} : bar'[d] = bar[d],
             bar'[c].cmplt \subseteq bar'[c].grant,
             UNCHANGED <<kid, sync, bar_mid, sab, ncq_bar>>
      PROVE  Places'
  <2>1. \A d \in CORE, t \in TARGET : Going(d, t) => Going(d, t)'
    BY <1>2 DEF Going
  <2>2. Granted'
    BY <1>2 DEF Places, Granted
  <2> QED
    BY <1>1, <1>2, <2>1, <2>2, PlacesFrame
<1>3. ASSUME NEW c \in CORE, FenceAr(c)
      PROVE  Places'
  <2>1. UNCHANGED <<bar, kid, sync, bar_mid, sab, ncq_bar>>
    BY <1>3 DEF FenceAr, ctc, nc
  <2>2. \A d \in CORE, t \in TARGET : Going(d, t) => Going(d, t)'
    BY <2>1 DEF Going
  <2>3. Granted'
    BY <2>1 DEF Places, Granted
  <2> QED
    BY <1>1, <2>1, <2>2, <2>3, PlacesFrame
<1>4. ASSUME NEW c \in CORE, ArBar(c) \/ AwBar(c)
      PROVE  Places'
  <2>1. /\ BarHalf(c) /\ UNCHANGED <<kid, sync, bar_mid, sab, ncq_bar>>
        /\ (ar[c] # <<>> /\ Head(ar[c]).k = "bar") \/ ws[c] = "bar"
    BY <1>4 DEF ArBar, AwBar, ctc, nc
  <2>2. HasBar(ar[c]) \/ ws[c] = "bar"
    <3>1. ar[c] \in Seq(Message) /\ OneBar(ar[c])
      BY DEF Types, ProgramTypes, Halves, HalvesOf
    <3> QED
      BY <2>1, <3>1, TailBars
  <2>3. bar[c].st \in {"IDLE", "WAIT"}
    BY <2>2 DEF Halves, HalvesOf, Types, ProgramTypes
  <2>4. bar'[c].cmplt = {} /\ \A d \in CORE \ {c} : bar'[d] = bar[d]
    BY <2>1 DEF BarHalf, Types, BarrierTypes
  <2> QED
    BY <1>2, <2>1, <2>3, <2>4 DEF Going
<1>5. ASSUME NEW c \in CORE, BarDone(c) \/ BarResp(c)
      PROVE  Places'
  <2>1. /\ UNCHANGED <<kid, sync, bar_mid, sab, ncq_bar>>
        /\ bar[c].st = "RESP" \/ bar[c].cmplt = TARGET
        /\ bar'[c].cmplt = bar[c].cmplt /\ bar'[c].grant = bar[c].grant
        /\ \A d \in CORE \ {c} : bar'[d] = bar[d]
    BY <1>5 DEF BarDone, BarResp, ctc, nc, Types, BarrierTypes, BarType
  <2> QED
    BY <1>2, <2>1 DEF Going, Places, Granted
<1>6. ASSUME NEW c \in CORE, NEW t \in TARGET, BmbGrant(c, t)
      PROVE  Places'
  <2>1. /\ bar[c].st = "REQ" /\ t \notin bar[c].grant
        /\ kid' = [kid EXCEPT ![t] = Append(@, c)]
        /\ bar'[c].grant = bar[c].grant \cup {t} /\ bar'[c].cmplt = bar[c].cmplt
        /\ bar'[c].st \in {"REQ", "W_BAR_CMPLT"}
        /\ \A d \in CORE \ {c} : bar'[d] = bar[d]
        /\ UNCHANGED <<sync, bar_mid, sab, ncq_bar>>
    BY <1>6 DEF BmbGrant, bar_req, ctc, nc, Types, BarrierTypes, BarType
  <2>2. \A d \in CORE, u \in TARGET : Going(d, u) => Going(d, u)'
    BY <2>1 DEF Going
  <2>3. NotIn(c, t) /\ ~At(c, t) /\ Going(c, t)'
    BY <2>1 DEF Places, Queued, Taken, Granted, Going, NotIn
  <2> DEFINE q == kid[t]
  <2>4. /\ q \in Seq(CORE) /\ kid'[t] = Append(q, c)
        /\ \A u \in TARGET \ {t} : kid'[u] = kid[u]
        /\ \A u \in TARGET : \A i \in DOMAIN kid[u] : kid[u][i] \in CORE
    BY <2>1 DEF Types, BarrierTypes
  <2>5. /\ \A i \in DOMAIN q : q[i] # c
        /\ \A i, j \in DOMAIN q : q[i] = q[j] => i = j
    BY <2>3 DEF NotIn, Places, Once
  <2>6. \A d \in CORE : (\E i \in DOMAIN q : q[i] = d) => Going(d, t)'
    BY <2>2, <2>4 DEF Places, Queued
  <2> HIDE DEF q
  <2>7. \A i \in DOMAIN Append(q, c) :
          \/ i \in DOMAIN q /\ Append(q, c)[i] = q[i]
          \/ i = Len(q) + 1 /\ Append(q, c)[i] = c
    BY <2>4
  <2>8. Queued'
    <3>1. \A i \in DOMAIN kid'[t] : \/ \E j \in DOMAIN q : kid'[t][i] = q[j]
                                    \/ kid'[t][i] = c
      BY <2>4, <2>7
    <3>2. ASSUME NEW i \in DOMAIN kid'[t]
          PROVE  Going(kid[t][i], t)'
      <4>1. \A d \in CORE : kid'[t][i] = d => Going(d, t)'
        BY <2>3, <2>6, <3>1
      <4>2. kid'[t][i] \in CORE
        BY <2>4, <3>1 DEF q
      <4> QED
        BY <4>1, <4>2 DEF Going
    <3>3. ASSUME NEW u \in TARGET \ {t}, NEW i \in DOMAIN kid'[u]
          PROVE  Going(kid[u][i], u)'
      BY <2>2, <2>4 DEF Places, Queued, Going
    <3> QED
      BY <3>2, <3>3 DEF Queued
  <2>9. Once'
    <3>1. \A i, j \in DOMAIN Append(q, c) : Append(q, c)[i] = Append(q, c)[j] => i = j
      BY <2>5, <2>7
    <3> QED
      BY <2>4, <3>1 DEF Places, Once
  <2>10. Taken'
    <3>1. \A d \in CORE, u \in TARGET : At(d, u)' <=> At(d, u)
      BY <2>1 DEF At
    <3>2. ASSUME NEW d \in CORE, d # c, NotIn(d, t)
          PROVE  NotIn(d, t)'
      BY <2>4, <2>7, <3>2 DEF NotIn, q
    <3>3. ASSUME NEW d \in CORE, NEW u \in TARGET \ {t}, NotIn(d, u)
          PROVE  NotIn(d, u)'
      BY <2>4, <3>3 DEF NotIn
    <3> QED
      BY <2>2, <2>3, <3>1, <3>2, <3>3 DEF Places, Taken
  <2>11. OneEntry' /\ MidIsCore' /\ Granted'
    BY <2>1 DEF Places, OneEntry, MidIsCore, Granted
  <2> QED
    BY <2>8, <2>9, <2>10, <2>11 DEF Places
<1> QED
  BY <1>3, <1>4, <1>5, <1>6 DEF BarrierStep
\* Neither the barrier of a core nor its places change.
LEMMA SamePlaces ==
  ASSUME Types, Places, UNCHANGED <<bar, kid, sync, bar_mid>>,
         \A e \in ENTRY : sab'[e].k = "bar" =>
                            sab[e].k = "bar" /\ sab'[e].mid = sab[e].mid,
         \A c \in CORE : ncq_bar'[c] # NONE => ncq_bar[c] # NONE
  PROVE  Places'
<1>1. \A c, t : Going(c, t) => Going(c, t)'
  BY DEF Going
<1>2. Granted' /\ BarrierTypes
  BY DEF Places, Granted, Types
<1> QED
  BY <1>1, <1>2, PlacesFrame

LEMMA CtcStepPlaces ==
  ASSUME Types, Places, CtcStep
  PROVE  Places'
<1>1. BarrierTypes
  BY DEF Types
<1>2. ASSUME NEW c \in CORE, SendSecond(c) \/ AcCtc(c)
      PROVE  Places'
  <2>1. UNCHANGED <<bar, kid, sync, bar_mid, sab, ncq_bar>>
    BY <1>2 DEF SendSecond, AcCtc, ctc, nc
  <2> QED
    BY <2>1, SamePlaces
<1>3. ASSUME NEW c \in CORE, CtcCreate(c)
      PROVE  Places'
  <2>1. /\ UNCHANGED <<bar, kid, bar_mid, sab, ncq_bar>>
        /\ sync \notin {"WFE", "CMPLT"} /\ sync' = "WFB"
    BY <1>3 DEF CtcCreate, sync_fsm_stall, nc
  <2>2. \A d \in CORE, t \in TARGET : At(d, t)' => At(d, t)
    BY <2>1 DEF At
  <2> QED
    BY <2>1, <2>2 DEF Places, Queued, Once, Taken, NotIn, OneEntry, MidIsCore,
                      Granted, Going
<1>4. CASE CtcEmpty
  <2>1. /\ UNCHANGED <<bar, kid, bar_mid, sab, ncq_bar>>
        /\ sync = "WFE" /\ sync' = "CMPLT"
    BY <1>4 DEF CtcEmpty, nc
  <2>2. \A d \in CORE, t \in TARGET : At(d, t)' => At(d, t)
    BY <2>1 DEF At
  <2> QED
    BY <2>1, <2>2 DEF Places, Queued, Once, Taken, NotIn, OneEntry, MidIsCore,
                      Granted, Going
<1>5. CASE CtcBar
  <2>1. PICK c : c = Head(kid["ctcq"])
    OBVIOUS
  <2>2. /\ "ctcq" \in TARGET /\ kid["ctcq"] # <<>> /\ Pop("ctcq")
        /\ UNCHANGED <<bar, sab, ncq_bar>>
        /\ bar_mid' = c /\ sync' \in {"WFE", "CMPLT"}
    BY <1>5, <2>1 DEF CtcBar, bar_grant, bar_req_vld, TARGET, nc
  <2>3. c \in CORE /\ Going(c, "ctcq") /\ NotIn(c, "ctcq")' /\ Once'
    BY <1>1, <2>1, <2>2, PopPlaces
  <2>4. /\ Queued'
        /\ \A d \in CORE, u \in TARGET : /\ NotIn(d, u) => NotIn(d, u)'
                                         /\ Going(d, u)' <=> Going(d, u)
    BY <1>1, <2>2, AfterPop
  <2>5. \A d \in CORE, u \in TARGET : At(d, u)' => At(d, u) \/ (d = c /\ u = "ctcq")
    BY <2>2 DEF At
  <2>6. Taken'
    BY <2>2, <2>3, <2>4, <2>5 DEF Places, Taken
  <2>7. OneEntry' /\ MidIsCore' /\ Granted'
    BY <2>2, <2>3 DEF Places, OneEntry, MidIsCore, Granted
  <2> QED
    BY <2>3, <2>4, <2>6, <2>7 DEF Places
<1>6. CASE CtcCmplt
  <2>1. PICK c : c = bar_mid
    OBVIOUS
  <2>2. /\ sync = "CMPLT" /\ sync' = "IDLE" /\ Cmplt(c, "ctcq")
        /\ UNCHANGED <<kid, bar_mid, sab, ncq_bar>>
    BY <1>6, <2>1 DEF CtcCmplt, nc
  <2>3. c \in CORE /\ "ctcq" \in TARGET
    BY <2>1, <2>2 DEF Places, MidIsCore, TARGET
  <2>4. At(c, "ctcq") /\ ~At(c, "ctcq")'
    BY <2>1, <2>2 DEF At
  <2>5. \A d \in CORE, u \in TARGET : At(d, u)' => At(d, u)
    BY <2>2 DEF At
  <2>6. OneEntry' /\ MidIsCore'
    BY <2>2 DEF Places, OneEntry, MidIsCore
  <2> QED
    BY <1>1, <2>2, <2>3, <2>4, <2>5, <2>6, CmpltPlaces
<1> QED
  BY <1>2, <1>3, <1>4, <1>5, <1>6 DEF CtcStep

LEMMA SabStepPlaces ==
  ASSUME Types, Places, SabStep
  PROVE  Places'
<1>1. BarrierTypes /\ sab \in [ENTRY -> EntryType]
  BY DEF Types, BarrierTypes
<1>2. ASSUME NEW c \in CORE, SabFetch(c) \/ SabStore(c)
      PROVE  Places'
  <2>1. /\ UNCHANGED <<bar, kid, sync, bar_mid, ncq_bar>>
        /\ \E k \in {"fetch", "st"}, S \in SUBSET ENTRY : Enter(c, k, S)
    BY <1>2, EntriesAre DEF SabFetch, SabStore, ctc, nc
  <2>2. PICK e \in ENTRY, r \in EntryType :
          r.k \in {"fetch", "st"} /\ sab' = [sab EXCEPT ![e] = r]
    BY <1>1, <2>1, EnterType
  <2>3. \A f \in ENTRY : sab'[f].k = "bar" =>
                           sab[f].k = "bar" /\ sab'[f].mid = sab[f].mid
    BY <1>1, <2>2
  <2> QED
    BY <2>1, <2>3, SamePlaces
<1>3. ASSUME NEW c \in CORE, CrSnoop(c) \/ \E e \in ENTRY : AcSnoop(c, e)
      PROVE  Places'
  <2>1. UNCHANGED <<bar, kid, sync, bar_mid, ncq_bar>>
    BY <1>3 DEF CrSnoop, AcSnoop, ctc, nc
  <2>2. SameRequests
    BY <1>1, <1>3, SnoopType
  <2> QED
    BY <2>1, <2>2, SamePlaces DEF SameRequests
<1>4. ASSUME NEW e \in ENTRY, SabStoreDone(e) \/ SabFetchDone(e)
      PROVE  Places'
  <2>1. UNCHANGED <<bar, kid, sync, bar_mid, ncq_bar>> /\ Leave(e)
    BY <1>4 DEF SabStoreDone, SabFetchDone, ctc, nc
  <2>2. LeaveShape(e)
    BY <1>1, <2>1, LeaveType
  <2>3. \A f \in ENTRY : sab'[f].k = "bar" =>
                           sab[f].k = "bar" /\ sab'[f].mid = sab[f].mid
    BY <2>2 DEF LeaveShape
  <2> QED
    BY <2>1, <2>3, SamePlaces
<1>5. CASE SabBar
  <2>1. PICK c : c = Head(kid["snb"])
    OBVIOUS
  <2> DEFINE r == [k |-> "bar", mid |-> c, send |-> {}, wait |-> {}, older |-> BarDepd]
  <2>2. /\ "snb" \in TARGET /\ kid["snb"] # <<>> /\ Pop("snb")
        /\ UNCHANGED <<bar, sync, bar_mid, ncq_bar>> /\ Create(WENTRY, r)
    BY <1>5, <2>1 DEF SabBar, TARGET, ctc, nc
  <2>3. PICK e \in ENTRY : sab[e] = Free /\ sab' = [sab EXCEPT ![e] = r]
    BY <2>2, EntriesAre DEF Create
  <2>4. sab'[e].k = "bar" /\ sab'[e].mid = c /\ \A f \in ENTRY \ {e} : sab'[f] = sab[f]
    BY <1>1, <2>3
  <2> HIDE DEF r
  <2>5. c \in CORE /\ Going(c, "snb") /\ ~At(c, "snb") /\ NotIn(c, "snb")' /\ Once'
    BY <1>1, <2>1, <2>2, PopPlaces
  <2>6. /\ Queued'
        /\ \A d \in CORE, u \in TARGET : /\ NotIn(d, u) => NotIn(d, u)'
                                         /\ Going(d, u)' <=> Going(d, u)
    BY <1>1, <2>2, AfterPop
  <2>7. \A d \in CORE, u \in TARGET : At(d, u)' => At(d, u) \/ (d = c /\ u = "snb")
    BY <2>2, <2>4 DEF At
  <2>8. Taken'
    BY <2>2, <2>5, <2>6, <2>7 DEF Places, Taken
  <2>9. OneEntry'
    <3>1. \A f \in ENTRY : ~(sab[f].k = "bar" /\ sab[f].mid = c)
      BY <2>5 DEF At
    <3> QED
      BY <2>4, <2>5, <3>1 DEF Places, OneEntry
  <2>10. MidIsCore' /\ Granted'
    BY <2>2 DEF Places, MidIsCore, Granted
  <2> QED
    BY <2>5, <2>6, <2>8, <2>9, <2>10 DEF Places
<1>6. ASSUME NEW e \in ENTRY, SabBarDone(e)
      PROVE  Places'
  <2>1. PICK c : c = sab[e].mid
    OBVIOUS
  <2>2. /\ sab[e].k = "bar" /\ Leave(e) /\ Cmplt(c, "snb")
        /\ UNCHANGED <<kid, sync, bar_mid, ncq_bar>>
    BY <1>6, <2>1 DEF SabBarDone, ctc, nc
  <2>3. c \in CORE /\ "snb" \in TARGET /\ At(c, "snb")
    BY <2>1, <2>2 DEF Places, OneEntry, TARGET, At
  <2>4. /\ sab'[e].k = "free"
        /\ \A f \in ENTRY \ {e} : sab'[f].k = sab[f].k /\ sab'[f].mid = sab[f].mid
    BY <1>1, <2>2, LeaveType DEF LeaveShape
  <2>5. \A f \in ENTRY : sab[f].k = "bar" /\ sab[f].mid = c => f = e
    BY <2>1, <2>2 DEF Places, OneEntry
  <2>6. ~At(c, "snb")'
    BY <2>4, <2>5 DEF At
  <2>7. \A d \in CORE, u \in TARGET : At(d, u)' => At(d, u)
    BY <2>2, <2>4 DEF At
  <2>8. OneEntry' /\ MidIsCore'
    BY <2>2, <2>4 DEF Places, OneEntry, MidIsCore
  <2> QED
    BY <1>1, <2>2, <2>3, <2>6, <2>7, <2>8, CmpltPlaces
<1> QED
  BY <1>2, <1>3, <1>4, <1>5, <1>6 DEF SabStep

LEMMA NcStepPlaces ==
  ASSUME Types, Places, NcStep
  PROVE  Places'
<1>1. BarrierTypes /\ ncq_bar = [d \in CORE |-> ncq_bar[d]]
  BY DEF Types, BarrierTypes
<1>2. ASSUME NEW c \in CORE, NcqCreate(c)
      PROVE  Places'
  <2>1. UNCHANGED <<bar, kid, sync, bar_mid, sab, ncq_bar>>
    BY <1>2 DEF NcqCreate, ctc
  <2> QED
    BY <2>1, SamePlaces
<1>3. ASSUME UNCHANGED <<bar, kid, sync, bar_mid, sab>>, Answered \/ UNCHANGED ncq_bar
      PROVE  Places'
  <2>1. \A d \in CORE : ncq_bar'[d] # NONE => ncq_bar[d] # NONE
    BY <1>3 DEF Answered
  <2> QED
    BY <1>3, <2>1, SamePlaces
<1>4. ASSUME NEW c \in CORE, MemDone(c)
      PROVE  Places'
  BY <1>3, <1>4 DEF MemDone, ctc
<1>5. CASE EbiuTake
  BY <1>3, <1>5 DEF EbiuTake, ctc
<1>6. CASE NcqBar
  <2>1. PICK c : c = Head(kid["ncq"])
    OBVIOUS
  <2>2. /\ "ncq" \in TARGET /\ kid["ncq"] # <<>> /\ Pop("ncq")
        /\ UNCHANGED <<bar, sync, bar_mid, sab>>
        /\ ncq_bar' = [ncq_bar EXCEPT ![c] = total_aw_ostd_cnt]
    BY <1>6, <2>1 DEF NcqBar, TARGET, ctc
  <2>3. c \in CORE /\ Going(c, "ncq") /\ NotIn(c, "ncq")' /\ Once'
    BY <1>1, <2>1, <2>2, PopPlaces
  <2>4. /\ Queued'
        /\ \A d \in CORE, u \in TARGET : /\ NotIn(d, u) => NotIn(d, u)'
                                         /\ Going(d, u)' <=> Going(d, u)
    BY <1>1, <2>2, AfterPop
  <2>5. \A d \in CORE \ {c} : ncq_bar'[d] = ncq_bar[d]
    BY <1>1, <2>2
  <2>6. \A d \in CORE, u \in TARGET : At(d, u)' => At(d, u) \/ (d = c /\ u = "ncq")
    BY <2>2, <2>5 DEF At
  <2>7. Taken'
    BY <2>2, <2>3, <2>4, <2>6 DEF Places, Taken
  <2>8. OneEntry' /\ MidIsCore' /\ Granted'
    BY <2>2 DEF Places, OneEntry, MidIsCore, Granted
  <2> QED
    BY <2>3, <2>4, <2>7, <2>8 DEF Places
<1>7. ASSUME NEW c \in CORE, NcqBarDone(c)
      PROVE  Places'
  <2>1. /\ ncq_bar[c] = 0 /\ ncq_bar' = [ncq_bar EXCEPT ![c] = NONE] /\ Cmplt(c, "ncq")
        /\ UNCHANGED <<kid, sync, bar_mid, sab>>
    BY <1>7 DEF NcqBarDone, ctc
  <2>2. ncq_bar'[c] = NONE /\ \A d \in CORE \ {c} : ncq_bar'[d] = ncq_bar[d]
    BY <1>1, <2>1
  <2>3. "ncq" \in TARGET /\ At(c, "ncq") /\ ~At(c, "ncq")'
    BY <2>1, <2>2, NoneIsOther DEF At, TARGET
  <2>4. \A d \in CORE, u \in TARGET : At(d, u)' => At(d, u)
    BY <2>1, <2>2 DEF At
  <2>5. OneEntry' /\ MidIsCore'
    BY <2>1 DEF Places, OneEntry, MidIsCore
  <2> QED
    BY <1>1, <2>1, <2>3, <2>4, <2>5, CmpltPlaces
<1> QED
  BY <1>2, <1>4, <1>5, <1>6, <1>7 DEF NcStep

LEMMA PlacesStep ==
  ASSUME Types, Halves, Places, [Next]_vars
  PROVE  Places'
<1>1. CASE Ask
  <2>1. UNCHANGED <<bar, kid, sync, bar_mid, sab, ncq_bar>>
    BY <1>1 DEF Ask, SendCtc, Fetch, ChangeFlow, Store, NcWrite, FenceAw, ctc, nc
  <2> QED
    BY <2>1, SamePlaces
<1>2. CASE ObeyStep
  <2>1. UNCHANGED <<bar, kid, sync, bar_mid, sab, ncq_bar>>
    BY <1>2, ObeyIsAside DEF Aside
  <2> QED
    BY <2>1, SamePlaces
<1>3. CASE UNCHANGED vars
  <2>1. UNCHANGED <<bar, kid, sync, bar_mid, sab, ncq_bar>>
    BY <1>3 DEF vars, ctc, nc
  <2> QED
    BY <2>1, SamePlaces
<1> QED
  BY <1>1, <1>2, <1>3, NextSteps, BarrierStepPlaces, CtcStepPlaces, SabStepPlaces,
     NcStepPlaces

-----------------------------------------------------------------------------
(***************************************************************************)
(* The theorems.                                                           *)
(***************************************************************************)

LEMMA InitInv ==
  ASSUME Init
  PROVE  IInv
<1>1. Types
  BY TypesInit
<1>2. Halves
  BY NoneIsOther DEF Init, Halves, HalvesOf, HasBar, OneBar
<1>3. \A e \in ENTRY : sab[e].k = "free"
  BY FreeType DEF Init
<1>4. Places
  BY <1>3 DEF Init, Places, Queued, Once, Taken, At, OneEntry, MidIsCore, Granted
<1>5. NoStaleLine
  BY DEF Init, NoStaleLine
<1> QED
  BY <1>1, <1>2, <1>4, <1>5 DEF IInv

\* A queue of the BMBIF holds every core at most once.
LEMMA RoomFollows ==
  ASSUME IInv
  PROVE  BarRoom
<1>1. ASSUME NEW t \in TARGET
      PROVE  Len(kid[t]) <= BMB_DEPTH
  <2> DEFINE q == kid[t]
  <2>1. q \in Seq(CORE) /\ \A i, j \in DOMAIN q : q[i] = q[j] => i = j
    BY DEF IInv, Types, BarrierTypes, Places, Once
  <2> HIDE DEF q
  <2>2. Len(q) \in Nat /\ DOMAIN q = 1 .. Len(q) /\ q \in [1 .. Len(q) -> CORE]
    BY <2>1
  <2>3. q \in Injection(1 .. Len(q), CORE)
    BY <2>1, <2>2 DEF Injection, IsInjective
  <2>4. Cardinality(1 .. Len(q)) <= Cardinality(CORE)
    BY <2>3, FS_Injection, BroadcastAssumption
  <2>5. Cardinality(1 .. Len(q)) = Len(q)
    BY <2>2, FS_Interval
  <2>6. Cardinality(CORE) \in Nat /\ Cardinality(CORE) <= BMB_DEPTH /\ BMB_DEPTH \in Nat
    BY FS_CardinalityType, BroadcastAssumption
  <2> QED
    BY <2>2, <2>4, <2>5, <2>6 DEF q
<1> QED
  BY <1>1 DEF BarRoom

\* The inductive invariant: types, the halves of the barriers in the ports, and
\* the places of the barriers at their targets.
THEOREM BroadcastInvariant == Spec => []IInv
<1>1. IInv /\ [Next]_vars => IInv'
  BY TypesStep, HalvesStep, PlacesStep, NoStaleLineStep DEF IInv
<1> QED
  BY InitInv, <1>1, PTL DEF Spec

\* The queues of the BMBIF (ct_ciu_bmbif_kid.v 108), which are filled without a
\* test for full, never overflow, because a core is in each at most once.
THEOREM BmbNeverOverflows == Spec => []BarRoom
BY BroadcastInvariant, RoomFollows, PTL

\* Whatever invalidations come while the I cache waits for a line, it does not
\* fill in one that was asked for before (CTC_INV of ct_ifu_l1_refill.v).
THEOREM NoLineOutlivesItsInvalidation == Spec => []NoStaleLine
<1>1. IInv => NoStaleLine
  BY DEF IInv
<1> QED
  BY <1>1, BroadcastInvariant, PTL

-----------------------------------------------------------------------------
(***************************************************************************)
(* The operations on their way.                                            *)
(***************************************************************************)
CtcOp == CORE \X {"ici", "tlb"} \X Nat
OpMsg(m) == m.k = "ctc" /\ m.op \in CtcOp /\ m.half \in {1, 2}
AcMessage == [k : {"ctc", "snp"}, op : Op \cup {NONE}, half : {0, 1, 2}, id : Nat \cup ENTRY]
Request == [msg : Message, todo : SUBSET CORE]
CtcEntry == [msgs : Seq(AcMessage), cmplt : Nat]

PipeTypes ==
  /\ reqq \in Seq(Request) /\ respq \in [1 .. RESPQ -> SUBSET CORE]
  /\ ac \in [CORE -> Seq(AcMessage)] /\ owed \in [CORE -> Seq(AcMessage)]
  /\ ctcq \in [CORE -> Seq(CtcEntry)]
  /\ mask \in [CORE -> BOOLEAN] /\ inv \in [CORE -> BOOLEAN]

\* What is an operation and what is not, and whose it is.
Kinds ==
  /\ \A c \in CORE : \A i \in DOMAIN ar[c] :
       LET m == ar[c][i]
       IN  IF m.k = "ctc" THEN OpMsg(m) /\ m.op[1] = c ELSE m.half = 0
  /\ \A c \in CORE : half[c] # NONE => half[c] \in CtcOp /\ half[c][1] = c
  /\ \A i \in DOMAIN reqq : OpMsg(reqq[i].msg)
  /\ \A c \in CORE : \A i \in DOMAIN ac[c] :
       LET m == ac[c][i] IN IF m.k = "ctc" THEN OpMsg(m) ELSE m.half = 0

\* An entry of a core's queue holds one operation, and all but the last entry all
\* of it. Only such an entry is at the IFU or the MMU, or done.
EntryShape(q) ==
  /\ Len(q.msgs) \in {1, 2} /\ OpMsg(q.msgs[1]) /\ q.msgs[1].half = 1
  /\ Len(q.msgs) = 2 => /\ More(q.msgs[1])
                        /\ q.msgs[2].op = q.msgs[1].op /\ q.msgs[2].half = 2
  /\ q.cmplt <= Len(q.msgs)
EntryShapes == \A c \in CORE : \A i \in DOMAIN ctcq[c] :
  LET q == ctcq[c][i]
  IN  /\ EntryShape(q)
      /\ i < Len(ctcq[c]) \/ q.cmplt > 0 => Complete(q)

FirstUndone(c, i) ==
  /\ i \in DOMAIN ctcq[c] /\ ctcq[c][i].cmplt = 0
  /\ \A j \in 1 .. i - 1 : ctcq[c][j].cmplt # 0
AtWork == \A c \in CORE : inv[c] =>
  \E i \in DOMAIN ctcq[c] : FirstUndone(c, i) /\ Complete(ctcq[c][i])

\* The cores take the requests in their order.
InOrder ==
  /\ \A i, j \in DOMAIN reqq : i < j => reqq[i].todo \subseteq reqq[j].todo
  /\ \A i \in DOMAIN reqq : reqq[i].todo # {}

PipeInv == PipeTypes /\ Kinds /\ EntryShapes /\ AtWork /\ InOrder

(***************************************************************************)
(* The pairs.  A second transaction follows its first one directly, on     *)
(* every way from the core that asks to the core that obeys; Opens tells   *)
(* which operation has to go on after a transaction, if any.               *)
(***************************************************************************)
Opens(m) == IF m.half = 1 /\ More(m) THEN m.op ELSE NONE
Follows(op, m) == IF op = NONE THEN m.half # 2
                  ELSE m.k = "ctc" /\ m.half = 2 /\ m.op = op

\* A queue whose first transaction comes after op, and after which to is open.
Linked(s, op, to) ==
  /\ s = <<>> => to = op
  /\ s # <<>> => Follows(op, s[1]) /\ to = Opens(s[Len(s)])
  /\ \A i \in 1 .. Len(s) - 1 : Follows(Opens(s[i]), s[i + 1])

\* What is open behind the queue of a core, behind its AC channel, and where the
\* CTCQ has x open, on the AR channel of a core.
Kept(d) == IF Waiting(d) THEN ctcq[d][Len(ctcq[d])].msgs[1].op ELSE NONE
Passed(d) == IF ac[d] = <<>> THEN Kept(d) ELSE Opens(ac[d][Len(ac[d])])
Awaited(c, x) == IF x # NONE /\ x[1] = c THEN x ELSE NONE

Selects(x) == IF x = NONE THEN ~two_trans_need /\ last_req_sel = CORE
              ELSE two_trans_need /\ last_req_sel = {x[1]}
NextFor(d, i) ==
  i \in DOMAIN reqq /\ d \in reqq[i].todo /\ \A j \in 1 .. i - 1 : d \notin reqq[j].todo
QueueLinked(x) ==
  /\ \A i \in 1 .. Len(reqq) - 1 : Follows(Opens(reqq[i].msg), reqq[i + 1].msg)
  /\ reqq # <<>> => x = Opens(reqq[Len(reqq)].msg)
ToLinked(d, x) ==
  /\ (\A i \in DOMAIN reqq : d \notin reqq[i].todo) => Passed(d) = x
  /\ \A i \in DOMAIN reqq : NextFor(d, i) => Follows(Passed(d), reqq[i].msg)
ArLinked(c, x) == Linked(ar[c], Awaited(c, x), half[c])
AcLinked(d) == Linked(ac[d], Kept(d), Passed(d)) /\ (mask[d] <=> Passed(d) # NONE)

Pairs(x) ==
  /\ Selects(x) /\ QueueLinked(x)
  /\ \A c \in CORE : ArLinked(c, x) /\ AcLinked(c) /\ ToLinked(c, x)
HalfAlone == \A c \in CORE : fence[c] # "none" => half[c] = NONE
PairInv == HalfAlone /\ \E x \in CtcOp \cup {NONE} : Pairs(x)

(***************************************************************************)
(* What the CTCQ waits for.  Whatever a core has still to take or to       *)
(* answer, its id waits for the core, and no other does.                   *)
(***************************************************************************)
IsCtc(m) == m.k = "ctc"
Waits(d, m) == m.id \in 1 .. RESPQ /\ d \in respq[m.id]
AskedWait == \A i \in DOMAIN reqq : \A d \in reqq[i].todo : Waits(d, reqq[i].msg)
QueueWaits(d, s) == \A i \in DOMAIN s : IsCtc(s[i]) => Waits(d, s[i])
Awaits == AskedWait /\ \A d \in CORE : QueueWaits(d, ac[d]) /\ QueueWaits(d, owed[d])

\* An id is not in a queue, or in a queue only once, or only in one of two.
Fresh(s, id) == \A i \in DOMAIN s : IsCtc(s[i]) => s[i].id # id
Distinct(s) == \A i, j \in DOMAIN s : IsCtc(s[i]) /\ IsCtc(s[j]) /\ s[i].id = s[j].id => i = j
Apart(s, t) == \A i \in DOMAIN s : IsCtc(s[i]) => Fresh(t, s[i].id)
AskedDiffer == \A i, j \in DOMAIN reqq : reqq[i].msg.id = reqq[j].msg.id => i = j
AskedFresh(d) == \A i \in DOMAIN reqq : d \in reqq[i].todo =>
  Fresh(ac[d], reqq[i].msg.id) /\ Fresh(owed[d], reqq[i].msg.id)
IdsDiffer ==
  /\ AskedDiffer
  /\ \A d \in CORE : /\ AskedFresh(d) /\ Apart(ac[d], owed[d])
                     /\ Distinct(ac[d]) /\ Distinct(owed[d])

\* The answers a core owes are those of its queue, in the order of the queue.
Due(q) == {j \in DOMAIN q.msgs : q.cmplt = 0 \/ j > Len(q.msgs) - q.cmplt}
Before(i, j, n, o) == i < n \/ (i = n /\ j < o)
InLine(q, s) ==
  /\ \A i \in DOMAIN q : \A j \in Due(q[i]) :
       \E k \in DOMAIN s : IsCtc(s[k]) /\ s[k] = q[i].msgs[j]
  /\ \A i, n \in DOMAIN q : \A j \in Due(q[i]), o \in Due(q[n]) :
       Before(i, j, n, o) =>
         \A k, l \in DOMAIN s : s[k] = q[i].msgs[j] /\ s[l] = q[n].msgs[o] => k < l
Owes(d) == InLine(ctcq[d], owed[d])
AnswerInv == Awaits /\ IdsDiffer /\ \A d \in CORE : Owes(d)

SyncAnswered == sync \in {"IDLE", "CMPLT"} => AllAnswered

\* Behind its barrier, nothing of a core's is on AR, and what is in the CTCQ stays.
ArGone == \A c \in CORE : fence[c] = "ar" =>
  \A i \in DOMAIN ar[c] : ar[c][i].k = "ctc" => \E j \in DOMAIN ar[c] : j > i /\ ar[c][j].k = "bar"
Done(c, t) == bar[c].st \in {"REQ", "W_BAR_CMPLT", "RESP"} /\ t \in bar[c].cmplt

(***************************************************************************)
(* The writes before a barrier.  Once its barrier is under way a core has  *)
(* no store on AW, and when the AW half is gone no other write either.     *)
(***************************************************************************)
AwFirst == \A c \in CORE : fence[c] # "none" =>
  ws[c] # "st" /\ (ws[c] # "bar" => wns[c] = NONE)

\* A barrier in the snoop buffer waits for every store of its core there.
StoreFirst ==
  /\ \A e, f \in ENTRY : sab[e].k = "bar" /\ sab[f].k = "st" /\ sab[f].mid = sab[e].mid =>
                          f \in sab[e].older
  /\ \A c \in CORE : Done(c, "snb") => \A e \in ENTRY : ~(sab[e].k = "st" /\ sab[e].mid = c)

\* The answers a barrier in the NCQ waits for are those of all strongly ordered
\* writes in the EBIU and of all writes in waq up to the last one of its core, if
\* it has one: the answers of other cores and of younger writes cannot use up the
\* count before that write has gone.
NcTypes ==
  /\ waq \in Seq([mid : CORE, k : {"wo", "so"}]) /\ wns \in [CORE -> {NONE, "wo", "so"}]
  /\ ebiu \in [CORE -> Seq({"wo", "so"})] /\ ncq_bar \in [CORE -> Nat \cup {NONE}]
NcFirst ==
  /\ IsFiniteSet(SoOut)
  /\ \A c \in CORE : ncq_bar[c] # NONE =>
       \A i \in DOMAIN waq : waq[i].mid = c => ncq_bar[c] >= i + Cardinality(SoOut)
  /\ \A c \in CORE : Done(c, "ncq") => \A i \in DOMAIN waq : waq[i].mid # c
RespDone == \A c \in CORE : bar[c].st = "RESP" => bar[c].cmplt = TARGET /\ ebiu[c] = <<>>

-----------------------------------------------------------------------------
(***************************************************************************)
(* Queues.                                                                 *)
(***************************************************************************)

\* What a queue holds after a transaction has come, and after one has gone.
LEMMA AppendFacts ==
  ASSUME NEW S, NEW s \in Seq(S), NEW m \in S
  PROVE  /\ Append(s, m) \in Seq(S) /\ Append(s, m) # <<>>
         /\ Len(s) \in Nat /\ DOMAIN s = 1 .. Len(s)
         /\ Len(Append(s, m)) = Len(s) + 1 /\ DOMAIN Append(s, m) = 1 .. Len(s) + 1
         /\ \A i \in 1 .. Len(s) : Append(s, m)[i] = s[i]
         /\ Append(s, m)[Len(s) + 1] = m
         /\ s = <<>> <=> Len(s) = 0
OBVIOUS

LEMMA AppendKeeps ==
  ASSUME NEW S, NEW s \in Seq(S), NEW m \in S
  PROVE  Len(Append(s, m)) = Len(s) + 1 /\ \A i \in 1 .. Len(s) : Append(s, m)[i] = s[i]
OBVIOUS

LEMMA SecondJoins ==
  ASSUME NEW S, NEW s \in Seq(S), NEW m \in S, Len(s) = 1
  PROVE  Len(Append(s, m)) = 2 /\ Append(s, m)[1] = s[1]
<1>1. Len(Append(s, m)) = Len(s) + 1 /\ \A i \in 1 .. Len(s) : Append(s, m)[i] = s[i]
  BY AppendKeeps, Zenon
<1>2. 1 \in 1 .. Len(s)
  OBVIOUS
<1> QED
  BY <1>1, <1>2

LEMMA TailFacts ==
  ASSUME NEW S, NEW s \in Seq(S), s # <<>>
  PROVE  /\ Tail(s) \in Seq(S) /\ Head(s) \in S /\ Head(s) = s[1]
         /\ Len(s) \in Nat /\ Len(s) > 0 /\ DOMAIN s = 1 .. Len(s)
         /\ Len(Tail(s)) = Len(s) - 1 /\ DOMAIN Tail(s) = 1 .. Len(s) - 1
         /\ \A i \in 1 .. Len(s) - 1 : Tail(s)[i] = s[i + 1]
         /\ Tail(s) = <<>> <=> Len(s) = 1
<1>1. /\ Tail(s) \in Seq(S) /\ Head(s) \in S /\ Head(s) = s[1]
      /\ Len(s) \in Nat /\ Len(s) > 0 /\ DOMAIN s = 1 .. Len(s)
  OBVIOUS
<1>2. /\ Len(Tail(s)) = Len(s) - 1 /\ DOMAIN Tail(s) = 1 .. Len(s) - 1
      /\ \A i \in 1 .. Len(s) - 1 : Tail(s)[i] = s[i + 1]
  OBVIOUS
<1>3. Tail(s) = <<>> <=> Len(Tail(s)) = 0
  BY <1>1
<1> QED
  BY <1>1, <1>2, <1>3

\* A queue stays linked when the right transaction comes.
LEMMA LinkAppend ==
  ASSUME NEW S, NEW s \in Seq(S), NEW m \in S, NEW op, NEW to,
         Linked(s, op, to), Follows(to, m)
  PROVE  Linked(Append(s, m), op, Opens(m))
<1> DEFINE t == Append(s, m)
<1>1. /\ t # <<>> /\ Len(s) \in Nat /\ Len(t) = Len(s) + 1
      /\ \A i \in 1 .. Len(s) : t[i] = s[i]
      /\ t[Len(s) + 1] = m
      /\ s = <<>> <=> Len(s) = 0
  BY AppendFacts
<1> HIDE DEF t
<1>2. Follows(op, t[1])
  BY <1>1 DEF Linked
<1>3. ASSUME NEW i \in 1 .. Len(t) - 1
      PROVE  Follows(Opens(t[i]), t[i + 1])
  <2>1. CASE i = Len(s)
    <3>1. t[i] = s[Len(s)] /\ t[i + 1] = m /\ s # <<>>
      BY <1>1, <1>3, <2>1
    <3>2. Opens(s[Len(s)]) = to
      BY <3>1 DEF Linked
    <3> QED
      BY <3>1, <3>2
  <2>2. CASE i # Len(s)
    <3>1. i \in 1 .. Len(s) - 1 /\ t[i] = s[i] /\ t[i + 1] = s[i + 1]
      BY <1>1, <1>3, <2>2
    <3> QED
      BY <3>1 DEF Linked
  <2> QED
    BY <2>1, <2>2
<1>4. Opens(m) = Opens(t[Len(t)])
  BY <1>1
<1>5. Linked(t, op, Opens(m))
  BY <1>1, <1>2, <1>3, <1>4 DEF Linked
<1> QED
  BY <1>5 DEF t

LEMMA LinkTail ==
  ASSUME NEW S, NEW s \in Seq(S), s # <<>>, NEW op, NEW to, Linked(s, op, to)
  PROVE  Follows(op, Head(s)) /\ Linked(Tail(s), Opens(Head(s)), to)
<1> DEFINE t == Tail(s)
<1>1. /\ Head(s) = s[1] /\ Len(s) \in Nat /\ Len(s) > 0 /\ Len(t) = Len(s) - 1
      /\ \A i \in 1 .. Len(s) - 1 : t[i] = s[i + 1]
      /\ t = <<>> <=> Len(s) = 1
  BY TailFacts
<1> HIDE DEF t
<1>2. Follows(op, Head(s))
  BY <1>1 DEF Linked
<1>3. t = <<>> => to = Opens(Head(s))
  BY <1>1 DEF Linked
<1>4. t # <<>> => Follows(Opens(Head(s)), t[1]) /\ to = Opens(t[Len(t)])
  <2>1. t # <<>> => 1 \in 1 .. Len(s) - 1 /\ t[1] = s[2] /\ t[Len(t)] = s[Len(s)]
    BY <1>1
  <2> QED
    BY <1>1, <2>1 DEF Linked
<1>5. ASSUME NEW i \in 1 .. Len(t) - 1
      PROVE  Follows(Opens(t[i]), t[i + 1])
  <2>1. i + 1 \in 1 .. Len(s) - 1 /\ t[i] = s[i + 1] /\ t[i + 1] = s[(i + 1) + 1]
    BY <1>1, <1>5
  <2> QED
    BY <2>1 DEF Linked
<1>6. Linked(t, Opens(Head(s)), to)
  BY <1>3, <1>4, <1>5 DEF Linked
<1> QED
  BY <1>2, <1>6 DEF t

\* What a transaction opens.
LEMMA OpensWhat ==
  ASSUME NEW m
  PROVE  /\ m.half \in {0, 2} => Opens(m) = NONE
         /\ OpMsg(m) /\ m.half = 1 => Opens(m) \in {NONE, m.op} /\ (Opens(m) = m.op <=> More(m))
         /\ OpMsg(m) => Opens(m) \in CtcOp \cup {NONE} /\ (Opens(m) # NONE => Opens(m) = m.op)
<1>1. OpMsg(m) => m.op # NONE
  BY BroadcastAssumption DEF OpMsg, CtcOp, KIND
<1> QED
  BY <1>1 DEF Opens, OpMsg

-----------------------------------------------------------------------------
(***************************************************************************)
(* What a step does to the operations.                                     *)
(***************************************************************************)
pipe == <<ar, half, sel, reqq, respq, ac, mask, owed, ctcq, inv>>

\* A transaction of core c that goes on AR.
OfCore(c, m) == IF m.k = "ctc" THEN OpMsg(m) /\ m.op[1] = c ELSE m.half = 0
ArGrows(c, m) ==
  /\ OfCore(c, m) /\ Follows(half[c], m)
  /\ ar' = [ar EXCEPT ![c] = Append(@, m)] /\ half' = [half EXCEPT ![c] = Opens(m)]
  /\ UNCHANGED <<sel, reqq, respq, ac, mask, owed, ctcq, inv>>

\* One that goes elsewhere than to the CTCQ.
ArShrinks(c) ==
  /\ ar[c] # <<>> /\ Head(ar[c]).k # "ctc" /\ ar' = [ar EXCEPT ![c] = Tail(@)]
  /\ UNCHANGED <<half, sel, reqq, respq, ac, mask, owed, ctcq, inv>>

\* Head(ar[c]) goes into the CTCQ as m.
Created(c, m) ==
  /\ ar[c] # <<>> /\ Head(ar[c]).k = "ctc" /\ c \in last_req_sel
  /\ m.k = "ctc" /\ m.op = Head(ar[c]).op /\ m.half = Head(ar[c]).half
  /\ m.id \in 1 .. RESPQ /\ respq[m.id] = {}
  /\ reqq' = Append(reqq, [msg |-> m, todo |-> CORE])
  /\ respq' = [respq EXCEPT ![m.id] = CORE]
  /\ last_req_sel' = LastReqSel(c, m) /\ two_trans_need' = More(m)
  /\ ar' = [ar EXCEPT ![c] = Tail(@)]
  /\ UNCHANGED <<half, ac, mask, owed, ctcq, inv>>

\* Request i goes to core c, and the first n requests leave.
Sent(c, i, n) ==
  /\ NextFor(c, i) /\ n \in {0, 1}
  /\ reqq' \in Seq(Request) /\ Len(reqq') = Len(reqq) - n
  /\ \A j \in 1 .. Len(reqq) - n :
       /\ reqq'[j].msg = reqq[j + n].msg
       /\ reqq'[j].todo = IF j + n = i THEN reqq[i].todo \ {c} ELSE reqq[j + n].todo
  /\ IF n = 1 THEN i = 1 /\ reqq[1].todo = {c} ELSE i = 1 => reqq[1].todo # {c}
  /\ ac' = [ac EXCEPT ![c] = Append(@, reqq[i].msg)]
  /\ mask' = [mask EXCEPT ![c] = More(reqq[i].msg)]
  /\ UNCHANGED <<ar, half, sel, respq, owed, ctcq, inv>>

Snooped(c, e) ==
  /\ ~mask[c] /\ ac' = [ac EXCEPT ![c] = Append(@, Msg("snp", NONE, 0, e))]
  /\ UNCHANGED <<ar, half, sel, reqq, respq, mask, owed, ctcq, inv>>

\* The core takes a transaction from AC.
Obeyed(c) ==
  /\ ac[c] # <<>> /\ Head(ac[c]).k = "ctc"
  /\ IF Waiting(c)
       THEN ctcq' = [ctcq EXCEPT ![c][Len(ctcq[c])].msgs = Append(@, Head(ac[c]))]
       ELSE ctcq' = [ctcq EXCEPT ![c] = Append(@, [msgs |-> <<Head(ac[c])>>, cmplt |-> 0])]
  /\ owed' = [owed EXCEPT ![c] = Append(@, Head(ac[c]))]
  /\ ac' = [ac EXCEPT ![c] = Tail(@)]
  /\ UNCHANGED <<ar, half, sel, reqq, respq, mask, inv>>
Missed(c) ==
  /\ ac[c] # <<>> /\ Head(ac[c]).k = "snp"
  /\ owed' = [owed EXCEPT ![c] = Append(@, Head(ac[c]))]
  /\ ac' = [ac EXCEPT ![c] = Tail(@)]
  /\ UNCHANGED <<ar, half, sel, reqq, respq, mask, ctcq, inv>>

\* The first operation that is not done, i, goes to the IFU or the MMU, and
\* comes back done.
Started(c, i) ==
  /\ ~inv[c] /\ FirstUndone(c, i) /\ Complete(ctcq[c][i])
  /\ inv' = [inv EXCEPT ![c] = TRUE]
  /\ UNCHANGED <<ar, half, sel, reqq, respq, ac, mask, owed, ctcq>>
Carried(c, i) ==
  /\ FirstUndone(c, i) /\ Complete(ctcq[c][i])
  /\ ctcq' = [ctcq EXCEPT ![c][i].cmplt = Len(ctcq[c][i].msgs)]
  /\ inv' = [inv EXCEPT ![c] = FALSE]
  /\ UNCHANGED <<ar, half, sel, reqq, respq, ac, mask, owed>>

\* The core answers an operation, or a snoop.
AnswersCtc(c) ==
  /\ owed[c] # <<>> /\ Head(owed[c]).k = "ctc"
  /\ ctcq[c] # <<>> /\ Head(ctcq[c]).cmplt > 0
  /\ ctcq' = [ctcq EXCEPT ![c] = IF Head(@).cmplt = 1 THEN Tail(@) ELSE [@ EXCEPT ![1].cmplt = 1]]
  /\ respq' = [respq EXCEPT ![Head(owed[c]).id] = @ \ {c}]
  /\ owed' = [owed EXCEPT ![c] = Tail(@)]
  /\ UNCHANGED <<ar, half, sel, reqq, ac, mask, inv>>
AnswersSnoop(c) ==
  /\ owed[c] # <<>> /\ Head(owed[c]).k = "snp"
  /\ owed' = [owed EXCEPT ![c] = Tail(@)]
  /\ UNCHANGED <<ar, half, sel, reqq, respq, ac, mask, ctcq, inv>>

PipeStep ==
  \/ \E c \in CORE :
       \/ \E m \in Message : ArGrows(c, m) \/ Created(c, m)
       \/ ArShrinks(c) \/ \E i \in DOMAIN reqq, n \in {0, 1} : Sent(c, i, n)
       \/ \E e \in ENTRY : Snooped(c, e)
       \/ Obeyed(c) \/ Missed(c)
       \/ \E i \in DOMAIN ctcq[c] : Started(c, i) \/ Carried(c, i)
       \/ AnswersCtc(c) \/ AnswersSnoop(c)
  \/ UNCHANGED pipe

\* The operation that Launched names.
LEMMA LaunchedIs ==
  ASSUME PipeTypes, NEW c \in CORE, \E i \in DOMAIN ctcq[c] : ctcq[c][i].cmplt = 0
  PROVE  FirstUndone(c, Launched(c))
<1> DEFINE T == {i \in DOMAIN ctcq[c] : ctcq[c][i].cmplt = 0}
<1>1. ctcq[c] \in Seq(CtcEntry)
  BY DEF PipeTypes
<1>2. T \subseteq Nat /\ T # {}
  BY <1>1
<1>3. PICK i \in T : \A j \in T : i <= j
  BY <1>2, LeastNat
<1>4. \A j \in 1 .. i - 1 : ctcq[c][j].cmplt # 0
  BY <1>1, <1>3
<1> QED
  BY <1>3, <1>4 DEF FirstUndone, Launched

LEMMA OneFirst ==
  ASSUME PipeTypes, NEW c \in CORE, NEW i, NEW j, FirstUndone(c, i), FirstUndone(c, j)
  PROVE  i = j
<1>1. ctcq[c] \in Seq(CtcEntry)
  BY DEF PipeTypes
<1>2. i \in Nat /\ j \in Nat /\ i > 0 /\ j > 0
  BY <1>1 DEF FirstUndone
<1>3. ~(i < j) /\ ~(j < i)
  BY <1>2 DEF FirstUndone
<1> QED
  BY <1>2, <1>3

\* What the core sends.
LEMMA AskPipe ==
  ASSUME Types, HalfAlone, Ask
  PROVE  PipeStep
<1>1. ASSUME NEW c \in CORE, NEW k \in {"ici", "tlb"}, SendCtc(c, k)
      PROVE  \E m \in Message : ArGrows(c, m)
  <2> DEFINE m == Msg("ctc", <<c, k, left[c][k]>>, 1, 0)
  <2>1. <<c, k, left[c][k]>> \in CtcOp /\ <<c, k, left[c][k]>> \in Op
    BY <1>1, UseType DEF SendCtc, CtcOp, Op, KIND, Types
  <2>2. /\ m \in Message /\ m.k = "ctc" /\ m.op = <<c, k, left[c][k]>>
        /\ m.half = 1
    BY <2>1, MsgType DEF Msg
  <2>3. /\ ar' = [ar EXCEPT ![c] = Append(@, m)]
        /\ half' = [half EXCEPT ![c] = IF More(m) THEN m.op ELSE NONE]
        /\ half[c] = NONE
        /\ UNCHANGED <<sel, reqq, respq, ac, mask, owed, ctcq, inv>>
    BY <1>1, Zenon DEF SendCtc, acs, lsu, ctc
  <2> HIDE DEF m
  <2>4. m.op[1] = c /\ OpMsg(m)
    BY <2>1, <2>2 DEF OpMsg
  <2>5. half' = [half EXCEPT ![c] = Opens(m)]
    BY <2>2, <2>3 DEF Opens
  <2>6. OfCore(c, m) /\ Follows(half[c], m)
    BY <2>2, <2>3, <2>4 DEF OfCore, Follows
  <2>7. ArGrows(c, m)
    BY <2>3, <2>5, <2>6, Zenon DEF ArGrows
  <2> QED
    BY <2>2, <2>7
<1>2. ASSUME NEW c \in CORE, Fetch(c)
      PROVE  \E m \in Message : ArGrows(c, m)
  <2> DEFINE m == Msg("fetch", NONE, 0, 0)
  <2>1. m \in Message /\ m.k = "fetch" /\ m.half = 0
    BY MsgType DEF Msg
  <2>2. /\ ar' = [ar EXCEPT ![c] = Append(@, m)] /\ half[c] = NONE /\ half' = half
        /\ UNCHANGED <<sel, reqq, respq, ac, mask, owed, ctcq, inv>>
    BY <1>2 DEF Fetch, acs, lsu, ctc, ifu_ar_req
  <2> HIDE DEF m
  <2>3. half' = [half EXCEPT ![c] = Opens(m)]
    BY <2>1, <2>2 DEF Opens, Types, ProgramTypes
  <2>4. OfCore(c, m) /\ Follows(half[c], m)
    BY <2>1, <2>2 DEF OfCore, Follows
  <2>5. ArGrows(c, m)
    BY <2>2, <2>3, <2>4, Zenon DEF ArGrows
  <2> QED
    BY <2>1, <2>5
<1>3. ASSUME NEW c \in CORE,
             \/ ChangeFlow(c) \/ Store(c) \/ FenceAw(c)
             \/ \E k \in {"wo", "so"} : NcWrite(c, k)
      PROVE  UNCHANGED pipe
  <2>1. CASE ChangeFlow(c)
    BY <2>1 DEF ChangeFlow, pipe, prog, lsu, acs, ctc
  <2>2. CASE Store(c)
    BY <2>2 DEF Store, pipe, lsu, acs, ctc
  <2>3. CASE FenceAw(c)
    BY <2>3 DEF FenceAw, pipe, lsu, acs, ctc
  <2>4. CASE \E k \in {"wo", "so"} : NcWrite(c, k)
    BY <2>4 DEF NcWrite, pipe, lsu, acs, ctc
  <2> QED
    BY <1>3, <2>1, <2>2, <2>3, <2>4
<1> QED
  BY <1>1, <1>2, <1>3 DEF Ask, PipeStep

LEMMA BarrierStepPipe ==
  ASSUME Types, HalfAlone, BarrierStep
  PROVE  PipeStep
<1>1. ASSUME NEW c \in CORE, FenceAr(c)
      PROVE  \E m \in Message : ArGrows(c, m)
  <2> DEFINE m == Msg("bar", NONE, 0, 0)
  <2>1. m \in Message /\ m.k = "bar" /\ m.half = 0
    BY MsgType DEF Msg
  <2>2. /\ ar' = [ar EXCEPT ![c] = Append(@, m)] /\ half[c] = NONE /\ half' = half
        /\ UNCHANGED <<sel, reqq, respq, ac, mask, owed, ctcq, inv>>
    BY <1>1 DEF FenceAr, acs, lsu, ctc, HalfAlone
  <2> HIDE DEF m
  <2>3. half' = [half EXCEPT ![c] = Opens(m)]
    BY <2>1, <2>2 DEF Opens, Types, ProgramTypes
  <2>4. OfCore(c, m) /\ Follows(half[c], m)
    BY <2>1, <2>2 DEF OfCore, Follows
  <2>5. ArGrows(c, m)
    BY <2>2, <2>3, <2>4, Zenon DEF ArGrows
  <2> QED
    BY <2>1, <2>5
<1>2. ASSUME NEW c \in CORE, ArBar(c)
      PROVE  ArShrinks(c)
  BY <1>2 DEF ArBar, ArShrinks, prog, acs, lsu, ctc
<1>3. ASSUME NEW c \in CORE, AwBar(c)
      PROVE  UNCHANGED pipe
  BY <1>3 DEF AwBar, pipe, prog, acs, lsu, ctc
<1>4. ASSUME NEW c \in CORE, NEW t \in TARGET, BmbGrant(c, t)
      PROVE  UNCHANGED pipe
  <2>1. UNCHANGED <<prog, ifu, lsu, ar, aw, acs, ctc, sab, nc>>
    BY <1>4, Zenon DEF BmbGrant
  <2> QED
    BY <2>1 DEF pipe, prog, acs, lsu, ctc
<1>5. ASSUME NEW c \in CORE, BarDone(c) \/ BarResp(c)
      PROVE  UNCHANGED pipe
  BY <1>5 DEF BarDone, BarResp, pipe, prog, acs, lsu, ctc
<1> QED
  BY <1>1, <1>2, <1>3, <1>4, <1>5 DEF BarrierStep, PipeStep

\* The CTC queue takes a transaction under an id that is free.
LEMMA CreateMeans ==
  ASSUME Types, PipeTypes, Kinds, NEW c \in CORE, CtcCreate(c)
  PROVE  \E m \in Message : Created(c, m)
<1> DEFINE id == respq_create_ptr
           h == Head(ar[c])
           m == [h EXCEPT !.id = id]
<1>1. id \in RespqFree
  <2>1. RespqFree \subseteq Nat /\ RespqFree # {}
    BY DEF CtcCreate, RespqFree
  <2> QED
    BY <2>1, LeastNat DEF respq_create_ptr
<1>2. id \in 1 .. RESPQ /\ respq[id] = {}
  BY <1>1, BroadcastAssumption DEF RespqFree
<1>3. /\ ar[c] # <<>> /\ h.k = "ctc" /\ c \in last_req_sel
      /\ reqq' = Append(reqq, [msg |-> m, todo |-> CORE])
      /\ respq' = [respq EXCEPT ![m.id] = CORE]
      /\ last_req_sel' = LastReqSel(c, m) /\ two_trans_need' = More(m)
      /\ ar' = [ar EXCEPT ![c] = Tail(@)]
      /\ UNCHANGED <<half, ac, mask, owed, ctcq, inv>>
  BY Zenon DEF CtcCreate, prog, acs, lsu
<1>4. h \in Message
  BY <1>3 DEF Types, ProgramTypes
<1>5. m \in Message /\ m.k = "ctc" /\ m.op = h.op /\ m.half = h.half /\ m.id = id
  <2>1. id \in Nat /\ h.k = "ctc"
    BY <1>2, <1>3
  <2> QED
    BY <1>4, <2>1 DEF Message
<1> HIDE DEF m, id
<1>6. Created(c, m)
  BY <1>2, <1>3, <1>5 DEF Created
<1> QED
  BY <1>5, <1>6

\* A core takes a request, and a request that all have taken leaves.
LEMMA SendMeans ==
  ASSUME Types, PipeTypes, InOrder, NEW c \in CORE, AcCtc(c)
  PROVE  \E i \in DOMAIN reqq, n \in {0, 1} : Sent(c, i, n)
<1>1. PICK i \in DOMAIN reqq :
        /\ c \in reqq[i].todo /\ \A j \in 1 .. i - 1 : c \notin reqq[j].todo
        /\ ac' = [ac EXCEPT ![c] = Append(@, reqq[i].msg)]
        /\ mask' = [mask EXCEPT ![c] = Mask(reqq[i].msg)]
        /\ reqq' = RemoveTaken([reqq EXCEPT ![i].todo = @ \ {c}])
  BY DEF AcCtc
<1>2. UNCHANGED <<ar, half, sel, respq, owed, ctcq, inv>>
  BY DEF AcCtc, prog, lsu
<1>3. reqq \in Seq(Request) /\ Len(reqq) \in Nat /\ DOMAIN reqq = 1 .. Len(reqq)
  BY DEF PipeTypes
<1> DEFINE q == [reqq EXCEPT ![i].todo = @ \ {c}]
           n == IF q[1].todo = {} THEN 1 ELSE 0
<1>4. /\ q \in Seq(Request) /\ Len(q) = Len(reqq) /\ Len(reqq) > 0
      /\ \A j \in 1 .. Len(reqq) :
           /\ q[j].msg = reqq[j].msg
           /\ q[j].todo = IF j = i THEN reqq[i].todo \ {c} ELSE reqq[j].todo
  <2> DEFINE r == [reqq[i] EXCEPT !.todo = @ \ {c}]
  <2>1. reqq[i] \in Request
    BY <1>3
  <2>2. r \in Request /\ r.msg = reqq[i].msg /\ r.todo = reqq[i].todo \ {c}
    BY <2>1 DEF Request
  <2>3. q = [reqq EXCEPT ![i] = r]
    OBVIOUS
  <2>4. i \in 1 .. Len(reqq)
    BY <1>3
  <2> HIDE DEF r, q
  <2>5. \A j \in 1 .. Len(reqq) : q[j] = IF j = i THEN r ELSE reqq[j]
    BY <1>3, <2>3
  <2>6. q \in Seq(Request) /\ Len(q) = Len(reqq)
    BY <1>3, <2>2, <2>3
  <2>7. Len(reqq) > 0
    BY <1>3, <2>4
  <2>8. \A j \in 1 .. Len(reqq) :
           /\ q[j].msg = reqq[j].msg
           /\ q[j].todo = IF j = i THEN reqq[i].todo \ {c} ELSE reqq[j].todo
    BY <2>2, <2>5
  <2> QED
    BY <2>6, <2>7, <2>8
<1>5. reqq' = IF q[1].todo = {} THEN Tail(q) ELSE q
  <2>1. q # <<>> /\ Head(q) = q[1]
    BY <1>4
  <2> QED
    BY <1>1, <2>1 DEF RemoveTaken
<1> HIDE DEF q
<1>6. /\ reqq' \in Seq(Request) /\ Len(reqq') = Len(reqq) - n
      /\ \A j \in 1 .. Len(reqq) - n : reqq'[j] = q[j + n]
  BY <1>3, <1>4, <1>5
<1>7. IF n = 1 THEN i = 1 /\ reqq[1].todo = {c} ELSE i = 1 => reqq[1].todo # {c}
  <2>1. /\ 1 \in DOMAIN reqq /\ reqq[1].todo # {}
        /\ q[1].todo = IF 1 = i THEN reqq[i].todo \ {c} ELSE reqq[1].todo
    <3>1. 1 \in 1 .. Len(reqq)
      BY <1>3, <1>4
    <3> QED
      BY <1>3, <1>4, <3>1 DEF InOrder
  <2>2. CASE i = 1
    <3>1. c \in reqq[1].todo /\ q[1].todo = reqq[1].todo \ {c}
      BY <1>1, <2>1, <2>2
    <3>2. q[1].todo = {} <=> reqq[1].todo = {c}
      BY <3>1
    <3> QED
      BY <2>2, <3>2
  <2>3. CASE i # 1
    BY <2>1, <2>3
  <2> QED
    BY <2>2, <2>3
<1>8. n \in {0, 1}
  OBVIOUS
<1> HIDE DEF n
<1>9. \A j \in 1 .. Len(reqq) - n :
       /\ reqq'[j].msg = reqq[j + n].msg
       /\ reqq'[j].todo = IF j + n = i THEN reqq[i].todo \ {c} ELSE reqq[j + n].todo
  <2> TAKE j \in 1 .. Len(reqq) - n
  <2>1. reqq'[j] = q[j + n] /\ j + n \in 1 .. Len(reqq)
    BY <1>3, <1>6, <1>8
  <2> QED
    BY <1>4, <2>1
<1>10. NextFor(c, i)
  BY <1>1 DEF NextFor
<1>11. Sent(c, i, n)
  BY <1>1, <1>2, <1>6, <1>7, <1>8, <1>9, <1>10 DEF Sent, Mask
<1> QED
  BY <1>8, <1>11

LEMMA CtcStepPipe ==
  ASSUME Types, PipeInv, CtcStep
  PROVE  PipeStep
<1> USE DEF PipeInv
<1>1. ASSUME NEW c \in CORE, SendSecond(c)
      PROVE  \E m \in Message : ArGrows(c, m)
  <2> DEFINE m == Msg("ctc", half[c], 2, 0)
  <2>1. half[c] \in CtcOp /\ half[c][1] = c /\ half[c] \in Op \cup {NONE} /\ half[c] # NONE
    BY <1>1 DEF SendSecond, Kinds, Types, ProgramTypes
  <2>2. m \in Message /\ m.k = "ctc" /\ m.op = half[c] /\ m.half = 2
    BY <2>1, MsgType DEF Msg
  <2>3. /\ ar' = [ar EXCEPT ![c] = Append(@, m)] /\ half' = [half EXCEPT ![c] = NONE]
        /\ UNCHANGED <<sel, reqq, respq, ac, mask, owed, ctcq, inv>>
    BY <1>1, Zenon DEF SendSecond, acs, lsu, ctc
  <2> HIDE DEF m
  <2>4. OfCore(c, m) /\ Follows(half[c], m)
    BY <2>1, <2>2 DEF OfCore, Follows, OpMsg
  <2>5. half' = [half EXCEPT ![c] = Opens(m)]
    BY <2>2, <2>3 DEF Opens
  <2>6. ArGrows(c, m)
    BY <2>3, <2>4, <2>5, Zenon DEF ArGrows
  <2> QED
    BY <2>2, <2>6
<1>2. ASSUME NEW c \in CORE, CtcCreate(c)
      PROVE  \E m \in Message : Created(c, m)
  BY <1>2, CreateMeans
<1>3. ASSUME NEW c \in CORE, AcCtc(c)
      PROVE  \E i \in DOMAIN reqq, n \in {0, 1} : Sent(c, i, n)
  BY <1>3, SendMeans
<1>4. ASSUME CtcBar \/ CtcEmpty \/ CtcCmplt
      PROVE  UNCHANGED pipe
  <2>1. UNCHANGED <<prog, lsu, ar, acs, sel, reqq, respq>>
    BY <1>4, Zenon DEF CtcBar, CtcEmpty, CtcCmplt
  <2> QED
    BY <2>1 DEF pipe, prog, acs, lsu
<1> QED
  BY <1>1, <1>2, <1>3, <1>4 DEF CtcStep, PipeStep

LEMMA SabStepPipe ==
  ASSUME Types, SabStep
  PROVE  PipeStep
<1>1. ASSUME NEW c \in CORE, SabFetch(c)
      PROVE  ArShrinks(c)
  <2>1. /\ ar[c] # <<>> /\ Head(ar[c]).k = "fetch" /\ ar' = [ar EXCEPT ![c] = Tail(@)]
        /\ UNCHANGED <<prog, lsu, acs, ctc>>
    BY <1>1 DEF SabFetch
  <2> QED
    BY <2>1 DEF ArShrinks, prog, acs, lsu, ctc
<1>2. ASSUME NEW c \in CORE, SabStore(c)
      PROVE  UNCHANGED pipe
  <2>1. UNCHANGED <<prog, lsu, ar, acs, ctc>>
    BY <1>2 DEF SabStore
  <2> QED
    BY <2>1 DEF pipe, prog, acs, lsu, ctc
<1>3. ASSUME NEW c \in CORE, NEW e \in ENTRY, AcSnoop(c, e)
      PROVE  Snooped(c, e)
  <2>1. /\ ~mask[c] /\ ac' = [ac EXCEPT ![c] = Append(@, Msg("snp", NONE, 0, e))]
        /\ UNCHANGED <<prog, lsu, ar, mask, owed, ctc>>
    BY <1>3, Zenon DEF AcSnoop
  <2> QED
    BY <2>1 DEF Snooped, prog, lsu, ctc
<1>4. ASSUME NEW c \in CORE, CrSnoop(c)
      PROVE  AnswersSnoop(c)
  <2>1. /\ owed[c] # <<>> /\ Head(owed[c]).k = "snp" /\ owed' = [owed EXCEPT ![c] = Tail(@)]
        /\ UNCHANGED <<prog, lsu, ar, ac, mask, ctc>>
    BY <1>4, Zenon DEF CrSnoop
  <2> QED
    BY <2>1 DEF AnswersSnoop, prog, lsu, ctc
<1>5. ASSUME SabBar \/ \E e \in ENTRY : SabStoreDone(e) \/ SabFetchDone(e) \/ SabBarDone(e)
      PROVE  UNCHANGED pipe
  <2>1. UNCHANGED <<prog, lsu, ar, acs, ctc>>
    BY <1>5, Zenon DEF SabBar, SabStoreDone, SabFetchDone, SabBarDone
  <2> QED
    BY <2>1 DEF pipe, prog, acs, lsu, ctc
<1> QED
  BY <1>1, <1>2, <1>3, <1>4, <1>5 DEF SabStep, PipeStep

LEMMA NcStepPipe ==
  ASSUME NcStep
  PROVE  UNCHANGED pipe
<1>1. UNCHANGED <<prog, lsu, ar, acs, ctc>>
  BY Zenon DEF NcStep, NcqCreate, NcqBarDone, MemDone, NcqBar, EbiuTake
<1> QED
  BY <1>1 DEF pipe, prog, acs, lsu, ctc

LEMMA ObeyStepPipe ==
  ASSUME Types, PipeInv, ObeyStep
  PROVE  PipeStep
<1> USE DEF PipeInv
<1>1. ASSUME NEW c \in CORE, AcTakeCtc(c)
      PROVE  Obeyed(c)
  <2>1. /\ ac[c] # <<>> /\ Head(ac[c]).k = "ctc"
        /\ IF Waiting(c)
             THEN ctcq' = [ctcq EXCEPT ![c][Len(ctcq[c])].msgs = Append(@, Head(ac[c]))]
             ELSE ctcq' = [ctcq EXCEPT ![c] = Append(@, [msgs |-> <<Head(ac[c])>>, cmplt |-> 0])]
        /\ owed' = [owed EXCEPT ![c] = Append(@, Head(ac[c]))]
        /\ ac' = [ac EXCEPT ![c] = Tail(@)]
        /\ UNCHANGED <<prog, inv, ar, mask, ctc>>
    BY <1>1, Zenon DEF AcTakeCtc
  <2>2. UNCHANGED <<ar, half, sel, reqq, respq, mask, inv>>
    BY <2>1 DEF prog, ctc
  <2> QED
    BY <2>1, <2>2, Zenon DEF Obeyed
<1>2. ASSUME NEW c \in CORE, AcTakeSnoop(c)
      PROVE  Missed(c)
  <2>1. /\ ac[c] # <<>> /\ Head(ac[c]).k = "snp"
        /\ owed' = [owed EXCEPT ![c] = Append(@, Head(ac[c]))]
        /\ ac' = [ac EXCEPT ![c] = Tail(@)]
        /\ UNCHANGED <<prog, lsu, ar, mask, ctc>>
    BY <1>2, Zenon DEF AcTakeSnoop
  <2> QED
    BY <2>1 DEF Missed, prog, lsu, ctc
<1>3. ASSUME NEW c \in CORE, Launch(c)
      PROVE  \E i \in DOMAIN ctcq[c] : Started(c, i)
  <2>1. FirstUndone(c, Launched(c))
    BY <1>3, LaunchedIs DEF Launch
  <2>2. Started(c, Launched(c))
    BY <1>3, <2>1 DEF Launch, Started, prog, acs, ctc
  <2> QED
    BY <2>1, <2>2 DEF FirstUndone
<1>4. ASSUME NEW c \in CORE, CtcInv(c)
      PROVE  UNCHANGED pipe
  BY <1>4 DEF CtcInv, pipe, prog, acs, lsu, ctc
<1>5. ASSUME NEW c \in CORE, InvDone(c)
      PROVE  \E i \in DOMAIN ctcq[c] : Carried(c, i)
  <2>1. /\ inv[c] /\ inv' = [inv EXCEPT ![c] = FALSE]
        /\ ctcq' = [ctcq EXCEPT ![c][Launched(c)].cmplt = Len(ctcq[c][Launched(c)].msgs)]
        /\ UNCHANGED <<prog, ar, acs, ctc>>
    BY <1>5, Zenon DEF InvDone
  <2>2. PICK i \in DOMAIN ctcq[c] : FirstUndone(c, i) /\ Complete(ctcq[c][i])
    BY <2>1 DEF AtWork
  <2>3. FirstUndone(c, Launched(c))
    BY <2>2, LaunchedIs DEF FirstUndone
  <2>4. i = Launched(c)
    BY <2>2, <2>3, OneFirst
  <2>5. UNCHANGED <<ar, half, sel, reqq, respq, ac, mask, owed>>
    BY <2>1 DEF prog, acs, ctc
  <2>6. Carried(c, i)
    BY <2>1, <2>2, <2>4, <2>5, Zenon DEF Carried
  <2> QED
    BY <2>6
<1>6. ASSUME NEW c \in CORE, CrCtc(c)
      PROVE  AnswersCtc(c)
  <2>1. /\ owed[c] # <<>> /\ Head(owed[c]).k = "ctc"
        /\ ctcq[c] # <<>> /\ Head(ctcq[c]).cmplt > 0
        /\ ctcq' = [ctcq EXCEPT ![c] = IF Head(@).cmplt = 1 THEN Tail(@)
                                       ELSE [@ EXCEPT ![1].cmplt = 1]]
        /\ respq' = [respq EXCEPT ![Head(owed[c]).id] = @ \ {c}]
        /\ owed' = [owed EXCEPT ![c] = Tail(@)]
        /\ UNCHANGED <<prog, inv, ar, ac, mask, sel, reqq>>
    BY <1>6, Zenon DEF CrCtc
  <2>2. UNCHANGED <<ar, half, sel, reqq, ac, mask, inv>>
    BY <2>1 DEF prog
  <2> QED
    BY <2>1, <2>2, Zenon DEF AnswersCtc
<1> QED
  BY <1>1, <1>2, <1>3, <1>4, <1>5, <1>6 DEF ObeyStep, PipeStep

LEMMA NextPipe ==
  ASSUME Types, PipeInv, HalfAlone, [Next]_vars
  PROVE  PipeStep
<1>1. CASE UNCHANGED vars
  <2>1. UNCHANGED pipe
    BY <1>1 DEF vars, pipe, prog, acs, lsu, ctc
  <2> QED
    BY <2>1 DEF PipeStep
<1>2. CASE Next
  <2>1. Ask \/ BarrierStep \/ CtcStep \/ SabStep \/ NcStep \/ ObeyStep
    BY <1>2, NextSteps
  <2>2. NcStep => PipeStep
    BY NcStepPipe DEF PipeStep
  <2> QED
    BY <2>1, <2>2, AskPipe, BarrierStepPipe, CtcStepPipe, SabStepPipe, ObeyStepPipe
<1> QED
  BY <1>1, <1>2

\* The types of the queues.
LEMMA ToAc ==
  ASSUME NEW m \in Message, m.k = "ctc"
  PROVE  m \in AcMessage
BY DEF Message, AcMessage

LEMMA PipeTypesStep ==
  ASSUME Types, PipeInv, PipeStep
  PROVE  PipeTypes'
<1> USE DEF PipeInv
<1>1. ASSUME NEW c \in CORE,
             \/ \E m \in Message : ArGrows(c, m)
             \/ ArShrinks(c)
      PROVE  PipeTypes'
  BY <1>1 DEF ArGrows, ArShrinks, PipeTypes
<1>2. ASSUME NEW c \in CORE, NEW m \in Message, Created(c, m)
      PROVE  PipeTypes'
  <2>1. /\ reqq' = Append(reqq, [msg |-> m, todo |-> CORE])
        /\ respq' = [respq EXCEPT ![m.id] = CORE]
        /\ UNCHANGED <<ac, mask, owed, ctcq, inv>>
    BY <1>2 DEF Created
  <2>2. [msg |-> m, todo |-> CORE] \in Request
    BY DEF Request
  <2>3. reqq' \in Seq(Request)
    BY <2>1, <2>2 DEF PipeTypes
  <2> QED
    BY <2>1, <2>3 DEF PipeTypes
<1>3. ASSUME NEW c \in CORE, NEW i \in DOMAIN reqq, NEW n \in {0, 1}, Sent(c, i, n)
      PROVE  PipeTypes'
  <2>1. /\ reqq' \in Seq(Request)
        /\ ac' = [ac EXCEPT ![c] = Append(@, reqq[i].msg)]
        /\ mask' = [mask EXCEPT ![c] = More(reqq[i].msg)]
        /\ UNCHANGED <<respq, owed, ctcq, inv>>
    BY <1>3 DEF Sent
  <2>2. reqq[i].msg \in Message /\ reqq[i].msg.k = "ctc"
    <3>1. reqq[i] \in Request
      BY DEF PipeTypes
    <3> QED
      BY <3>1 DEF Kinds, OpMsg, Request
  <2>3. reqq[i].msg \in AcMessage
    BY <2>2, ToAc
  <2>4. More(reqq[i].msg) \in BOOLEAN
    BY DEF More
  <2>5. ac' \in [CORE -> Seq(AcMessage)] /\ mask' \in [CORE -> BOOLEAN]
    BY <2>1, <2>3, <2>4 DEF PipeTypes
  <2> QED
    BY <2>1, <2>5 DEF PipeTypes
<1>4. ASSUME NEW c \in CORE, NEW e \in ENTRY, Snooped(c, e)
      PROVE  PipeTypes'
  <2>1. Msg("snp", NONE, 0, e) \in AcMessage
    BY DEF Msg, AcMessage
  <2>2. /\ ac' = [ac EXCEPT ![c] = Append(@, Msg("snp", NONE, 0, e))]
        /\ UNCHANGED <<reqq, respq, mask, owed, ctcq, inv>>
    BY <1>4 DEF Snooped
  <2>3. ac' \in [CORE -> Seq(AcMessage)]
    BY <2>1, <2>2 DEF PipeTypes
  <2> QED
    BY <2>2, <2>3 DEF PipeTypes
<1>5. ASSUME NEW c \in CORE, Obeyed(c) \/ Missed(c)
      PROVE  PipeTypes'
  <2> DEFINE h == Head(ac[c])
  <2>1. /\ ac[c] # <<>> /\ owed' = [owed EXCEPT ![c] = Append(@, h)]
        /\ ac' = [ac EXCEPT ![c] = Tail(@)]
        /\ UNCHANGED <<reqq, respq, mask, inv>>
    BY <1>5, Zenon DEF Obeyed, Missed
  <2>2. h \in AcMessage
    BY <2>1 DEF PipeTypes
  <2>3. ac' \in [CORE -> Seq(AcMessage)] /\ owed' \in [CORE -> Seq(AcMessage)]
    <3> HIDE DEF h
    <3> QED
      BY <2>1, <2>2 DEF PipeTypes
  <2>4. ctcq' \in [CORE -> Seq(CtcEntry)]
    <3>1. CASE Obeyed(c) /\ Waiting(c)
      <4> DEFINE n == Len(ctcq[c])
                 q == ctcq[c][n]
                 r == [q EXCEPT !.msgs = Append(@, h)]
      <4>1. ctcq' = [ctcq EXCEPT ![c] = [@ EXCEPT ![n] = r]]
        BY <3>1, Zenon DEF Obeyed
      <4>2. n \in DOMAIN ctcq[c] /\ q \in CtcEntry
        BY <3>1 DEF PipeTypes, Waiting
      <4>3. Append(q.msgs, h) \in Seq(AcMessage)
        <5> HIDE DEF h, q
        <5> QED
          BY <2>2, <4>2 DEF CtcEntry
      <4>4. r \in CtcEntry
        BY <4>2, <4>3, Zenon DEF CtcEntry
      <4> HIDE DEF n, r
      <4> QED
        BY <4>1, <4>2, <4>4 DEF PipeTypes
    <3>2. CASE Obeyed(c) /\ ~Waiting(c)
      <4>1. ctcq' = [ctcq EXCEPT ![c] = Append(@, [msgs |-> <<h>>, cmplt |-> 0])]
        BY <3>2 DEF Obeyed
      <4>2. [msgs |-> <<h>>, cmplt |-> 0] \in CtcEntry
        BY <2>2 DEF CtcEntry
      <4> HIDE DEF h
      <4> QED
        BY <4>1, <4>2 DEF PipeTypes
    <3>3. CASE Missed(c)
      BY <3>3 DEF Missed, PipeTypes
    <3> QED
      BY <1>5, <3>1, <3>2, <3>3
  <2> QED
    BY <2>1, <2>3, <2>4 DEF PipeTypes
<1>6. ASSUME NEW c \in CORE, NEW i \in DOMAIN ctcq[c], Started(c, i)
      PROVE  PipeTypes'
  BY <1>6 DEF Started, PipeTypes
<1>7. ASSUME NEW c \in CORE, NEW i \in DOMAIN ctcq[c], Carried(c, i)
      PROVE  PipeTypes'
  <2> DEFINE q == ctcq[c][i]
             r == [q EXCEPT !.cmplt = Len(q.msgs)]
  <2>1. ctcq' = [ctcq EXCEPT ![c] = [@ EXCEPT ![i] = r]]
    BY <1>7, Zenon DEF Carried
  <2>2. q \in CtcEntry
    BY DEF PipeTypes
  <2>3. Len(q.msgs) \in Nat
    <3> HIDE DEF q
    <3> QED
      BY <2>2 DEF CtcEntry
  <2>4. r \in CtcEntry
    BY <2>2, <2>3, Zenon DEF CtcEntry
  <2> HIDE DEF r
  <2>5. ctcq' \in [CORE -> Seq(CtcEntry)]
    BY <2>1, <2>4 DEF PipeTypes
  <2>6. inv' \in [CORE -> BOOLEAN] /\ UNCHANGED <<reqq, respq, ac, mask, owed>>
    BY <1>7 DEF Carried, PipeTypes
  <2> QED
    BY <2>5, <2>6 DEF PipeTypes
<1>8. ASSUME NEW c \in CORE, AnswersCtc(c)
      PROVE  PipeTypes'
  <2> DEFINE q == ctcq[c][1]
             r == [q EXCEPT !.cmplt = 1]
             t == IF Head(ctcq[c]).cmplt = 1 THEN Tail(ctcq[c]) ELSE [ctcq[c] EXCEPT ![1] = r]
  <2>1. /\ owed[c] # <<>> /\ ctcq[c] # <<>> /\ ctcq' = [ctcq EXCEPT ![c] = t]
        /\ respq' = [respq EXCEPT ![Head(owed[c]).id] = @ \ {c}]
        /\ owed' = [owed EXCEPT ![c] = Tail(@)]
        /\ UNCHANGED <<reqq, ac, mask, inv>>
    BY <1>8, Zenon DEF AnswersCtc
  <2>2. 1 \in DOMAIN ctcq[c] /\ q \in CtcEntry /\ ctcq[c] \in Seq(CtcEntry)
    BY <2>1 DEF PipeTypes
  <2>3. r \in CtcEntry
    BY <2>2, Zenon DEF CtcEntry
  <2>4. t \in Seq(CtcEntry)
    <3> HIDE DEF r
    <3> QED
      BY <2>1, <2>2, <2>3
  <2> HIDE DEF t
  <2>5. ctcq' \in [CORE -> Seq(CtcEntry)]
    BY <2>1, <2>4 DEF PipeTypes
  <2>6. respq' \in [1 .. RESPQ -> SUBSET CORE] /\ owed' \in [CORE -> Seq(AcMessage)]
    <3> DEFINE x == Head(owed[c]).id
    <3>1. respq' = [respq EXCEPT ![x] = respq[x] \ {c}] /\ owed' = [owed EXCEPT ![c] = Tail(@)]
      BY <2>1
    <3>2. respq \in [1 .. RESPQ -> SUBSET CORE] /\ owed \in [CORE -> Seq(AcMessage)]
      BY DEF PipeTypes
    <3> HIDE DEF x
    <3>3. respq' \in [1 .. RESPQ -> SUBSET CORE]
      BY <3>1, <3>2
    <3> QED
      BY <2>1, <3>1, <3>2, <3>3
  <2> QED
    BY <2>1, <2>5, <2>6 DEF PipeTypes
<1>9. ASSUME NEW c \in CORE, AnswersSnoop(c)
      PROVE  PipeTypes'
  BY <1>9 DEF AnswersSnoop, PipeTypes
<1>10. CASE UNCHANGED pipe
  BY <1>10 DEF pipe, PipeTypes
<1> QED
  BY <1>1, <1>2, <1>3, <1>4, <1>5, <1>6, <1>7, <1>8, <1>9, <1>10 DEF PipeStep

\* What a step leaves of the queue of a core.
Others(c) == \A d \in CORE \ {c} : ctcq'[d] = ctcq[d]
Joined(c, h) ==
  LET n == Len(ctcq[c])
  IN  /\ n > 0 /\ ~Complete(ctcq[c][n]) /\ Len(ctcq'[c]) = n
      /\ \A i \in 1 .. n - 1 : ctcq'[c][i] = ctcq[c][i]
      /\ ctcq'[c][n].msgs = Append(ctcq[c][n].msgs, h)
      /\ ctcq'[c][n].cmplt = ctcq[c][n].cmplt
Entered(c, h) ==
  LET n == Len(ctcq[c])
  IN  /\ n > 0 => Complete(ctcq[c][n])
      /\ Len(ctcq'[c]) = n + 1
      /\ \A i \in 1 .. n : ctcq'[c][i] = ctcq[c][i]
      /\ ctcq'[c][n + 1].msgs = <<h>> /\ ctcq'[c][n + 1].cmplt = 0
Counted(c, i, k) ==
  /\ i \in 1 .. Len(ctcq[c]) /\ Len(ctcq'[c]) = Len(ctcq[c])
  /\ \A j \in 1 .. Len(ctcq[c]) : /\ j # i => ctcq'[c][j] = ctcq[c][j]
                                  /\ ctcq'[c][j].msgs = ctcq[c][j].msgs
  /\ ctcq'[c][i].cmplt = k
Left(c) ==
  /\ Len(ctcq[c]) > 0 /\ ctcq[c][1].cmplt = 1 /\ Len(ctcq'[c]) = Len(ctcq[c]) - 1
  /\ \A i \in 1 .. Len(ctcq[c]) - 1 : ctcq'[c][i] = ctcq[c][i + 1]

LEMMA QueueTypes ==
  ASSUME PipeTypes, NEW c \in CORE
  PROVE  /\ ctcq[c] \in Seq(CtcEntry) /\ Len(ctcq[c]) \in Nat
         /\ DOMAIN ctcq[c] = 1 .. Len(ctcq[c])
         /\ \A i \in 1 .. Len(ctcq[c]) :
              /\ ctcq[c][i] \in CtcEntry /\ ctcq[c][i].cmplt \in Nat
              /\ ctcq[c][i].msgs \in Seq(AcMessage) /\ Len(ctcq[c][i].msgs) \in Nat
<1>1. /\ ctcq[c] \in Seq(CtcEntry) /\ Len(ctcq[c]) \in Nat
      /\ DOMAIN ctcq[c] = 1 .. Len(ctcq[c])
  BY DEF PipeTypes
<1>2. ASSUME NEW i \in 1 .. Len(ctcq[c])
      PROVE  /\ ctcq[c][i] \in CtcEntry /\ ctcq[c][i].cmplt \in Nat
             /\ ctcq[c][i].msgs \in Seq(AcMessage) /\ Len(ctcq[c][i].msgs) \in Nat
  <2>1. ctcq[c][i] \in CtcEntry
    BY <1>1
  <2>2. ctcq[c][i].cmplt \in Nat /\ ctcq[c][i].msgs \in Seq(AcMessage)
    BY <2>1 DEF CtcEntry
  <2> QED
    BY <2>1, <2>2
<1> QED
  BY <1>1, <1>2

LEMMA ObeyedMeans ==
  ASSUME PipeTypes, NEW c \in CORE, Obeyed(c)
  PROVE  Others(c) /\ (Joined(c, Head(ac[c])) \/ Entered(c, Head(ac[c])))
<1> DEFINE h == Head(ac[c])
           n == Len(ctcq[c])
<1>1. /\ ctcq \in [CORE -> Seq(CtcEntry)] /\ ctcq[c] \in Seq(CtcEntry) /\ n \in Nat
      /\ ctcq[c] # <<>> <=> n > 0
  BY DEF PipeTypes
<1>2. CASE Waiting(c)
  <2> DEFINE q == ctcq[c][n]
             r == [q EXCEPT !.msgs = Append(@, h)]
  <2>1. ctcq' = [ctcq EXCEPT ![c] = [@ EXCEPT ![n] = r]]
    BY <1>2, Zenon DEF Obeyed
  <2>2. n > 0 /\ ~Complete(q) /\ q \in CtcEntry
    BY <1>1, <1>2 DEF Waiting
  <2>3. r.msgs = Append(q.msgs, h) /\ r.cmplt = q.cmplt
    BY <2>2, Zenon DEF CtcEntry
  <2> HIDE DEF r
  <2>4. ctcq'[c] = [ctcq[c] EXCEPT ![n] = r] /\ Others(c)
    BY <1>1, <2>1 DEF Others
  <2>5. /\ Len(ctcq'[c]) = n /\ ctcq'[c][n] = r
        /\ \A i \in 1 .. n - 1 : ctcq'[c][i] = ctcq[c][i]
    BY <1>1, <2>2, <2>4
  <2> QED
    BY <2>2, <2>3, <2>4, <2>5 DEF Joined
<1>3. CASE ~Waiting(c)
  <2> DEFINE r == [msgs |-> <<h>>, cmplt |-> 0]
  <2>1. ctcq' = [ctcq EXCEPT ![c] = Append(@, r)]
    BY <1>3 DEF Obeyed
  <2>2. r.msgs = <<h>> /\ r.cmplt = 0
    OBVIOUS
  <2>3. n > 0 => Complete(ctcq[c][n])
    BY <1>1, <1>3 DEF Waiting
  <2> HIDE DEF r
  <2>4. ctcq'[c] = Append(ctcq[c], r) /\ Others(c)
    BY <1>1, <2>1 DEF Others
  <2>5. /\ Len(ctcq'[c]) = n + 1 /\ ctcq'[c][n + 1] = r
        /\ \A i \in 1 .. n : ctcq'[c][i] = ctcq[c][i]
    BY <1>1, <2>4
  <2> QED
    BY <2>2, <2>3, <2>4, <2>5 DEF Entered
<1> QED
  BY <1>2, <1>3

LEMMA CarriedMeans ==
  ASSUME PipeTypes, NEW c \in CORE, NEW i \in DOMAIN ctcq[c], Carried(c, i)
  PROVE  Others(c) /\ Counted(c, i, Len(ctcq[c][i].msgs))
<1> DEFINE q == ctcq[c][i]
           r == [q EXCEPT !.cmplt = Len(q.msgs)]
<1>1. /\ ctcq \in [CORE -> Seq(CtcEntry)] /\ ctcq[c] \in Seq(CtcEntry)
      /\ i \in 1 .. Len(ctcq[c])
  BY DEF PipeTypes
<1>2. ctcq' = [ctcq EXCEPT ![c] = [@ EXCEPT ![i] = r]]
  BY Zenon DEF Carried
<1>3. q \in CtcEntry
  BY <1>1
<1>4. r.msgs = q.msgs /\ r.cmplt = Len(q.msgs)
  BY <1>3, Zenon DEF CtcEntry
<1> HIDE DEF r
<1>5. ctcq'[c] = [ctcq[c] EXCEPT ![i] = r] /\ Others(c)
  BY <1>1, <1>2 DEF Others
<1>6. /\ Len(ctcq'[c]) = Len(ctcq[c]) /\ ctcq'[c][i] = r
      /\ \A j \in 1 .. Len(ctcq[c]) : j # i => ctcq'[c][j] = ctcq[c][j]
  BY <1>1, <1>5
<1> QED
  BY <1>1, <1>4, <1>5, <1>6 DEF Counted

LEMMA AnswersMeans ==
  ASSUME PipeTypes, NEW c \in CORE, AnswersCtc(c)
  PROVE  Others(c) /\ ((ctcq[c][1].cmplt > 1 /\ Counted(c, 1, 1)) \/ Left(c))
<1> DEFINE q == ctcq[c][1]
           r == [q EXCEPT !.cmplt = 1]
           t == IF Head(ctcq[c]).cmplt = 1 THEN Tail(ctcq[c]) ELSE [ctcq[c] EXCEPT ![1] = r]
<1>1. /\ ctcq \in [CORE -> Seq(CtcEntry)] /\ ctcq[c] \in Seq(CtcEntry)
      /\ Len(ctcq[c]) \in Nat
  BY DEF PipeTypes
<1>2. ctcq' = [ctcq EXCEPT ![c] = t] /\ ctcq[c] # <<>> /\ Head(ctcq[c]).cmplt > 0
  BY Zenon DEF AnswersCtc
<1>3. Len(ctcq[c]) > 0 /\ Head(ctcq[c]) = q /\ q \in CtcEntry
  BY <1>1, <1>2
<1>4. r.msgs = q.msgs /\ r.cmplt = 1 /\ q.cmplt \in Nat /\ q.cmplt > 0
  BY <1>2, <1>3, Zenon DEF CtcEntry
<1> HIDE DEF r
<1>5. ctcq'[c] = t /\ Others(c)
  BY <1>1, <1>2 DEF Others
<1>6. CASE q.cmplt = 1
  <2>1. ctcq'[c] = Tail(ctcq[c])
    BY <1>3, <1>5, <1>6
  <2>2. /\ Len(ctcq'[c]) = Len(ctcq[c]) - 1
        /\ \A i \in 1 .. Len(ctcq[c]) - 1 : ctcq'[c][i] = ctcq[c][i + 1]
    BY <1>1, <1>2, <2>1
  <2> QED
    BY <1>3, <1>5, <1>6, <2>2 DEF Left
<1>7. CASE q.cmplt # 1
  <2>1. ctcq'[c] = [ctcq[c] EXCEPT ![1] = r]
    BY <1>3, <1>5, <1>7
  <2>2. /\ Len(ctcq'[c]) = Len(ctcq[c]) /\ ctcq'[c][1] = r
        /\ \A j \in 1 .. Len(ctcq[c]) : j # 1 => ctcq'[c][j] = ctcq[c][j]
    BY <1>1, <1>3, <2>1
  <2> QED
    BY <1>1, <1>3, <1>4, <1>5, <1>7, <2>2 DEF Counted
<1> QED
  BY <1>6, <1>7

-----------------------------------------------------------------------------
\* What is an operation stays one.
LEMMA KindsStep ==
  ASSUME Types, PipeInv, PipeStep
  PROVE  Kinds'
<1> USE DEF PipeInv
<1> DEFINE ArOf(c) == \A i \in DOMAIN ar[c] : OfCore(c, ar[c][i])
           HalfOf(c) == half[c] # NONE => half[c] \in CtcOp /\ half[c][1] = c
           Asked == \A i \in DOMAIN reqq : OpMsg(reqq[i].msg)
           AcOf(c) == \A i \in DOMAIN ac[c] :
                        IF ac[c][i].k = "ctc" THEN OpMsg(ac[c][i]) ELSE ac[c][i].half = 0
<1>0. Kinds <=> (\A c \in CORE : ArOf(c) /\ HalfOf(c) /\ AcOf(c)) /\ Asked
  BY DEF Kinds, OfCore
<1>00. Kinds' <=> (\A c \in CORE : ArOf(c)' /\ HalfOf(c)' /\ AcOf(c)') /\ Asked'
  BY DEF Kinds, OfCore
<1>a. ar \in [CORE -> Seq(Message)] /\ ac \in [CORE -> Seq(AcMessage)]
  BY DEF Types, ProgramTypes, PipeTypes
<1>b. half \in [CORE -> Op \cup {NONE}]
  BY DEF Types, ProgramTypes
<1>1. ASSUME NEW c \in CORE, NEW m \in Message, ArGrows(c, m)
      PROVE  Kinds'
  <2>1. /\ OfCore(c, m) /\ ar' = [ar EXCEPT ![c] = Append(@, m)]
        /\ half' = [half EXCEPT ![c] = Opens(m)] /\ UNCHANGED <<reqq, ac>>
    BY <1>1 DEF ArGrows
  <2>2. \A d \in CORE : ArOf(d)'
    BY <1>0, <1>a, <2>1 DEF OfCore
  <2>3. Opens(m) # NONE => Opens(m) \in CtcOp /\ Opens(m)[1] = c
    BY <2>1 DEF Opens, OfCore, OpMsg
  <2>4. \A d \in CORE : HalfOf(d)'
    BY <1>0, <1>b, <2>1, <2>3
  <2> QED
    BY <1>0, <1>00, <2>1, <2>2, <2>4
<1>2. ASSUME NEW c \in CORE, ArShrinks(c)
      PROVE  Kinds'
  <2>1. /\ ar[c] # <<>> /\ ar' = [ar EXCEPT ![c] = Tail(@)]
        /\ UNCHANGED <<half, reqq, ac>>
    BY <1>2 DEF ArShrinks
  <2>2. \A d \in CORE : ArOf(d)'
    BY <1>0, <1>a, <2>1 DEF OfCore
  <2> QED
    BY <1>0, <1>00, <2>1, <2>2
<1>3. ASSUME NEW c \in CORE, NEW m \in Message, Created(c, m)
      PROVE  Kinds'
  <2>1. /\ ar[c] # <<>> /\ Head(ar[c]).k = "ctc"
        /\ m.k = "ctc" /\ m.op = Head(ar[c]).op /\ m.half = Head(ar[c]).half
        /\ reqq' = Append(reqq, [msg |-> m, todo |-> CORE])
        /\ ar' = [ar EXCEPT ![c] = Tail(@)] /\ UNCHANGED <<half, ac>>
    BY <1>3 DEF Created
  <2>2. \A d \in CORE : ArOf(d)'
    BY <1>0, <1>a, <2>1 DEF OfCore
  <2>3. OfCore(c, Head(ar[c]))
    BY <1>0, <1>a, <2>1
  <2>4. OpMsg(m)
    BY <2>1, <2>3 DEF OfCore, OpMsg
  <2>5. Asked'
    <3> DEFINE r == [msg |-> m, todo |-> CORE]
    <3>1. r \in Request /\ r.msg = m
      BY DEF Request
    <3>2. reqq' = Append(reqq, r) /\ reqq \in Seq(Request)
      BY <2>1 DEF PipeTypes
    <3> HIDE DEF r
    <3> QED
      BY <1>0, <2>4, <3>1, <3>2
  <2> QED
    BY <1>0, <1>00, <2>1, <2>2, <2>5
<1>4. ASSUME NEW c \in CORE, NEW i \in DOMAIN reqq, NEW n \in {0, 1}, Sent(c, i, n)
      PROVE  Kinds'
  <2>1. /\ ac' = [ac EXCEPT ![c] = Append(@, reqq[i].msg)]
        /\ reqq' \in Seq(Request) /\ Len(reqq') = Len(reqq) - n
        /\ \A j \in 1 .. Len(reqq) - n : reqq'[j].msg = reqq[j + n].msg
        /\ UNCHANGED <<ar, half>>
    BY <1>4 DEF Sent
  <2>2. reqq \in Seq(Request)
    BY DEF PipeTypes
  <2>3. Asked'
    BY <1>0, <2>1, <2>2
  <2>4. reqq[i].msg \in AcMessage /\ OpMsg(reqq[i].msg)
    <3>1. reqq[i] \in Request /\ OpMsg(reqq[i].msg)
      BY <1>0, <2>2
    <3> QED
      BY <3>1, ToAc DEF Request, OpMsg
  <2>5. \A d \in CORE : AcOf(d)'
    BY <1>0, <1>a, <2>1, <2>4 DEF OpMsg
  <2> QED
    BY <1>0, <1>00, <2>1, <2>3, <2>5
<1>5. ASSUME NEW c \in CORE, NEW e \in ENTRY, Snooped(c, e)
      PROVE  Kinds'
  <2> DEFINE m == Msg("snp", NONE, 0, e)
  <2>1. ac' = [ac EXCEPT ![c] = Append(@, m)] /\ UNCHANGED <<ar, half, reqq>>
    BY <1>5 DEF Snooped
  <2>2. m \in AcMessage /\ m.k = "snp" /\ m.half = 0
    BY DEF Msg, AcMessage
  <2> HIDE DEF m
  <2>3. \A d \in CORE : AcOf(d)'
    BY <1>0, <1>a, <2>1, <2>2
  <2> QED
    BY <1>0, <1>00, <2>1, <2>3
<1>6. ASSUME NEW c \in CORE, Obeyed(c) \/ Missed(c)
      PROVE  Kinds'
  <2>1. /\ ac[c] # <<>> /\ ac' = [ac EXCEPT ![c] = Tail(@)] /\ UNCHANGED <<ar, half, reqq>>
    BY <1>6 DEF Obeyed, Missed
  <2>2. \A d \in CORE : AcOf(d)'
    BY <1>0, <1>a, <2>1
  <2> QED
    BY <1>0, <1>00, <2>1, <2>2
<1>7. ASSUME NEW c \in CORE,
             \/ \E i \in DOMAIN ctcq[c] : Started(c, i) \/ Carried(c, i)
             \/ AnswersCtc(c) \/ AnswersSnoop(c)
      PROVE  Kinds'
  <2>1. UNCHANGED <<ar, half, reqq, ac>>
    BY <1>7, Zenon DEF Started, Carried, AnswersCtc, AnswersSnoop
  <2> QED
    BY <2>1 DEF Kinds
<1>8. CASE UNCHANGED pipe
  BY <1>8 DEF pipe, Kinds
<1> QED
  BY <1>1, <1>2, <1>3, <1>4, <1>5, <1>6, <1>7, <1>8 DEF PipeStep

\* Types of a request and of what a core takes.
LEMMA RequestTypes ==
  ASSUME PipeTypes
  PROVE  /\ reqq \in Seq(Request) /\ Len(reqq) \in Nat /\ DOMAIN reqq = 1 .. Len(reqq)
         /\ \A i \in 1 .. Len(reqq) :
              reqq[i] \in Request /\ reqq[i].todo \subseteq CORE /\ reqq[i].msg \in Message
<1>1. reqq \in Seq(Request) /\ Len(reqq) \in Nat /\ DOMAIN reqq = 1 .. Len(reqq)
  BY DEF PipeTypes
<1>2. ASSUME NEW i \in 1 .. Len(reqq)
      PROVE  reqq[i] \in Request /\ reqq[i].todo \subseteq CORE /\ reqq[i].msg \in Message
  <2>1. reqq[i] \in Request
    BY <1>1
  <2> QED
    BY <2>1 DEF Request
<1> QED
  BY <1>1, <1>2

\* How the requests are after a new one.
LEMMA CreatedMeans ==
  ASSUME PipeTypes, NEW c \in CORE, NEW m \in Message, Created(c, m)
  PROVE  /\ Len(reqq') = Len(reqq) + 1 /\ DOMAIN reqq' = 1 .. Len(reqq) + 1
         /\ reqq' # <<>> /\ (reqq = <<>> <=> Len(reqq) = 0)
         /\ \A i \in 1 .. Len(reqq) : reqq'[i] = reqq[i]
         /\ reqq'[Len(reqq) + 1].msg = m /\ reqq'[Len(reqq) + 1].todo = CORE
<1> DEFINE r == [msg |-> m, todo |-> CORE]
<1>1. r \in Request /\ r.msg = m /\ r.todo = CORE
  BY DEF Request
<1>2. reqq' = Append(reqq, r) /\ reqq \in Seq(Request)
  BY DEF PipeTypes, Created
<1> HIDE DEF r
<1> QED
  BY <1>1, <1>2, AppendFacts

AfterSent(c, i, n) ==
  /\ i \in 1 .. Len(reqq) /\ Len(reqq') = Len(reqq) - n
  /\ DOMAIN reqq' = 1 .. Len(reqq) - n
  /\ \A j \in 1 .. Len(reqq) - n :
       /\ j + n \in 1 .. Len(reqq) /\ reqq'[j].msg = reqq[j + n].msg
       /\ reqq'[j].todo = IF j + n = i THEN reqq[i].todo \ {c} ELSE reqq[j + n].todo
       /\ reqq'[j].todo \subseteq reqq[j + n].todo
  /\ c \in reqq[i].todo /\ \A j \in 1 .. i - 1 : c \notin reqq[j].todo
  /\ reqq[i].msg \in Message

LEMMA SentMeans ==
  ASSUME PipeTypes, NEW c \in CORE, NEW i \in DOMAIN reqq, NEW n \in {0, 1}, Sent(c, i, n)
  PROVE  AfterSent(c, i, n)
<1>1. /\ reqq' \in Seq(Request) /\ Len(reqq') = Len(reqq) - n /\ NextFor(c, i)
      /\ \A j \in 1 .. Len(reqq) - n :
           /\ reqq'[j].msg = reqq[j + n].msg
           /\ reqq'[j].todo = IF j + n = i THEN reqq[i].todo \ {c} ELSE reqq[j + n].todo
  BY DEF Sent
<1>2. Len(reqq) \in Nat /\ DOMAIN reqq = 1 .. Len(reqq)
  BY RequestTypes
<1>3. /\ DOMAIN reqq' = 1 .. Len(reqq) - n
      /\ \A j \in 1 .. Len(reqq) - n : j + n \in 1 .. Len(reqq)
  BY <1>1, <1>2
<1> QED
  BY <1>1, <1>2, <1>3, RequestTypes DEF NextFor, AfterSent

LEMMA InOrderStep ==
  ASSUME Types, PipeInv, PipeStep
  PROVE  InOrder'
<1> USE DEF PipeInv
<1>0. Len(reqq) \in Nat /\ DOMAIN reqq = 1 .. Len(reqq)
  BY RequestTypes
<1>1. ASSUME NEW c \in CORE, NEW m \in Message, Created(c, m)
      PROVE  InOrder'
  <2>1. /\ DOMAIN reqq' = 1 .. Len(reqq) + 1
        /\ \A i \in 1 .. Len(reqq) : reqq'[i] = reqq[i] /\ reqq[i].todo \subseteq CORE
        /\ reqq'[Len(reqq) + 1].todo = CORE
    BY <1>1, CreatedMeans, RequestTypes
  <2> QED
    BY <1>0, <2>1 DEF InOrder
<1>2. ASSUME NEW c \in CORE, NEW i \in DOMAIN reqq, NEW n \in {0, 1}, Sent(c, i, n)
      PROVE  InOrder'
  <2>0. AfterSent(c, i, n)
    BY <1>2, SentMeans
  <2>1. /\ i \in 1 .. Len(reqq) /\ DOMAIN reqq' = 1 .. Len(reqq) - n
        /\ \A j \in 1 .. Len(reqq) - n :
             /\ j + n \in 1 .. Len(reqq)
             /\ reqq'[j].todo = IF j + n = i THEN reqq[i].todo \ {c} ELSE reqq[j + n].todo
             /\ reqq'[j].todo \subseteq reqq[j + n].todo
        /\ \A j \in 1 .. i - 1 : c \notin reqq[j].todo
    BY <2>0, Zenon DEF AfterSent
  <2>2. ASSUME NEW a \in DOMAIN reqq', NEW b \in DOMAIN reqq', a < b
        PROVE  reqq'[a].todo \subseteq reqq'[b].todo
    <3>1. a + n \in 1 .. Len(reqq) /\ b + n \in 1 .. Len(reqq) /\ a + n < b + n
      BY <1>0, <2>1, <2>2
    <3>2. reqq[a + n].todo \subseteq reqq[b + n].todo
      BY <1>0, <3>1 DEF InOrder
    <3>3. b + n = i => c \notin reqq[a + n].todo /\ a + n # i
      BY <1>0, <2>1, <3>1
    <3>4. /\ reqq'[a].todo \subseteq reqq[a + n].todo
          /\ reqq'[b].todo = IF b + n = i THEN reqq[i].todo \ {c} ELSE reqq[b + n].todo
          /\ b + n = i => reqq[b + n].todo = reqq[i].todo
      BY <2>1, <2>2
    <3> QED
      BY <3>2, <3>3, <3>4
  <2>3. ASSUME NEW a \in DOMAIN reqq'
        PROVE  reqq'[a].todo # {}
    <3>1. a + n \in 1 .. Len(reqq) /\ reqq[a + n].todo # {}
      BY <1>0, <2>1 DEF InOrder
    <3>2. CASE a + n # i
      BY <2>1, <3>1, <3>2
    <3>3. CASE a + n = i /\ i = 1
      <4>1. n = 0 /\ reqq[1].todo # {c}
        BY <1>0, <1>2, <2>1, <3>3 DEF Sent
      <4>2. reqq'[a].todo = reqq[1].todo \ {c} /\ reqq[1].todo # {}
        BY <2>1, <3>1, <3>3
      <4> QED
        BY <4>1, <4>2
    <3>4. CASE a + n = i /\ i # 1
      <4>1. 1 \in 1 .. Len(reqq) /\ 1 < i /\ 1 \in 1 .. i - 1
        BY <1>0, <2>1, <3>4
      <4>2. reqq[1].todo \subseteq reqq[i].todo /\ reqq[1].todo # {} /\ c \notin reqq[1].todo
        BY <1>0, <2>1, <4>1 DEF InOrder
      <4>3. reqq'[a].todo = reqq[i].todo \ {c}
        BY <2>1, <2>3, <3>4
      <4> QED
        BY <4>2, <4>3
    <3> QED
      BY <3>2, <3>3, <3>4
  <2> QED
    BY <2>2, <2>3 DEF InOrder
<1>3. CASE UNCHANGED reqq
  BY <1>3 DEF InOrder
<1>4. ASSUME NEW c \in CORE,
             \/ \E m \in Message : ArGrows(c, m)
             \/ ArShrinks(c) \/ \E e \in ENTRY : Snooped(c, e)
             \/ Obeyed(c) \/ Missed(c)
             \/ \E i \in DOMAIN ctcq[c] : Started(c, i) \/ Carried(c, i)
             \/ AnswersCtc(c) \/ AnswersSnoop(c)
      PROVE  UNCHANGED reqq
  BY <1>4, Zenon DEF ArGrows, ArShrinks, Snooped, Obeyed, Missed, Started, Carried,
                     AnswersCtc, AnswersSnoop
<1>5. UNCHANGED pipe => UNCHANGED reqq
  BY DEF pipe
<1> QED
  BY <1>1, <1>2, <1>3, <1>4, <1>5 DEF PipeStep

-----------------------------------------------------------------------------
\* What is in the queues of the cores.
CtcqSame ==
  \E c \in CORE :
    \/ \E m \in Message : ArGrows(c, m) \/ Created(c, m)
    \/ ArShrinks(c) \/ \E i \in DOMAIN reqq, n \in {0, 1} : Sent(c, i, n)
    \/ \E e \in ENTRY : Snooped(c, e)
    \/ Missed(c) \/ AnswersSnoop(c)

LEMMA SameIsSame ==
  ASSUME CtcqSame \/ UNCHANGED pipe
  PROVE  UNCHANGED <<ctcq, inv>>
<1>1. ASSUME CtcqSame
      PROVE  UNCHANGED <<ctcq, inv>>
  BY <1>1, Zenon DEF CtcqSame, ArGrows, Created, ArShrinks, Sent, Snooped, Missed, AnswersSnoop
<1>2. UNCHANGED pipe => UNCHANGED <<ctcq, inv>>
  BY DEF pipe
<1> QED
  BY <1>1, <1>2

LEMMA CompleteWhen ==
  ASSUME NEW q, NEW r, r.msgs = q.msgs
  PROVE  Complete(r) <=> Complete(q)
BY DEF Complete

\* The transaction that an entry which is not complete waits for is its second.
LEMMA JoinShape ==
  ASSUME PipeTypes, EntryShapes, Kinds, NEW c \in CORE, AcLinked(c), ac[c] # <<>>,
         NEW n, n = Len(ctcq[c]), n > 0, ~Complete(ctcq[c][n]), Head(ac[c]).k = "ctc"
  PROVE  /\ Waiting(c) /\ n \in 1 .. Len(ctcq[c]) /\ Len(ctcq[c][n].msgs) = 1
         /\ More(ctcq[c][n].msgs[1]) /\ ctcq[c][n].cmplt = 0
         /\ OpMsg(ctcq[c][n].msgs[1]) /\ ctcq[c][n].msgs[1].half = 1
         /\ Head(ac[c]).op = ctcq[c][n].msgs[1].op /\ Head(ac[c]).half = 2
<1> DEFINE q == ctcq[c][n]
<1>1. n \in 1 .. Len(ctcq[c]) /\ ctcq[c] # <<>> /\ q.cmplt \in Nat
  BY QueueTypes
<1>2. Waiting(c)
  BY <1>1 DEF Waiting
<1>3. EntryShape(q) /\ (q.cmplt > 0 => Complete(q))
  BY <1>1, QueueTypes DEF EntryShapes
<1>4. Len(q.msgs) = 1 /\ More(q.msgs[1]) /\ OpMsg(q.msgs[1]) /\ q.msgs[1].half = 1
  BY <1>3 DEF EntryShape, Complete
<1>5. Kept(c) = q.msgs[1].op
  BY <1>2 DEF Kept
<1>6. Follows(Kept(c), Head(ac[c]))
  <2>1. ac[c] \in Seq(AcMessage)
    BY DEF PipeTypes
  <2> QED
    BY <2>1, LinkTail DEF AcLinked
<1>7. q.msgs[1].op # NONE
  BY <1>4, BroadcastAssumption DEF OpMsg, CtcOp, KIND
<1>8. q.cmplt = 0
  BY <1>1, <1>3
<1> QED
  BY <1>1, <1>2, <1>4, <1>5, <1>6, <1>7, <1>8 DEF Follows

LEMMA EntryShapesStep ==
  ASSUME Types, PipeInv, PairInv, PipeStep
  PROVE  EntryShapes'
<1> USE DEF PipeInv
<1> DEFINE GoodAt(c, i) == /\ EntryShape(ctcq[c][i])
                           /\ i < Len(ctcq[c]) \/ ctcq[c][i].cmplt > 0 => Complete(ctcq[c][i])
<1>a. \A c \in CORE : \A i \in 1 .. Len(ctcq[c]) : GoodAt(c, i)
  BY QueueTypes DEF EntryShapes
<1>b. ASSUME \A c \in CORE : \A i \in 1 .. Len(ctcq'[c]) : GoodAt(c, i)'
      PROVE  EntryShapes'
  <2>1. \A c \in CORE : DOMAIN ctcq'[c] = 1 .. Len(ctcq'[c])
    BY PipeTypesStep DEF PipeTypes
  <2> QED
    BY <1>b, <2>1 DEF EntryShapes
<1>c. ASSUME NEW c \in CORE, Others(c), \A i \in 1 .. Len(ctcq'[c]) : GoodAt(c, i)'
      PROVE  EntryShapes'
  <2>1. ASSUME NEW d \in CORE, NEW i \in 1 .. Len(ctcq'[d])
        PROVE  GoodAt(d, i)'
    <3>1. CASE d = c
      BY <1>c, <2>1, <3>1
    <3>2. CASE d # c
      <4>1. ctcq'[d] = ctcq[d]
        BY <1>c, <3>2 DEF Others
      <4>2. GoodAt(d, i)
        BY <1>a, <2>1, <4>1
      <4> QED
        BY <4>1, <4>2 DEF EntryShape, Complete
    <3> QED
      BY <3>1, <3>2
  <2> QED
    BY <1>b, <2>1
<1>1. ASSUME NEW c \in CORE, Obeyed(c)
      PROVE  EntryShapes'
  <2>0. PICK n, h : n = Len(ctcq[c]) /\ h = Head(ac[c])
    OBVIOUS
  <2>1. Others(c) /\ (Joined(c, h) \/ Entered(c, h))
    BY <1>1, <2>0, ObeyedMeans
  <2>2. ac[c] # <<>> /\ h.k = "ctc" /\ h \in AcMessage /\ OpMsg(h)
    <3>1. ac[c] # <<>> /\ h.k = "ctc" /\ ac[c] \in Seq(AcMessage)
      BY <1>1, <2>0 DEF Obeyed, PipeTypes
    <3>2. 1 \in DOMAIN ac[c] /\ h = ac[c][1]
      BY <2>0, <3>1
    <3> QED
      BY <3>1, <3>2 DEF Kinds
  <2>3. AcLinked(c)
    BY DEF PairInv, Pairs
  <2>4. n \in Nat /\ \A i \in 1 .. n : ctcq[c][i].msgs \in Seq(AcMessage)
    BY <2>0, QueueTypes
  <2>5. CASE Joined(c, h)
    <3>1. /\ n > 0 /\ n \in 1 .. n /\ Len(ctcq[c][n].msgs) = 1 /\ More(ctcq[c][n].msgs[1])
          /\ ctcq[c][n].cmplt = 0
          /\ OpMsg(ctcq[c][n].msgs[1]) /\ ctcq[c][n].msgs[1].half = 1
          /\ h.op = ctcq[c][n].msgs[1].op /\ h.half = 2
      BY <2>0, <2>2, <2>3, <2>4, <2>5, JoinShape DEF Joined
    <3> DEFINE q == ctcq'[c][n]
    <3>2. q.msgs = Append(ctcq[c][n].msgs, h) /\ q.cmplt = 0
      BY <2>0, <2>5, <3>1 DEF Joined
    <3>3. Len(q.msgs) = 2 /\ q.msgs[1] = ctcq[c][n].msgs[1] /\ q.msgs[2] = h
      BY <2>2, <2>4, <3>1, <3>2
    <3> HIDE DEF q
    <3>4. EntryShape(q) /\ Complete(q)
      BY <3>1, <3>2, <3>3 DEF EntryShape, Complete
    <3>5. ASSUME NEW i \in 1 .. n - 1
          PROVE  GoodAt(c, i)'
      <4>1. ctcq'[c][i] = ctcq[c][i] /\ GoodAt(c, i) /\ i < Len(ctcq[c])
        BY <1>a, <2>0, <2>4, <2>5 DEF Joined
      <4> QED
        BY <4>1 DEF EntryShape, Complete
    <3>6. \A i \in 1 .. Len(ctcq'[c]) : GoodAt(c, i)'
      <4> TAKE i \in 1 .. Len(ctcq'[c])
      <4>1. i = n \/ i \in 1 .. n - 1
        BY <2>0, <2>4, <2>5 DEF Joined
      <4>2. GoodAt(c, n)'
        BY <3>4 DEF q, EntryShape, Complete
      <4> HIDE DEF GoodAt
      <4> QED
        BY <3>5, <4>1, <4>2
    <3> QED
      BY <1>c, <2>1, <3>6
  <2>6. CASE Entered(c, h)
    <3>1. /\ n > 0 => Complete(ctcq[c][n])
          /\ Len(ctcq'[c]) = n + 1 /\ \A i \in 1 .. n : ctcq'[c][i] = ctcq[c][i]
          /\ ctcq'[c][n + 1].msgs = <<h>> /\ ctcq'[c][n + 1].cmplt = 0
      BY <2>0, <2>6 DEF Entered
    <3>2. h.half = 1
      <4>1. Kept(c) = NONE
        BY <2>0, <2>4, <3>1 DEF Kept, Waiting
      <4>2. Follows(Kept(c), h)
        BY <2>0, <2>2, <2>3, LinkTail DEF AcLinked, PipeTypes
      <4> QED
        BY <2>2, <4>1, <4>2 DEF Follows, OpMsg
    <3> DEFINE q == ctcq'[c][n + 1]
    <3>3. Len(q.msgs) = 1 /\ q.msgs[1] = h /\ q.cmplt = 0
      BY <3>1
    <3> HIDE DEF q
    <3>4. EntryShape(q)
      BY <2>2, <3>2, <3>3 DEF EntryShape
    <3>5. GoodAt(c, n + 1)'
      BY <2>4, <3>1, <3>3, <3>4 DEF q, EntryShape
    <3>6. ASSUME NEW i \in 1 .. n
          PROVE  GoodAt(c, i)'
      <4>1. ctcq'[c][i] = ctcq[c][i] /\ GoodAt(c, i)
        BY <1>a, <2>0, <3>1
      <4>2. Complete(ctcq[c][i])
        BY <2>0, <2>4, <3>1, <4>1
      <4> QED
        BY <4>1, <4>2 DEF EntryShape, Complete
    <3>7. \A i \in 1 .. Len(ctcq'[c]) : GoodAt(c, i)'
      <4> TAKE i \in 1 .. Len(ctcq'[c])
      <4>1. i = n + 1 \/ i \in 1 .. n
        BY <2>4, <3>1
      <4> HIDE DEF GoodAt
      <4> QED
        BY <3>5, <3>6, <4>1
    <3> QED
      BY <1>c, <2>1, <3>7
  <2> QED
    BY <2>1, <2>5, <2>6
<1>2. ASSUME NEW c \in CORE, NEW i \in DOMAIN ctcq[c], NEW k, Others(c), Counted(c, i, k),
             Complete(ctcq[c][i]), k <= Len(ctcq[c][i].msgs)
      PROVE  EntryShapes'
  <2>1. ASSUME NEW j \in 1 .. Len(ctcq'[c])
        PROVE  GoodAt(c, j)'
    <3>1. /\ Len(ctcq'[c]) = Len(ctcq[c]) /\ j \in 1 .. Len(ctcq[c])
          /\ ctcq'[c][j].msgs = ctcq[c][j].msgs
          /\ j # i => ctcq'[c][j] = ctcq[c][j]
          /\ ctcq'[c][i].cmplt = k
      BY <1>2, <2>1 DEF Counted
    <3>2. GoodAt(c, j)
      BY <1>a, <3>1
    <3> QED
      BY <1>2, <3>1, <3>2 DEF EntryShape, Complete
  <2> QED
    BY <1>2, <1>c, <2>1
<1>3. ASSUME NEW c \in CORE, NEW i \in DOMAIN ctcq[c], Carried(c, i)
      PROVE  EntryShapes'
  <2>1. Others(c) /\ Counted(c, i, Len(ctcq[c][i].msgs)) /\ Complete(ctcq[c][i])
    BY <1>3, CarriedMeans DEF Carried
  <2>2. Len(ctcq[c][i].msgs) <= Len(ctcq[c][i].msgs)
    BY QueueTypes
  <2> QED
    BY <1>2, <2>1, <2>2
<1>4. ASSUME NEW c \in CORE, AnswersCtc(c)
      PROVE  EntryShapes'
  <2>1. Others(c) /\ ((ctcq[c][1].cmplt > 1 /\ Counted(c, 1, 1)) \/ Left(c))
    BY <1>4, AnswersMeans
  <2>2. CASE ctcq[c][1].cmplt > 1 /\ Counted(c, 1, 1)
    <3>1. 1 \in 1 .. Len(ctcq[c]) /\ 1 \in DOMAIN ctcq[c]
      BY <2>2, QueueTypes DEF Counted
    <3>2. GoodAt(c, 1) /\ ctcq[c][1].cmplt \in Nat /\ Len(ctcq[c][1].msgs) \in Nat
      BY <1>a, <3>1, QueueTypes
    <3>3. Complete(ctcq[c][1]) /\ 1 <= Len(ctcq[c][1].msgs)
      BY <2>2, <3>2 DEF EntryShape
    <3> QED
      BY <1>2, <2>1, <2>2, <3>1, <3>3
  <2>3. CASE Left(c)
    <3>1. ASSUME NEW j \in 1 .. Len(ctcq'[c])
          PROVE  GoodAt(c, j)'
      <4>1. /\ Len(ctcq'[c]) = Len(ctcq[c]) - 1 /\ ctcq'[c][j] = ctcq[c][j + 1]
            /\ j + 1 \in 1 .. Len(ctcq[c]) /\ Len(ctcq[c]) \in Nat
        BY <2>3, QueueTypes DEF Left
      <4>2. GoodAt(c, j + 1)
        BY <1>a, <4>1
      <4>3. j < Len(ctcq[c]) - 1 => j + 1 < Len(ctcq[c])
        BY <4>1
      <4> QED
        BY <4>1, <4>2, <4>3 DEF EntryShape, Complete
    <3> QED
      BY <1>c, <2>1, <3>1
  <2> QED
    BY <2>1, <2>2, <2>3
<1>5. UNCHANGED ctcq => EntryShapes'
  BY DEF EntryShapes, EntryShape, Complete
<1>6. (\E c \in CORE : \E i \in DOMAIN ctcq[c] : Started(c, i)) => UNCHANGED ctcq
  BY DEF Started
<1> QED
  BY <1>1, <1>3, <1>4, <1>5, <1>6, SameIsSame DEF PipeStep, CtcqSame

\* The operation at the IFU or the MMU stays the first that is not done.
LEMMA AtWorkStep ==
  ASSUME Types, PipeInv, PipeStep
  PROVE  AtWork'
<1> USE DEF PipeInv
<1>a. ASSUME NEW c \in CORE, Others(c), \A d \in CORE \ {c} : inv'[d] = inv[d],
             inv'[c] => \E i \in DOMAIN ctcq'[c] : FirstUndone(c, i)' /\ Complete(ctcq'[c][i])
      PROVE  AtWork'
  <2>1. ASSUME NEW d \in CORE, d # c, inv'[d]
        PROVE  \E i \in DOMAIN ctcq'[d] : FirstUndone(d, i)' /\ Complete(ctcq'[d][i])
    <3>1. ctcq'[d] = ctcq[d] /\ inv[d]
      BY <1>a, <2>1 DEF Others
    <3>2. PICK i \in DOMAIN ctcq[d] : FirstUndone(d, i) /\ Complete(ctcq[d][i])
      BY <2>1, <3>1 DEF AtWork
    <3> QED
      BY <3>1, <3>2 DEF FirstUndone, Complete
  <2> QED
    BY <1>a, <2>1 DEF AtWork
<1>b. PipeTypes'
  BY PipeTypesStep
<1>1. ASSUME NEW c \in CORE, Obeyed(c)
      PROVE  AtWork'
  <2>1. PICK h : Others(c) /\ (Joined(c, h) \/ Entered(c, h))
    BY <1>1, ObeyedMeans
  <2>2. inv' = inv
    BY <1>1 DEF Obeyed
  <2>3. ASSUME inv'[c]
        PROVE  \E i \in DOMAIN ctcq'[c] : FirstUndone(c, i)' /\ Complete(ctcq'[c][i])
    <3>1. PICK i \in DOMAIN ctcq[c] : FirstUndone(c, i) /\ Complete(ctcq[c][i])
      BY <2>2, <2>3 DEF AtWork
    <3>2. /\ i \in 1 .. Len(ctcq[c]) /\ Len(ctcq[c]) \in Nat
          /\ DOMAIN ctcq'[c] = 1 .. Len(ctcq'[c])
      BY <3>1, <1>b, QueueTypes DEF PipeTypes
    <3>3. i \in 1 .. Len(ctcq'[c]) /\ \A j \in 1 .. i : ctcq'[c][j] = ctcq[c][j]
      <4>1. CASE Joined(c, h)
        <5>1. i # Len(ctcq[c])
          BY <3>1, <4>1 DEF Joined
        <5> QED
          BY <3>2, <4>1, <5>1 DEF Joined
      <4>2. CASE Entered(c, h)
        BY <3>2, <4>2 DEF Entered
      <4> QED
        BY <2>1, <4>1, <4>2
    <3>4. ctcq'[c][i] = ctcq[c][i] /\ \A j \in 1 .. i - 1 : ctcq'[c][j] = ctcq[c][j]
      BY <3>2, <3>3
    <3>5. FirstUndone(c, i)'
      BY <3>1, <3>2, <3>3, <3>4 DEF FirstUndone
    <3>6. Complete(ctcq'[c][i])
      BY <3>1, <3>4
    <3> QED
      BY <3>2, <3>3, <3>5, <3>6
  <2> QED
    BY <1>a, <2>1, <2>2, <2>3
<1>2. ASSUME NEW c \in CORE, NEW i \in DOMAIN ctcq[c], Started(c, i)
      PROVE  AtWork'
  <2>1. /\ FirstUndone(c, i) /\ Complete(ctcq[c][i]) /\ inv' = [inv EXCEPT ![c] = TRUE]
        /\ ctcq' = ctcq
    BY <1>2 DEF Started
  <2>2. Others(c) /\ \A d \in CORE \ {c} : inv'[d] = inv[d]
    BY <2>1 DEF Others, PipeTypes
  <2>3. FirstUndone(c, i)' /\ Complete(ctcq'[c][i]) /\ i \in DOMAIN ctcq'[c]
    BY <2>1 DEF FirstUndone, Complete
  <2> QED
    BY <1>a, <2>2, <2>3
<1>3. ASSUME NEW c \in CORE, NEW i \in DOMAIN ctcq[c], Carried(c, i)
      PROVE  AtWork'
  <2>1. inv' = [inv EXCEPT ![c] = FALSE] /\ Others(c)
    BY <1>3, CarriedMeans DEF Carried
  <2>2. ~inv'[c] /\ \A d \in CORE \ {c} : inv'[d] = inv[d]
    BY <2>1 DEF PipeTypes
  <2> QED
    BY <1>a, <2>1, <2>2
<1>4. ASSUME NEW c \in CORE, AnswersCtc(c)
      PROVE  AtWork'
  <2>1. Others(c) /\ ((ctcq[c][1].cmplt > 1 /\ Counted(c, 1, 1)) \/ Left(c))
    BY <1>4, AnswersMeans
  <2>2. inv' = inv
    BY <1>4 DEF AnswersCtc
  <2>3. ASSUME inv'[c]
        PROVE  \E i \in DOMAIN ctcq'[c] : FirstUndone(c, i)' /\ Complete(ctcq'[c][i])
    <3>1. PICK i \in DOMAIN ctcq[c] : FirstUndone(c, i) /\ Complete(ctcq[c][i])
      BY <2>2, <2>3 DEF AtWork
    <3>2. /\ i \in 1 .. Len(ctcq[c]) /\ Len(ctcq[c]) \in Nat
          /\ DOMAIN ctcq'[c] = 1 .. Len(ctcq'[c])
          /\ ctcq[c][i].cmplt = 0 /\ \A j \in 1 .. i - 1 : ctcq[c][j].cmplt # 0
      <4>1. ctcq[c][i].cmplt = 0 /\ \A j \in 1 .. i - 1 : ctcq[c][j].cmplt # 0
        BY <3>1 DEF FirstUndone
      <4>2. i \in 1 .. Len(ctcq[c]) /\ Len(ctcq[c]) \in Nat
        BY QueueTypes
      <4>3. DOMAIN ctcq'[c] = 1 .. Len(ctcq'[c])
        BY <1>b DEF PipeTypes
      <4> QED
        BY <4>1, <4>2, <4>3
    <3>3. CASE ctcq[c][1].cmplt > 1 /\ Counted(c, 1, 1)
      <4>1. i # 1
        BY <3>2, <3>3
      <4>2. /\ Len(ctcq'[c]) = Len(ctcq[c]) /\ ctcq'[c][1].cmplt = 1
            /\ \A j \in 1 .. Len(ctcq[c]) : j # 1 => ctcq'[c][j] = ctcq[c][j]
        BY <3>3 DEF Counted
      <4>3. /\ i \in DOMAIN ctcq'[c] /\ ctcq'[c][i] = ctcq[c][i]
            /\ \A j \in 1 .. i - 1 : ctcq'[c][j].cmplt # 0
        BY <3>2, <4>1, <4>2
      <4>4. FirstUndone(c, i)'
        BY <3>2, <4>3 DEF FirstUndone
      <4> QED
        BY <3>1, <4>3, <4>4
    <3>4. CASE Left(c)
      <4>1. /\ Len(ctcq'[c]) = Len(ctcq[c]) - 1 /\ ctcq[c][1].cmplt = 1
            /\ \A j \in 1 .. Len(ctcq[c]) - 1 : ctcq'[c][j] = ctcq[c][j + 1]
        BY <3>4 DEF Left
      <4>2. i # 1 /\ i - 1 \in 1 .. Len(ctcq'[c]) /\ (i - 1) + 1 = i
        BY <3>2, <4>1
      <4>3. /\ ctcq'[c][i - 1] = ctcq[c][i]
            /\ \A j \in 1 .. (i - 1) - 1 : ctcq'[c][j].cmplt # 0
        <5>1. ctcq'[c][i - 1] = ctcq[c][i]
          BY <3>2, <4>1, <4>2
        <5>2. ASSUME NEW j \in 1 .. (i - 1) - 1
              PROVE  ctcq'[c][j].cmplt # 0
          <6>1. /\ j \in 1 .. Len(ctcq[c]) - 1 /\ j + 1 \in 1 .. i - 1
            BY <3>2, <5>2
          <6>2. ctcq'[c][j] = ctcq[c][j + 1] /\ ctcq[c][j + 1].cmplt # 0
            BY <3>2, <4>1, <6>1
          <6> QED
            BY <6>2
        <5> QED
          BY <5>1, <5>2
      <4>4. FirstUndone(c, i - 1)'
        <5>1. i - 1 \in DOMAIN ctcq'[c] /\ ctcq'[c][i - 1].cmplt = 0
          BY <3>2, <4>2, <4>3
        <5> QED
          BY <4>3, <5>1 DEF FirstUndone
      <4> QED
        BY <3>1, <3>2, <4>2, <4>3, <4>4
    <3> QED
      BY <2>1, <3>3, <3>4
  <2> QED
    BY <1>a, <2>1, <2>2, <2>3
<1>5. UNCHANGED <<ctcq, inv>> => AtWork'
  BY DEF AtWork, FirstUndone, Complete
<1> QED
  BY <1>1, <1>2, <1>3, <1>4, <1>5, SameIsSame DEF PipeStep, CtcqSame

LEMMA PipeInvStep ==
  ASSUME Types, PipeInv, PairInv, PipeStep
  PROVE  PipeInv'
BY PipeTypesStep, KindsStep, EntryShapesStep, AtWorkStep, InOrderStep DEF PipeInv

\* No barrier starts between the transactions of an operation.
LEMMA HalfAloneStep ==
  ASSUME Types, HalfAlone, [Next]_vars
  PROVE  HalfAlone'
<1>a. half \in [CORE -> Op \cup {NONE}] /\ fence \in [CORE -> {"none", "aw", "ar"}]
  BY DEF Types, ProgramTypes
<1>1. ASSUME NEW c \in CORE, NEW k \in {"ici", "tlb"}, SendCtc(c, k)
      PROVE  HalfAlone'
  <2>1. fence[c] = "none" /\ fence' = fence /\ \E v : half' = [half EXCEPT ![c] = v]
    BY <1>1 DEF SendCtc
  <2> QED
    BY <1>a, <2>1 DEF HalfAlone
<1>2. ASSUME NEW c \in CORE, SendSecond(c)
      PROVE  HalfAlone'
  <2>1. half' = [half EXCEPT ![c] = NONE] /\ fence' = fence
    BY <1>2 DEF SendSecond
  <2> QED
    BY <1>a, <2>1 DEF HalfAlone
<1>3. ASSUME NEW c \in CORE, FenceAw(c)
      PROVE  HalfAlone'
  <2>1. half[c] = NONE /\ half' = half /\ fence' = [fence EXCEPT ![c] = "aw"]
    BY <1>3 DEF FenceAw
  <2> QED
    BY <1>a, <2>1 DEF HalfAlone
<1>4. ASSUME NEW c \in CORE, FenceAr(c)
      PROVE  HalfAlone'
  <2>1. fence[c] = "aw" /\ half' = half /\ fence' = [fence EXCEPT ![c] = "ar"]
    BY <1>4 DEF FenceAr
  <2> QED
    BY <1>a, <2>1 DEF HalfAlone
<1>5. ASSUME NEW c \in CORE, BarResp(c)
      PROVE  HalfAlone'
  <2>1. half' = half /\ fence' = [fence EXCEPT ![c] = "none"]
    BY <1>5 DEF BarResp
  <2> QED
    BY <1>a, <2>1 DEF HalfAlone
<1>6. UNCHANGED <<half, fence>> => HalfAlone'
  BY DEF HalfAlone
<1>7. ASSUME NEW c \in CORE,
             \/ Fetch(c) \/ ChangeFlow(c) \/ Store(c) \/ \E k \in {"wo", "so"} : NcWrite(c, k)
             \/ ArBar(c) \/ AwBar(c) \/ \E t \in TARGET : BmbGrant(c, t)
             \/ BarDone(c) \/ CtcCreate(c) \/ AcCtc(c)
      PROVE  UNCHANGED <<half, fence>>
  BY <1>7, Zenon DEF Fetch, ChangeFlow, Store, NcWrite, ArBar, AwBar, BmbGrant, BarDone,
                     CtcCreate, AcCtc, prog
<1>8. CASE CtcBar \/ CtcEmpty \/ CtcCmplt \/ SabStep \/ NcStep \/ ObeyStep
  <2>1. CtcBar \/ CtcEmpty \/ CtcCmplt => UNCHANGED <<half, fence>>
    BY DEF CtcBar, CtcEmpty, CtcCmplt, prog
  <2>2. SabStep => UNCHANGED <<half, fence>>
    BY Zenon DEF SabStep, SabFetch, SabStore, AcSnoop, CrSnoop, SabBar, SabStoreDone,
                 SabFetchDone, SabBarDone, prog
  <2>3. NcStep => UNCHANGED <<half, fence>>
    BY Zenon DEF NcStep, NcqCreate, NcqBarDone, MemDone, NcqBar, EbiuTake, prog
  <2>4. ObeyStep => UNCHANGED <<half, fence>>
    BY ObeyIsAside DEF Aside
  <2> QED
    BY <1>6, <1>8, <2>1, <2>2, <2>3, <2>4
<1>9. CASE UNCHANGED vars
  BY <1>6, <1>9 DEF vars, prog
<1>10. ASSUME Ask \/ BarrierStep \/ CtcStep
       PROVE  HalfAlone'
  BY <1>1, <1>2, <1>3, <1>4, <1>5, <1>6, <1>7, <1>8, <1>10 DEF Ask, BarrierStep, CtcStep
<1> QED
  BY <1>8, <1>9, <1>10, NextSteps

-----------------------------------------------------------------------------
\* What the linking of a channel depends on.
LEMMA SameAr ==
  ASSUME NEW c, NEW x, ArLinked(c, x), ar'[c] = ar[c], half'[c] = half[c]
  PROVE  ArLinked(c, x)'
BY DEF ArLinked, Linked

LEMMA SamePassed ==
  ASSUME NEW d, Kept(d)' = Kept(d), ac'[d] = ac[d]
  PROVE  Passed(d)' = Passed(d)
BY DEF Passed

LEMMA SameAc ==
  ASSUME NEW d, AcLinked(d), Kept(d)' = Kept(d), ac'[d] = ac[d], mask'[d] = mask[d]
  PROVE  AcLinked(d)'
BY SamePassed DEF AcLinked, Linked

LEMMA SameTo ==
  ASSUME NEW d, NEW x, ToLinked(d, x), Passed(d)' = Passed(d), reqq' = reqq
  PROVE  ToLinked(d, x)'
BY DEF ToLinked, NextFor

LEMMA SameKept ==
  ASSUME NEW d, ctcq'[d] = ctcq[d]
  PROVE  Kept(d)' = Kept(d)
BY DEF Kept, Waiting, Complete

\* The core takes, starts or answers what it has, and nothing opens.
LEMMA SamePairs ==
  ASSUME NEW x, Pairs(x), UNCHANGED <<sel, ar, half, reqq, ac, mask>>,
         \A d \in CORE : Kept(d)' = Kept(d)
  PROVE  Pairs(x)'
<1>1. Selects(x)' /\ QueueLinked(x)'
  BY DEF Pairs, Selects, QueueLinked, sel
<1>2. ASSUME NEW d \in CORE
      PROVE  ArLinked(d, x)' /\ AcLinked(d)' /\ ToLinked(d, x)'
  <2>1. ArLinked(d, x) /\ AcLinked(d) /\ ToLinked(d, x) /\ Passed(d)' = Passed(d)
    BY SamePassed DEF Pairs
  <2> QED
    BY <2>1, SameAr, SameAc, SameTo
<1> QED
  BY <1>1, <1>2 DEF Pairs

LEMMA ArPairs ==
  ASSUME Types, Kinds, NEW x, Pairs(x), NEW c \in CORE,
         ArShrinks(c) \/ \E m \in Message : ArGrows(c, m)
  PROVE  Pairs(x)'
<1>1. UNCHANGED <<sel, reqq, ac, mask, ctcq>>
  BY DEF ArShrinks, ArGrows
<1>2. Selects(x)' /\ QueueLinked(x)'
  BY <1>1 DEF Pairs, Selects, QueueLinked, sel
<1>3. ASSUME NEW d \in CORE
      PROVE  AcLinked(d)' /\ ToLinked(d, x)'
  <2>1. Kept(d)' = Kept(d) /\ Passed(d)' = Passed(d)
    BY <1>1, SameKept, SamePassed
  <2> QED
    BY <1>1, <2>1, SameAc, SameTo DEF Pairs
<1>4. ar \in [CORE -> Seq(Message)] /\ half \in [CORE -> Op \cup {NONE}]
  BY DEF Types, ProgramTypes
<1>5. ASSUME NEW d \in CORE, d # c
      PROVE  ArLinked(d, x)'
  <2>1. ar'[d] = ar[d] /\ half'[d] = half[d]
    BY <1>4, <1>5 DEF ArShrinks, ArGrows
  <2> QED
    BY <2>1, SameAr DEF Pairs
<1>6. Linked(ar[c], Awaited(c, x), half[c])
  BY DEF Pairs, ArLinked
<1>7. ArLinked(c, x)'
  <2>1. ASSUME NEW m \in Message, ArGrows(c, m)
        PROVE  ArLinked(c, x)'
    <3>1. ar'[c] = Append(ar[c], m) /\ half'[c] = Opens(m) /\ Follows(half[c], m)
      BY <1>4, <2>1 DEF ArGrows
    <3>2. Linked(Append(ar[c], m), Awaited(c, x), Opens(m))
      BY <1>4, <1>6, <3>1, LinkAppend
    <3> QED
      BY <3>1, <3>2 DEF ArLinked, Linked
  <2>2. ASSUME ArShrinks(c)
        PROVE  ArLinked(c, x)'
    <3> DEFINE h == Head(ar[c])
    <3>1. ar[c] # <<>> /\ h.k # "ctc" /\ ar'[c] = Tail(ar[c]) /\ half'[c] = half[c]
      BY <1>4, <2>2 DEF ArShrinks
    <3>2. Follows(Awaited(c, x), h) /\ Linked(Tail(ar[c]), Opens(h), half[c])
      BY <1>4, <1>6, <3>1, LinkTail
    <3>3. h.half = 0
      <4>1. 1 \in DOMAIN ar[c] /\ h = ar[c][1]
        BY <1>4, <3>1
      <4> QED
        BY <3>1, <4>1 DEF Kinds
    <3>4. Awaited(c, x) = Opens(h)
      BY <3>1, <3>2, <3>3 DEF Follows, Opens
    <3> QED
      BY <3>1, <3>2, <3>4 DEF ArLinked, Linked
  <2> QED
    BY <2>1, <2>2
<1> QED
  BY <1>2, <1>3, <1>5, <1>7 DEF Pairs

\* The CTCQ takes a transaction only of the core that it waits for.
LEMMA CreatedPairs ==
  ASSUME Types, PipeInv, NEW x \in CtcOp \cup {NONE}, Pairs(x),
         NEW c \in CORE, NEW m \in Message, Created(c, m)
  PROVE  Opens(m) \in CtcOp \cup {NONE} /\ Pairs(Opens(m))'
<1> USE DEF PipeInv
<1> DEFINE h == Head(ar[c])
<1>1. /\ ar[c] # <<>> /\ h.k = "ctc" /\ c \in last_req_sel
      /\ m.k = "ctc" /\ m.op = h.op /\ m.half = h.half
      /\ last_req_sel' = LastReqSel(c, m) /\ two_trans_need' = More(m)
      /\ ar' = [ar EXCEPT ![c] = Tail(@)]
      /\ UNCHANGED <<half, ac, mask, owed, ctcq, inv>>
  BY DEF Created
<1>2. ar \in [CORE -> Seq(Message)] /\ half \in [CORE -> Op \cup {NONE}]
  BY DEF Types, ProgramTypes
<1>3. OpMsg(h) /\ h.op[1] = c /\ h.op \in CtcOp
  <2>1. 1 \in DOMAIN ar[c] /\ h = ar[c][1]
    BY <1>1, <1>2
  <2> QED
    BY <1>1, <2>1 DEF Kinds, OpMsg
<1>4. /\ OpMsg(m) /\ m.op # NONE /\ Opens(m) = Opens(h)
      /\ Opens(m) \in {NONE, m.op} /\ (Opens(m) = m.op <=> More(m))
  <2>1. h.op # NONE
    BY <1>3, BroadcastAssumption DEF CtcOp, KIND
  <2> QED
    BY <1>1, <1>3, <2>1 DEF OpMsg, Opens, More
<1>5. Awaited(c, x) = x
  BY <1>1 DEF Pairs, Selects, Awaited, CtcOp
<1>6. Selects(Opens(m))'
  <2>1. Opens(m) = NONE => Selects(Opens(m))'
    BY <1>1, <1>4 DEF Selects, LastReqSel
  <2>2. Opens(m) = m.op => Selects(Opens(m))'
    BY <1>1, <1>3, <1>4 DEF Selects, LastReqSel
  <2> QED
    BY <1>4, <2>1, <2>2
<1>7. Linked(ar[c], x, half[c])
  BY <1>5 DEF Pairs, ArLinked
<1>8. Follows(x, h) /\ Linked(Tail(ar[c]), Opens(h), half[c])
  BY <1>1, <1>2, <1>7, LinkTail
<1>9. Follows(x, m)
  BY <1>1, <1>8 DEF Follows
<1>10. ASSUME NEW d \in CORE
       PROVE  ArLinked(d, Opens(m))'
  <2>1. CASE d = c
    <3>1. ar'[d] = Tail(ar[c]) /\ half'[d] = half[c] /\ Awaited(d, Opens(m)) = Opens(h)
      BY <1>1, <1>2, <1>3, <1>4, <2>1 DEF Awaited
    <3> QED
      BY <1>8, <3>1 DEF ArLinked, Linked
  <2>2. CASE d # c
    <3>1. ar'[d] = ar[d] /\ half'[d] = half[d]
      BY <1>1, <1>2, <2>2
    <3>2. Awaited(d, Opens(m)) = Awaited(d, x)
      BY <1>1, <1>3, <1>4, <1>5, <2>2 DEF Awaited
    <3>3. ArLinked(d, x)
      BY DEF Pairs
    <3> QED
      BY <3>1, <3>2, <3>3 DEF ArLinked, Linked
  <2> QED
    BY <2>1, <2>2
<1>11. /\ Len(reqq') = Len(reqq) + 1 /\ DOMAIN reqq' = 1 .. Len(reqq) + 1
       /\ reqq' # <<>> /\ (reqq = <<>> <=> Len(reqq) = 0)
       /\ \A i \in 1 .. Len(reqq) : reqq'[i] = reqq[i]
       /\ reqq'[Len(reqq) + 1].msg = m /\ reqq'[Len(reqq) + 1].todo = CORE
       /\ Len(reqq) \in Nat /\ DOMAIN reqq = 1 .. Len(reqq)
  BY CreatedMeans, RequestTypes
<1>12. QueueLinked(Opens(m))'
  <2>1. QueueLinked(x)
    BY DEF Pairs
  <2>2. ASSUME NEW i \in 1 .. Len(reqq') - 1
        PROVE  Follows(Opens(reqq'[i].msg), reqq'[i + 1].msg)
    <3>1. CASE i = Len(reqq)
      BY <1>9, <1>11, <2>1, <2>2, <3>1 DEF QueueLinked
    <3>2. CASE i # Len(reqq)
      BY <1>11, <2>1, <2>2, <3>2 DEF QueueLinked
    <3> QED
      BY <3>1, <3>2
  <2> QED
    BY <1>11, <2>2 DEF QueueLinked
<1>13. ASSUME NEW d \in CORE
       PROVE  AcLinked(d)' /\ ToLinked(d, Opens(m))'
  <2>1. Kept(d)' = Kept(d) /\ Passed(d)' = Passed(d)
    BY <1>1, SameKept, SamePassed
  <2>2. AcLinked(d)'
    BY <1>1, <2>1, SameAc DEF Pairs
  <2>3. ToLinked(d, x)
    BY DEF Pairs
  <2>4. ASSUME NEW i \in DOMAIN reqq', NextFor(d, i)'
        PROVE  Follows(Passed(d), reqq'[i].msg)
    <3>1. CASE i = Len(reqq) + 1
      <4>1. \A j \in DOMAIN reqq : d \notin reqq[j].todo
        BY <1>11, <2>4, <3>1 DEF NextFor
      <4> QED
        BY <1>9, <1>11, <2>3, <3>1, <4>1 DEF ToLinked
    <3>2. CASE i # Len(reqq) + 1
      <4>1. NextFor(d, i) /\ reqq'[i] = reqq[i] /\ i \in DOMAIN reqq
        BY <1>11, <2>4, <3>2 DEF NextFor
      <4> QED
        BY <2>3, <4>1 DEF ToLinked
    <3> QED
      BY <3>1, <3>2
  <2>5. ~(\A i \in DOMAIN reqq' : d \notin reqq'[i].todo)
    <3>1. Len(reqq) + 1 \in DOMAIN reqq'
      BY <1>11
    <3> QED
      BY <1>11, <3>1
  <2> QED
    BY <2>1, <2>2, <2>4, <2>5 DEF ToLinked
<1> QED
  BY <1>3, <1>4, <1>1, <1>6, <1>10, <1>12, <1>13 DEF Pairs

\* What is open after a transaction that goes on an AC channel.
LEMMA AcAppend ==
  ASSUME PipeTypes, NEW d \in CORE, AcLinked(d), NEW m \in AcMessage, Follows(Passed(d), m),
         ac'[d] = Append(ac[d], m), Kept(d)' = Kept(d), mask'[d] <=> Opens(m) # NONE
  PROVE  Passed(d)' = Opens(m) /\ AcLinked(d)'
<1>1. ac[d] \in Seq(AcMessage)
  BY DEF PipeTypes
<1>2. Linked(Append(ac[d], m), Kept(d), Opens(m))
  BY <1>1, LinkAppend DEF AcLinked
<1>3. /\ Append(ac[d], m) # <<>> /\ Append(ac[d], m)[Len(ac[d]) + 1] = m
      /\ Len(Append(ac[d], m)) = Len(ac[d]) + 1
  BY <1>1, AppendFacts
<1>4. Passed(d)' = Opens(m)
  BY <1>3 DEF Passed
<1> QED
  BY <1>2, <1>4 DEF AcLinked, Linked

LEMMA SentPairs ==
  ASSUME Types, PipeInv, NEW x \in CtcOp \cup {NONE}, Pairs(x),
         NEW c \in CORE, NEW i \in DOMAIN reqq, NEW n \in {0, 1}, Sent(c, i, n)
  PROVE  Pairs(x)'
<1> USE DEF PipeInv
<1>1. /\ NextFor(c, i) /\ (n = 1 => reqq[1].todo = {c})
      /\ ac' = [ac EXCEPT ![c] = Append(@, reqq[i].msg)]
      /\ mask' = [mask EXCEPT ![c] = More(reqq[i].msg)]
      /\ UNCHANGED <<ar, half, sel, ctcq>>
  BY DEF Sent
<1>2. AfterSent(c, i, n) /\ Len(reqq) \in Nat /\ DOMAIN reqq = 1 .. Len(reqq)
  BY SentMeans, RequestTypes
<1>3. /\ i \in 1 .. Len(reqq) /\ Len(reqq') = Len(reqq) - n /\ DOMAIN reqq' = 1 .. Len(reqq) - n
      /\ \A j \in 1 .. Len(reqq) - n :
           /\ j + n \in 1 .. Len(reqq) /\ reqq'[j].msg = reqq[j + n].msg
           /\ reqq'[j].todo = IF j + n = i THEN reqq[i].todo \ {c} ELSE reqq[j + n].todo
      /\ c \in reqq[i].todo /\ \A j \in 1 .. i - 1 : c \notin reqq[j].todo
      /\ reqq[i].msg \in Message
  BY <1>2 DEF AfterSent
<1>4. Selects(x)'
  BY <1>1 DEF Pairs, Selects, sel
<1>5. QueueLinked(x)'
  <2>1. QueueLinked(x)
    BY DEF Pairs
  <2>2. ASSUME NEW j \in 1 .. Len(reqq') - 1
        PROVE  Follows(Opens(reqq'[j].msg), reqq'[j + 1].msg)
    <3>1. /\ j \in 1 .. Len(reqq) - n /\ j + 1 \in 1 .. Len(reqq) - n
          /\ j + n \in 1 .. Len(reqq) - 1 /\ (j + 1) + n = (j + n) + 1
      BY <1>2, <1>3, <2>2
    <3>2. reqq'[j].msg = reqq[j + n].msg /\ reqq'[j + 1].msg = reqq[(j + n) + 1].msg
      BY <1>3, <3>1
    <3> QED
      BY <2>1, <3>1, <3>2 DEF QueueLinked
  <2>3. ASSUME reqq' # <<>>
        PROVE  x = Opens(reqq'[Len(reqq')].msg)
    <3>1. Len(reqq') > 0 /\ reqq # <<>>
      <4>1. reqq' \in Seq(Request) /\ reqq \in Seq(Request)
        BY PipeTypesStep DEF Sent, PipeTypes
      <4> QED
        BY <1>2, <1>3, <2>3, <4>1
    <3>2. Len(reqq') \in 1 .. Len(reqq) - n /\ Len(reqq') + n = Len(reqq)
      BY <1>2, <1>3, <3>1
    <3>3. reqq'[Len(reqq')].msg = reqq[Len(reqq)].msg
      BY <1>3, <3>2
    <3> QED
      BY <2>1, <3>1, <3>3 DEF QueueLinked
  <2> QED
    BY <2>2, <2>3 DEF QueueLinked
<1>6. \A d \in CORE : ArLinked(d, x)'
  BY <1>1, SameAr DEF Pairs
<1>7. \A d \in CORE : Kept(d)' = Kept(d)
  BY <1>1, SameKept
<1>8. ASSUME NEW d \in CORE, d # c
      PROVE  AcLinked(d)' /\ ToLinked(d, x)'
  <2>1. ac'[d] = ac[d] /\ mask'[d] = mask[d]
    BY <1>1, <1>8 DEF PipeTypes
  <2>2. Passed(d)' = Passed(d) /\ AcLinked(d)'
    BY <1>7, <2>1, SamePassed, SameAc DEF Pairs
  <2>3. ToLinked(d, x)
    BY DEF Pairs
  <2>4. \A j \in 1 .. Len(reqq) - n : d \in reqq'[j].todo <=> d \in reqq[j + n].todo
    BY <1>3, <1>8
  <2>5. ASSUME \A j \in DOMAIN reqq' : d \notin reqq'[j].todo
        PROVE  \A j \in DOMAIN reqq : d \notin reqq[j].todo
    <3> TAKE j \in DOMAIN reqq
    <3>1. CASE n = 1 /\ j = 1
      BY <1>1, <1>8, <3>1
    <3>2. CASE ~(n = 1 /\ j = 1)
      <4>1. j - n \in 1 .. Len(reqq) - n /\ (j - n) + n = j
        BY <1>2, <3>2
      <4> QED
        BY <1>3, <2>4, <2>5, <4>1
    <3> QED
      BY <3>1, <3>2
  <2>6. ASSUME NEW j \in DOMAIN reqq', NextFor(d, j)'
        PROVE  NextFor(d, j + n) /\ reqq'[j].msg = reqq[j + n].msg /\ j + n \in DOMAIN reqq
    <3>1. j \in 1 .. Len(reqq) - n /\ j + n \in 1 .. Len(reqq) /\ reqq'[j].msg = reqq[j + n].msg
      BY <1>3
    <3>2. d \in reqq[j + n].todo
      BY <2>4, <2>6, <3>1 DEF NextFor
    <3>3. ASSUME NEW k \in 1 .. (j + n) - 1
          PROVE  d \notin reqq[k].todo
      <4>1. CASE n = 1 /\ k = 1
        BY <1>1, <1>8, <4>1
      <4>2. CASE ~(n = 1 /\ k = 1)
        <5>1. k - n \in 1 .. j - 1 /\ (k - n) + n = k /\ k - n \in 1 .. Len(reqq) - n
          BY <1>2, <3>1, <4>2
        <5>2. d \notin reqq'[k - n].todo
          BY <2>6, <5>1 DEF NextFor
        <5> QED
          BY <2>4, <5>1, <5>2
      <4> QED
        BY <4>1, <4>2
    <3> QED
      BY <1>2, <3>1, <3>2, <3>3 DEF NextFor
  <2>7. ToLinked(d, x)'
    BY <2>2, <2>3, <2>5, <2>6 DEF ToLinked
  <2> QED
    BY <2>2, <2>7
<1>9. AcLinked(c)' /\ ToLinked(c, x)'
  <2> DEFINE m == reqq[i].msg
  <2>1. OpMsg(m) /\ m \in AcMessage
    <3>1. OpMsg(m)
      BY DEF Kinds
    <3> QED
      BY <1>3, <3>1, ToAc DEF OpMsg
  <2>2. Follows(Passed(c), m) /\ AcLinked(c)
    BY <1>1 DEF Pairs, ToLinked
  <2>3. ac'[c] = Append(ac[c], m) /\ mask'[c] = More(m)
    BY <1>1 DEF PipeTypes
  <2>4. More(m) <=> Opens(m) # NONE
    <3>1. m.op # NONE
      BY <2>1, BroadcastAssumption DEF OpMsg, CtcOp, KIND
    <3> QED
      BY <3>1 DEF Opens, More
  <2>5. Passed(c)' = Opens(m) /\ AcLinked(c)'
    <3> HIDE DEF m
    <3> QED
      BY <1>7, <2>1, <2>2, <2>3, <2>4, AcAppend
  <2>6. ASSUME NEW j \in 1 .. Len(reqq), j > i
        PROVE  c \in reqq[j].todo
    BY <1>2, <1>3, <2>6 DEF InOrder
  <2>7. ASSUME \A j \in DOMAIN reqq' : c \notin reqq'[j].todo
        PROVE  Opens(m) = x
    <3>1. i = Len(reqq)
      <4>1. ASSUME i # Len(reqq)
            PROVE  FALSE
        <5>1. Len(reqq) > i /\ Len(reqq) \in 1 .. Len(reqq)
          BY <1>2, <1>3, <4>1
        <5>2. c \in reqq[Len(reqq)].todo
          BY <2>6, <5>1
        <5>3. Len(reqq) - n \in 1 .. Len(reqq) - n /\ (Len(reqq) - n) + n = Len(reqq)
          BY <1>2, <1>3, <5>1
        <5>4. c \in reqq'[Len(reqq) - n].todo
          BY <1>3, <4>1, <5>2, <5>3
        <5> QED
          BY <1>3, <2>7, <5>3, <5>4
      <4> QED
        BY <4>1
    <3>2. reqq # <<>>
      BY <1>2, <1>3
    <3> QED
      BY <3>1, <3>2 DEF Pairs, QueueLinked
  <2>8. ASSUME NEW j \in DOMAIN reqq', NextFor(c, j)'
        PROVE  Follows(Opens(m), reqq'[j].msg)
    <3>1. j \in 1 .. Len(reqq) - n /\ j + n \in 1 .. Len(reqq) /\ c \in reqq'[j].todo
      BY <1>3, <2>8 DEF NextFor
    <3>2. j + n # i /\ c \in reqq[j + n].todo
      BY <1>3, <3>1
    <3>3. j + n > i
      BY <1>2, <1>3, <3>1, <3>2
    <3>4. j + n = i + 1
      <4>1. ASSUME j + n > i + 1
            PROVE  FALSE
        <5>1. i + 1 \in 1 .. Len(reqq) /\ i + 1 > i
          BY <1>2, <1>3, <3>1, <4>1
        <5>2. c \in reqq[i + 1].todo
          BY <2>6, <5>1
        <5>3. /\ (i + 1) - n \in 1 .. j - 1 /\ ((i + 1) - n) + n = i + 1
              /\ (i + 1) - n \in 1 .. Len(reqq) - n /\ i + 1 # i
          BY <1>2, <1>3, <3>1, <4>1
        <5>4. c \in reqq'[(i + 1) - n].todo
          BY <1>3, <5>2, <5>3
        <5> QED
          BY <2>8, <5>3, <5>4 DEF NextFor
      <4> QED
        BY <1>2, <1>3, <3>1, <3>3, <4>1
    <3>5. i \in 1 .. Len(reqq) - 1 /\ reqq'[j].msg = reqq[i + 1].msg
      BY <1>2, <1>3, <3>1, <3>4
    <3> QED
      BY <3>5 DEF Pairs, QueueLinked
  <2> HIDE DEF m
  <2>9. ToLinked(c, x)'
    BY <2>5, <2>7, <2>8 DEF ToLinked
  <2> QED
    BY <2>5, <2>9
<1> QED
  BY <1>4, <1>5, <1>6, <1>8, <1>9 DEF Pairs

\* A snoop enters where nothing is open.
LEMMA SnoopedPairs ==
  ASSUME Types, PipeInv, NEW x, Pairs(x), NEW c \in CORE, NEW e \in ENTRY, Snooped(c, e)
  PROVE  Pairs(x)'
<1> USE DEF PipeInv
<1> DEFINE m == Msg("snp", NONE, 0, e)
<1>1. /\ ~mask[c] /\ ac' = [ac EXCEPT ![c] = Append(@, m)]
      /\ UNCHANGED <<ar, half, sel, reqq, mask, ctcq>>
  BY DEF Snooped
<1>2. m \in AcMessage /\ m.half = 0
  BY DEF Msg, AcMessage
<1>3. Opens(m) = NONE
  BY <1>2 DEF Opens
<1> HIDE DEF m
<1>4. Passed(c) = NONE /\ AcLinked(c)
  BY <1>1 DEF Pairs, AcLinked
<1>5. \A d \in CORE : Kept(d)' = Kept(d) /\ ArLinked(d, x)'
  BY <1>1, SameKept, SameAr DEF Pairs
<1>6. Passed(c)' = NONE /\ AcLinked(c)'
  <2>1. ac'[c] = Append(ac[c], m) /\ Follows(Passed(c), m) /\ mask'[c] = mask[c]
    BY <1>1, <1>2, <1>4 DEF PipeTypes, Follows
  <2> QED
    BY <1>1, <1>2, <1>3, <1>4, <1>5, <2>1, AcAppend
<1>7. ASSUME NEW d \in CORE
      PROVE  AcLinked(d)' /\ ToLinked(d, x)'
  <2>1. CASE d = c
    BY <1>1, <1>4, <1>6, <2>1, SameTo DEF Pairs
  <2>2. CASE d # c
    <3>1. ac'[d] = ac[d] /\ mask'[d] = mask[d]
      BY <1>1, <2>2 DEF PipeTypes
    <3> QED
      BY <1>1, <1>5, <3>1, SamePassed, SameAc, SameTo DEF Pairs
  <2> QED
    BY <2>1, <2>2
<1>8. Selects(x)' /\ QueueLinked(x)'
  BY <1>1 DEF Pairs, Selects, QueueLinked, sel
<1> QED
  BY <1>5, <1>7, <1>8 DEF Pairs

\* A core takes a transaction from its AC channel, and keeps what that opens.
LEMMA AcTail ==
  ASSUME PipeTypes, NEW d \in CORE, AcLinked(d), ac[d] # <<>>,
         ac'[d] = Tail(ac[d]), Kept(d)' = Opens(Head(ac[d])), mask'[d] = mask[d]
  PROVE  Passed(d)' = Passed(d) /\ AcLinked(d)'
<1>1. ac[d] \in Seq(AcMessage)
  BY DEF PipeTypes
<1>2. Linked(Tail(ac[d]), Opens(Head(ac[d])), Passed(d))
  BY <1>1, LinkTail DEF AcLinked
<1>3. Passed(d)' = Passed(d)
  <2>1. /\ Len(ac[d]) \in Nat /\ Len(ac[d]) > 0 /\ Head(ac[d]) = ac[d][1]
        /\ Len(Tail(ac[d])) = Len(ac[d]) - 1
        /\ \A i \in 1 .. Len(ac[d]) - 1 : Tail(ac[d])[i] = ac[d][i + 1]
        /\ Tail(ac[d]) = <<>> <=> Len(ac[d]) = 1
    BY <1>1, TailFacts
  <2>2. Passed(d) = Opens(ac[d][Len(ac[d])])
    BY DEF Passed
  <2>3. CASE Len(ac[d]) = 1
    BY <2>1, <2>2, <2>3 DEF Passed
  <2>4. CASE Len(ac[d]) # 1
    <3>1. Tail(ac[d])[Len(Tail(ac[d]))] = ac[d][Len(ac[d])]
      BY <2>1, <2>4
    <3> QED
      BY <2>1, <2>2, <2>4, <3>1 DEF Passed
  <2> QED
    BY <2>3, <2>4
<1> QED
  BY <1>2, <1>3 DEF AcLinked, Linked

LEMMA ObeyedKept ==
  ASSUME Types, PipeInv, NEW c \in CORE, AcLinked(c), Obeyed(c)
  PROVE  Kept(c)' = Opens(Head(ac[c]))
<1> USE DEF PipeInv
<1>0. PICK n, h : n = Len(ctcq[c]) /\ h = Head(ac[c])
  OBVIOUS
<1>1. ac[c] # <<>> /\ h.k = "ctc" /\ ac[c] \in Seq(AcMessage)
  BY <1>0 DEF Obeyed, PipeTypes
<1>2. h \in AcMessage /\ OpMsg(h)
  <2>1. 1 \in DOMAIN ac[c] /\ h = ac[c][1]
    BY <1>0, <1>1
  <2> QED
    BY <1>1, <2>1 DEF Kinds
<1>3. h.op # NONE
  BY <1>2, BroadcastAssumption DEF OpMsg, CtcOp, KIND
<1>4. Joined(c, h) \/ Entered(c, h)
  BY <1>0, ObeyedMeans
<1>5. ctcq'[c] \in Seq(CtcEntry) /\ n \in Nat
  BY <1>0, PipeTypesStep, QueueTypes DEF PipeTypes, PipeStep
<1>6. CASE Joined(c, h)
  <2>1. n > 0 /\ ~Complete(ctcq[c][n]) /\ Len(ctcq'[c]) = n
        /\ ctcq'[c][n].msgs = Append(ctcq[c][n].msgs, h)
    BY <1>0, <1>6 DEF Joined
  <2>2. Len(ctcq[c][n].msgs) = 1 /\ More(ctcq[c][n].msgs[1]) /\ h.half = 2
        /\ n \in 1 .. Len(ctcq[c])
    BY <1>0, <1>1, <2>1, JoinShape
  <2>3. ctcq[c][n].msgs \in Seq(AcMessage)
    BY <1>0, <2>2, QueueTypes
  <2>4. Len(ctcq'[c][n].msgs) = 2 /\ ctcq'[c][n].msgs[1] = ctcq[c][n].msgs[1]
    <3>1. PICK s : s = ctcq[c][n].msgs
      OBVIOUS
    <3>2. s \in Seq(AcMessage) /\ Len(s) = 1 /\ h \in AcMessage
      BY <1>2, <2>2, <2>3, <3>1
    <3>3. Len(Append(s, h)) = 2 /\ Append(s, h)[1] = s[1]
      BY <3>2, SecondJoins, Zenon
    <3> QED
      BY <2>1, <3>1, <3>3
  <2>5. Complete(ctcq'[c][n])
    BY <2>2, <2>4 DEF Complete
  <2>6. Kept(c)' = NONE
    BY <2>1, <2>5 DEF Kept, Waiting
  <2> QED
    BY <1>0, <2>2, <2>6 DEF Opens
<1>7. CASE Entered(c, h)
  <2>1. /\ n > 0 => Complete(ctcq[c][n])
        /\ Len(ctcq'[c]) = n + 1
        /\ ctcq'[c][n + 1].msgs = <<h>>
    BY <1>0, <1>7 DEF Entered
  <2>2. Kept(c) = NONE
    BY <1>0, <1>5, <2>1 DEF Kept, Waiting, PipeTypes
  <2>3. Follows(Kept(c), h)
    BY <1>0, <1>1, LinkTail DEF AcLinked
  <2>4. h.half = 1
    BY <1>2, <2>2, <2>3 DEF Follows, OpMsg
  <2>5. ctcq'[c] # <<>>
    BY <1>5, <2>1
  <2>6. Complete(ctcq'[c][n + 1]) <=> ~More(h)
    BY <2>1 DEF Complete
  <2>7. Kept(c)' = IF More(h) THEN h.op ELSE NONE
    BY <2>1, <2>5, <2>6 DEF Kept, Waiting
  <2> QED
    BY <1>0, <2>4, <2>7 DEF Opens
<1> QED
  BY <1>4, <1>6, <1>7

LEMMA TakenPairs ==
  ASSUME Types, PipeInv, NEW x, Pairs(x), NEW c \in CORE, Obeyed(c) \/ Missed(c)
  PROVE  Pairs(x)'
<1> USE DEF PipeInv
<1>1. /\ ac[c] # <<>> /\ ac' = [ac EXCEPT ![c] = Tail(@)]
      /\ UNCHANGED <<ar, half, sel, reqq, mask>>
  BY DEF Obeyed, Missed
<1>2. AcLinked(c)
  BY DEF Pairs
<1>3. Kept(c)' = Opens(Head(ac[c]))
  <2>1. CASE Obeyed(c)
    BY <1>2, <2>1, ObeyedKept
  <2>2. CASE Missed(c)
    <3>1. ctcq' = ctcq /\ ac[c] \in Seq(AcMessage) /\ Head(ac[c]).k = "snp"
      BY <2>2 DEF Missed, PipeTypes
    <3>2. Kept(c)' = Kept(c)
      BY <3>1, SameKept
    <3>3. Follows(Kept(c), Head(ac[c]))
      BY <1>1, <1>2, <3>1, LinkTail DEF AcLinked
    <3>4. Head(ac[c]).half = 0
      <4>1. 1 \in DOMAIN ac[c] /\ Head(ac[c]) = ac[c][1]
        BY <1>1, <3>1
      <4> QED
        BY <3>1, <4>1 DEF Kinds
    <3> QED
      BY <3>1, <3>2, <3>3, <3>4 DEF Follows, Opens
  <2> QED
    BY <2>1, <2>2
<1>4. ac'[c] = Tail(ac[c]) /\ mask'[c] = mask[c]
  BY <1>1 DEF PipeTypes
<1>5. Passed(c)' = Passed(c) /\ AcLinked(c)'
  BY <1>1, <1>2, <1>3, <1>4, AcTail
<1>6. Others(c)
  <2>1. Missed(c) => Others(c)
    BY DEF Missed, Others
  <2> QED
    BY <2>1, ObeyedMeans
<1>7. ASSUME NEW d \in CORE
      PROVE  AcLinked(d)' /\ ToLinked(d, x)'
  <2>1. CASE d = c
    BY <1>1, <1>5, <2>1, SameTo DEF Pairs
  <2>2. CASE d # c
    <3>1. ac'[d] = ac[d] /\ mask'[d] = mask[d] /\ ctcq'[d] = ctcq[d]
      BY <1>1, <1>6, <2>2 DEF PipeTypes, Others
    <3> QED
      BY <1>1, <3>1, SameKept, SamePassed, SameAc, SameTo DEF Pairs
  <2> QED
    BY <2>1, <2>2
<1>8. Selects(x)' /\ QueueLinked(x)' /\ \A d \in CORE : ArLinked(d, x)'
  BY <1>1, SameAr DEF Pairs, Selects, QueueLinked, sel
<1> QED
  BY <1>7, <1>8 DEF Pairs

\* What a core carries out or answers was complete.
LEMMA CountedKept ==
  ASSUME PipeTypes, PipeTypes', NEW c \in CORE, Others(c),
         (\E i, k : Counted(c, i, k)) \/ (EntryShapes /\ Left(c))
  PROVE  \A d \in CORE : Kept(d)' = Kept(d)
<1>1. ASSUME NEW d \in CORE, d # c
      PROVE  Kept(d)' = Kept(d)
  BY <1>1, SameKept DEF Others
<1>2. /\ ctcq[c] \in Seq(CtcEntry) /\ ctcq'[c] \in Seq(CtcEntry) /\ Len(ctcq[c]) \in Nat
      /\ ctcq[c] # <<>> <=> Len(ctcq[c]) > 0
      /\ ctcq'[c] # <<>> <=> Len(ctcq'[c]) > 0
  BY DEF PipeTypes
<1>3. ASSUME NEW i, NEW k, Counted(c, i, k)
      PROVE  Kept(c)' = Kept(c)
  <2>1. /\ Len(ctcq[c]) > 0 /\ Len(ctcq'[c]) = Len(ctcq[c])
        /\ ctcq'[c][Len(ctcq[c])].msgs = ctcq[c][Len(ctcq[c])].msgs
    BY <1>2, <1>3 DEF Counted
  <2>2. Complete(ctcq'[c][Len(ctcq'[c])]) <=> Complete(ctcq[c][Len(ctcq[c])])
    BY <2>1, CompleteWhen
  <2> QED
    BY <1>2, <2>1, <2>2 DEF Kept, Waiting, Complete
<1>4. ASSUME EntryShapes, Left(c)
      PROVE  Kept(c)' = Kept(c)
  <2>1. /\ Len(ctcq[c]) > 0 /\ ctcq[c][1].cmplt = 1 /\ Len(ctcq'[c]) = Len(ctcq[c]) - 1
        /\ \A i \in 1 .. Len(ctcq[c]) - 1 : ctcq'[c][i] = ctcq[c][i + 1]
    BY <1>4 DEF Left
  <2>2. CASE Len(ctcq[c]) = 1
    <3>1. Complete(ctcq[c][1])
      BY <1>2, <1>4, <2>1 DEF EntryShapes
    <3> QED
      BY <1>2, <2>1, <2>2, <3>1 DEF Kept, Waiting
  <2>3. CASE Len(ctcq[c]) # 1
    <3>1. /\ ctcq[c] # <<>> /\ ctcq'[c] # <<>>
          /\ ctcq'[c][Len(ctcq'[c])] = ctcq[c][Len(ctcq[c])]
      <4>1. /\ Len(ctcq'[c]) > 0 /\ Len(ctcq'[c]) \in 1 .. Len(ctcq[c]) - 1
            /\ Len(ctcq'[c]) + 1 = Len(ctcq[c])
        <5>1. PICK n, l : n = Len(ctcq[c]) /\ l = Len(ctcq'[c])
          OBVIOUS
        <5>2. n \in Nat /\ n > 0 /\ n # 1 /\ l = n - 1
          BY <1>2, <2>1, <2>3, <5>1
        <5>3. l > 0 /\ l \in 1 .. n - 1 /\ l + 1 = n
          BY <5>2
        <5> QED
          BY <5>1, <5>3
      <4> QED
        BY <1>2, <2>1, <4>1
    <3> QED
      BY <3>1 DEF Kept, Waiting, Complete
  <2> QED
    BY <2>2, <2>3
<1> QED
  BY <1>1, <1>3, <1>4

LEMMA PairInvStep ==
  ASSUME Types, PipeInv, PairInv, [Next]_vars
  PROVE  PairInv'
<1>1. HalfAlone' /\ PipeStep
  BY HalfAloneStep, NextPipe DEF PairInv
<1>2. PICK x \in CtcOp \cup {NONE} : Pairs(x)
  BY DEF PairInv
<1>3. PipeTypes /\ Kinds /\ EntryShapes /\ PipeTypes'
  BY <1>1, PipeTypesStep DEF PipeInv
<1>4. ASSUME NEW c \in CORE, NEW m \in Message, Created(c, m)
      PROVE  PairInv'
  <2>1. Opens(m) \in CtcOp \cup {NONE} /\ Pairs(Opens(m))'
    BY <1>2, <1>4, CreatedPairs
  <2> QED
    BY <1>1, <2>1 DEF PairInv
<1>5. ASSUME NEW c \in CORE,
             \/ ArShrinks(c) \/ \E m \in Message : ArGrows(c, m)
             \/ \E i \in DOMAIN reqq, n \in {0, 1} : Sent(c, i, n)
             \/ \E e \in ENTRY : Snooped(c, e)
             \/ Obeyed(c) \/ Missed(c)
      PROVE  Pairs(x)'
  BY <1>2, <1>3, <1>5, ArPairs, SentPairs, SnoopedPairs, TakenPairs
<1>6. ASSUME NEW c \in CORE,
             \/ \E i \in DOMAIN ctcq[c] : Started(c, i) \/ Carried(c, i)
             \/ AnswersCtc(c) \/ AnswersSnoop(c)
      PROVE  Pairs(x)'
  <2>1. UNCHANGED <<sel, ar, half, reqq, ac, mask>>
    BY <1>6, Zenon DEF Started, Carried, AnswersCtc, AnswersSnoop
  <2>2. ASSUME AnswersSnoop(c) \/ \E i \in DOMAIN ctcq[c] : Started(c, i)
        PROVE  \A d \in CORE : Kept(d)' = Kept(d)
    <3>1. ctcq' = ctcq
      BY <2>2 DEF AnswersSnoop, Started
    <3> QED
      BY <3>1, SameKept
  <2>3. ASSUME NEW i \in DOMAIN ctcq[c], Carried(c, i)
        PROVE  \A d \in CORE : Kept(d)' = Kept(d)
    BY <1>3, <2>3, CarriedMeans, CountedKept
  <2>4. ASSUME AnswersCtc(c)
        PROVE  \A d \in CORE : Kept(d)' = Kept(d)
    BY <1>3, <2>4, AnswersMeans, CountedKept
  <2>5. \A d \in CORE : Kept(d)' = Kept(d)
    BY <1>6, <2>2, <2>3, <2>4
  <2> QED
    BY <1>2, <2>1, <2>5, SamePairs
<1>7. ASSUME UNCHANGED pipe
      PROVE  Pairs(x)'
  <2>1. UNCHANGED <<sel, ar, half, reqq, ac, mask, ctcq>>
    BY <1>7 DEF pipe
  <2>2. \A d \in CORE : Kept(d)' = Kept(d)
    BY <2>1, SameKept
  <2> QED
    BY <1>2, <2>1, <2>2, SamePairs
<1>8. Pairs(x)' => PairInv'
  BY <1>1 DEF PairInv
<1> QED
  BY <1>1, <1>4, <1>5, <1>6, <1>7, <1>8 DEF PipeStep

LEMMA PairsFollow ==
  ASSUME PipeTypes, EntryShapes
  PROVE  PairsMeet
BY DEF EntryShapes, EntryShape, PairsMeet

\* Ids in a queue that grows or shrinks.
LEMMA AppendIds ==
  ASSUME NEW S, NEW s \in Seq(S), NEW m \in S
  PROVE  /\ \A id : Fresh(s, id) /\ (IsCtc(m) => m.id # id) => Fresh(Append(s, m), id)
         /\ Distinct(s) /\ (IsCtc(m) => Fresh(s, m.id)) => Distinct(Append(s, m))
         /\ \A d : QueueWaits(d, s) /\ (IsCtc(m) => Waits(d, m)) => QueueWaits(d, Append(s, m))
<1> DEFINE t == Append(s, m)
<1>1. /\ Len(s) \in Nat /\ DOMAIN s = 1 .. Len(s) /\ DOMAIN t = 1 .. Len(s) + 1
      /\ \A i \in 1 .. Len(s) : t[i] = s[i]
      /\ t[Len(s) + 1] = m
  BY AppendFacts
<1> HIDE DEF t
<1>2. ASSUME NEW id, Fresh(s, id), IsCtc(m) => m.id # id
      PROVE  Fresh(t, id)
  BY <1>1, <1>2 DEF Fresh
<1>3. ASSUME Distinct(s), IsCtc(m) => Fresh(s, m.id)
      PROVE  Distinct(t)
  <2>1. ASSUME NEW i \in DOMAIN t, NEW j \in DOMAIN t,
               IsCtc(t[i]), IsCtc(t[j]), t[i].id = t[j].id, i < j
        PROVE  FALSE
    <3>1. i \in DOMAIN s /\ t[i] = s[i]
      BY <1>1, <2>1
    <3>2. CASE j = Len(s) + 1
      BY <1>1, <1>3, <2>1, <3>1, <3>2 DEF Fresh
    <3>3. CASE j # Len(s) + 1
      <4>1. j \in DOMAIN s /\ t[j] = s[j]
        BY <1>1, <2>1, <3>3
      <4>2. i = j
        BY <1>3, <2>1, <3>1, <4>1 DEF Distinct
      <4> QED
        BY <1>1, <2>1, <4>2
    <3> QED
      BY <3>2, <3>3
  <2>2. \A i, j \in DOMAIN t : i < j \/ j < i \/ i = j
    BY <1>1
  <2> QED
    BY <2>1, <2>2 DEF Distinct
<1>4. ASSUME NEW d, QueueWaits(d, s), IsCtc(m) => Waits(d, m)
      PROVE  QueueWaits(d, t)
  BY <1>1, <1>4 DEF QueueWaits
<1> QED
  BY <1>2, <1>3, <1>4 DEF t

LEMMA TailIds ==
  ASSUME NEW S, NEW s \in Seq(S), s # <<>>
  PROVE  /\ \A id : Fresh(s, id) => Fresh(Tail(s), id)
         /\ Distinct(s) => /\ Distinct(Tail(s))
                           /\ IsCtc(Head(s)) => Fresh(Tail(s), Head(s).id)
         /\ \A d : QueueWaits(d, s) => /\ QueueWaits(d, Tail(s))
                                       /\ IsCtc(Head(s)) => Waits(d, Head(s))
<1> DEFINE t == Tail(s)
<1>1. /\ Len(s) \in Nat /\ Len(s) > 0 /\ DOMAIN s = 1 .. Len(s) /\ DOMAIN t = 1 .. Len(s) - 1
      /\ \A i \in 1 .. Len(s) - 1 : t[i] = s[i + 1]
      /\ Head(s) = s[1]
  BY TailFacts
<1> HIDE DEF t
<1>2. \A i \in DOMAIN t : i + 1 \in DOMAIN s /\ t[i] = s[i + 1] /\ i \in Nat /\ i + 1 # 1
  BY <1>1
<1>3. 1 \in DOMAIN s
  BY <1>1
<1>4. ASSUME NEW id, Fresh(s, id)
      PROVE  Fresh(t, id)
  BY <1>2, <1>4 DEF Fresh
<1>5. ASSUME Distinct(s)
      PROVE  Distinct(t) /\ (IsCtc(Head(s)) => Fresh(t, Head(s).id))
  <2>1. Distinct(t)
    <3>1. ASSUME NEW i \in DOMAIN t, NEW j \in DOMAIN t,
                 IsCtc(t[i]), IsCtc(t[j]), t[i].id = t[j].id
          PROVE  i = j
      <4>1. i + 1 = j + 1
        BY <1>2, <1>5, <3>1 DEF Distinct
      <4> QED
        BY <1>2, <4>1
    <3> QED
      BY <3>1 DEF Distinct
  <2>2. IsCtc(Head(s)) => Fresh(t, Head(s).id)
    <3>1. ASSUME IsCtc(s[1]), NEW i \in DOMAIN t, IsCtc(t[i]), t[i].id = s[1].id
          PROVE  FALSE
      <4>1. i + 1 = 1
        BY <1>2, <1>3, <1>5, <3>1 DEF Distinct
      <4> QED
        BY <1>2, <4>1
    <3> QED
      BY <1>1, <3>1 DEF Fresh
  <2> QED
    BY <2>1, <2>2
<1>6. ASSUME NEW d, QueueWaits(d, s)
      PROVE  QueueWaits(d, t) /\ (IsCtc(Head(s)) => Waits(d, Head(s)))
  BY <1>1, <1>2, <1>3, <1>6 DEF QueueWaits
<1> QED
  BY <1>4, <1>5, <1>6 DEF t

\* A transaction comes to the first of two queues, or goes from it to the second,
\* or goes from there.
LEMMA ApartMoves ==
  ASSUME NEW S, NEW s \in Seq(S), NEW t \in Seq(S), Apart(s, t), Distinct(s)
  PROVE  /\ \A m \in S : (IsCtc(m) => Fresh(t, m.id)) => Apart(Append(s, m), t)
         /\ s # <<>> => /\ Apart(Tail(s), Append(t, Head(s)))
                        /\ IsCtc(Head(s)) => Fresh(t, Head(s).id)
         /\ t # <<>> => Apart(s, Tail(t))
<1>1. ASSUME NEW m \in S, IsCtc(m) => Fresh(t, m.id)
      PROVE  Apart(Append(s, m), t)
  <2> DEFINE r == Append(s, m)
  <2>1. /\ Len(s) \in Nat /\ DOMAIN s = 1 .. Len(s) /\ DOMAIN r = 1 .. Len(s) + 1
        /\ \A i \in 1 .. Len(s) : r[i] = s[i]
        /\ r[Len(s) + 1] = m
    BY AppendFacts
  <2> HIDE DEF r
  <2>2. Apart(r, t)
    BY <1>1, <2>1 DEF Apart
  <2> QED
    BY <2>2 DEF r
<1>2. ASSUME s # <<>>
      PROVE  Apart(Tail(s), Append(t, Head(s))) /\ (IsCtc(Head(s)) => Fresh(t, Head(s).id))
  <2> DEFINE r == Tail(s)
             h == Head(s)
             u == Append(t, h)
  <2>1. /\ Len(s) \in Nat /\ Len(s) > 0 /\ DOMAIN s = 1 .. Len(s) /\ DOMAIN r = 1 .. Len(s) - 1
        /\ \A i \in 1 .. Len(s) - 1 : r[i] = s[i + 1]
        /\ h = s[1] /\ h \in S
    BY <1>2, TailFacts
  <2>2. IsCtc(h) => Fresh(t, h.id) /\ Fresh(r, h.id)
    <3>1. 1 \in DOMAIN s
      BY <2>1
    <3> HIDE DEF r, h
    <3>2. IsCtc(h) => Fresh(t, h.id)
      BY <2>1, <3>1 DEF Apart
    <3>3. IsCtc(h) => Fresh(r, h.id)
      BY <1>2, TailIds DEF r, h
    <3> QED
      BY <3>2, <3>3
  <2>3. ASSUME NEW id, Fresh(t, id), IsCtc(h) => h.id # id
        PROVE  Fresh(u, id)
    <3> HIDE DEF h
    <3> QED
      BY <2>1, <2>3, AppendIds
  <2> HIDE DEF r, h, u
  <2>4. ASSUME NEW i \in DOMAIN r, IsCtc(r[i])
        PROVE  Fresh(u, r[i].id)
    <3>1. Fresh(t, r[i].id)
      <4>1. i + 1 \in DOMAIN s /\ r[i] = s[i + 1]
        BY <2>1, <2>4
      <4> QED
        BY <2>4, <4>1 DEF Apart
    <3>2. IsCtc(h) => h.id # r[i].id
      BY <2>2, <2>4 DEF Fresh
    <3> QED
      BY <2>3, <3>1, <3>2
  <2>5. Apart(r, u)
    BY <2>4 DEF Apart
  <2> QED
    BY <2>2, <2>5 DEF r, h, u
<1>3. ASSUME t # <<>>
      PROVE  Apart(s, Tail(t))
  BY <1>3, TailIds DEF Apart
<1> QED
  BY <1>1, <1>2, <1>3

\* What waits in the next state, if the ids do.
StillWaits == \A d \in CORE, id \in 1 .. RESPQ : d \in respq[id] => d \in respq'[id]
AwaitsFrom ==
  /\ \A i \in DOMAIN reqq' : reqq'[i].todo \subseteq CORE
                             /\ \A d \in reqq'[i].todo : Waits(d, reqq'[i].msg)
  /\ \A d \in CORE : QueueWaits(d, ac'[d]) /\ QueueWaits(d, owed'[d])

LEMMA AwaitsFrame ==
  ASSUME StillWaits, AwaitsFrom
  PROVE  Awaits'
<1>1. AskedWait'
  BY DEF StillWaits, AwaitsFrom, AskedWait, Waits
<1>2. ASSUME NEW d \in CORE
      PROVE  QueueWaits(d, ac[d])' /\ QueueWaits(d, owed[d])'
  BY DEF StillWaits, AwaitsFrom, QueueWaits, Waits
<1> QED
  BY <1>1, <1>2 DEF Awaits

LEMMA QueuesOf ==
  ASSUME PipeTypes, NEW c \in CORE
  PROVE  ac[c] \in Seq(AcMessage) /\ owed[c] \in Seq(AcMessage)
BY DEF PipeTypes

\* A snoop, or a request that a core takes.
LEMMA ComesToAc ==
  ASSUME PipeTypes, NEW c \in CORE, NEW m \in AcMessage, ac' = [ac EXCEPT ![c] = Append(@, m)]
  PROVE  /\ ac'[c] = Append(ac[c], m) /\ \A d \in CORE \ {c} : ac'[d] = ac[d]
BY DEF PipeTypes

LEMMA SnoopIs ==
  ASSUME NEW e \in ENTRY
  PROVE  /\ Msg("snp", NONE, 0, e) \in AcMessage /\ ~IsCtc(Msg("snp", NONE, 0, e))
BY DEF Msg, AcMessage, IsCtc

LEMMA RequestIs ==
  ASSUME PipeTypes, Kinds, NEW i \in DOMAIN reqq
  PROVE  /\ reqq[i].msg \in AcMessage /\ IsCtc(reqq[i].msg) /\ reqq[i].todo \subseteq CORE
<1>1. reqq[i] \in Request /\ OpMsg(reqq[i].msg)
  BY DEF PipeTypes, Kinds
<1> QED
  BY <1>1, ToAc DEF Request, OpMsg, IsCtc

\* A transaction goes from AC to the answers that are owed.
GoesOn(c) ==
  /\ ac[c] # <<>> /\ Head(ac[c]) \in AcMessage
  /\ ac'[c] = Tail(ac[c]) /\ owed'[c] = Append(owed[c], Head(ac[c]))
  /\ \A d \in CORE \ {c} : ac'[d] = ac[d] /\ owed'[d] = owed[d]
  /\ UNCHANGED <<reqq, respq>>
LEMMA TakenGoesOn ==
  ASSUME PipeTypes, NEW c \in CORE, Obeyed(c) \/ Missed(c)
  PROVE  GoesOn(c)
<1>1. /\ ac[c] # <<>> /\ ac' = [ac EXCEPT ![c] = Tail(@)]
      /\ owed' = [owed EXCEPT ![c] = Append(@, Head(ac[c]))] /\ UNCHANGED <<reqq, respq>>
  BY DEF Obeyed, Missed
<1>2. Head(ac[c]) \in AcMessage
  BY <1>1, QueuesOf, TailFacts
<1> QED
  BY <1>1, <1>2 DEF PipeTypes, GoesOn

\* An answer goes.
AnswerGoes(c) ==
  /\ owed[c] # <<>> /\ owed'[c] = Tail(owed[c])
  /\ \A d \in CORE \ {c} : owed'[d] = owed[d]
  /\ UNCHANGED <<reqq, ac>>
LEMMA AnswersGoes ==
  ASSUME PipeTypes, NEW c \in CORE, AnswersCtc(c) \/ AnswersSnoop(c)
  PROVE  AnswerGoes(c)
<1>1. /\ owed[c] # <<>> /\ owed' = [owed EXCEPT ![c] = Tail(@)] /\ UNCHANGED <<reqq, ac>>
  BY DEF AnswersCtc, AnswersSnoop
<1> QED
  BY <1>1 DEF PipeTypes, AnswerGoes

\* The steps that change nothing of all this.
IdsSame == UNCHANGED <<reqq, respq, ac, owed>>
LEMMA IdsAre ==
  ASSUME NEW c \in CORE,
         \/ \E m \in Message : ArGrows(c, m)
         \/ ArShrinks(c) \/ \E i \in DOMAIN ctcq[c] : Started(c, i) \/ Carried(c, i)
  PROVE  IdsSame
BY DEF ArGrows, ArShrinks, Started, Carried, IdsSame

LEMMA AwaitsStep ==
  ASSUME PipeInv, Awaits, IdsDiffer, PipeStep
  PROVE  Awaits'
<1> USE DEF PipeInv
<1>a. /\ respq \in [1 .. RESPQ -> SUBSET CORE]
      /\ \A i \in DOMAIN reqq : \A d \in reqq[i].todo : Waits(d, reqq[i].msg)
      /\ \A i \in DOMAIN reqq : reqq[i].todo \subseteq CORE
      /\ \A d \in CORE : QueueWaits(d, ac[d]) /\ QueueWaits(d, owed[d])
  BY RequestIs DEF PipeTypes, Awaits, AskedWait
<1>1. ASSUME IdsSame \/ UNCHANGED pipe
      PROVE  Awaits'
  BY <1>1, Zenon DEF IdsSame, pipe, Awaits, AskedWait, QueueWaits, Waits
<1>2. ASSUME NEW c \in CORE, NEW m \in Message, Created(c, m)
      PROVE  Awaits'
  <2>1. /\ m.id \in 1 .. RESPQ /\ respq' = [respq EXCEPT ![m.id] = CORE] /\ UNCHANGED <<ac, owed>>
    BY <1>2 DEF Created
  <2>2. StillWaits
    BY <1>a, <2>1 DEF StillWaits
  <2>3. AskedWait'
    <3>1. ASSUME NEW i \in DOMAIN reqq', NEW d \in reqq'[i].todo
          PROVE  reqq'[i].msg.id \in 1 .. RESPQ /\ d \in respq'[reqq'[i].msg.id]
      <4>1. CASE i = Len(reqq) + 1
        <5>1. reqq'[i].msg = m /\ reqq'[i].todo = CORE
          BY <1>2, <4>1, CreatedMeans
        <5> QED
          BY <1>a, <2>1, <3>1, <5>1
      <4>2. CASE i # Len(reqq) + 1
        <5>1. i \in DOMAIN reqq /\ reqq'[i] = reqq[i]
          BY <1>2, <3>1, <4>2, CreatedMeans, RequestTypes
        <5> QED
          BY <1>a, <2>2, <3>1, <5>1 DEF Waits, StillWaits
      <4> QED
        BY <4>1, <4>2
    <3> QED
      BY <3>1 DEF AskedWait, Waits
  <2>4. \A d \in CORE : QueueWaits(d, ac[d])' /\ QueueWaits(d, owed[d])'
    BY <1>a, <2>1, <2>2 DEF QueueWaits, Waits, StillWaits
  <2> QED
    BY <2>3, <2>4 DEF Awaits
<1>3. ASSUME NEW c \in CORE, NEW i \in DOMAIN reqq, NEW n \in {0, 1}, Sent(c, i, n)
      PROVE  Awaits'
  <2>1. ac' = [ac EXCEPT ![c] = Append(@, reqq[i].msg)] /\ UNCHANGED <<respq, owed>>
    BY <1>3 DEF Sent
  <2>2. AfterSent(c, i, n)
    BY <1>3, SentMeans
  <2>3. reqq[i].msg \in AcMessage /\ Waits(c, reqq[i].msg)
    BY <1>a, <2>2, RequestIs DEF AfterSent
  <2>4. QueueWaits(c, ac'[c]) /\ \A d \in CORE \ {c} : ac'[d] = ac[d]
    BY <1>a, <2>1, <2>3, QueuesOf, AppendIds, ComesToAc
  <2>5. ASSUME NEW j \in DOMAIN reqq'
        PROVE  reqq'[j].todo \subseteq CORE /\ \A d \in reqq'[j].todo : Waits(d, reqq'[j].msg)
    <3>1. /\ j + n \in DOMAIN reqq /\ reqq'[j].msg = reqq[j + n].msg
          /\ reqq'[j].todo \subseteq reqq[j + n].todo
      BY <2>2, RequestTypes DEF AfterSent
    <3> QED
      BY <1>a, <3>1
  <2>6. AwaitsFrom /\ StillWaits
    BY <1>a, <2>1, <2>4, <2>5 DEF AwaitsFrom, StillWaits
  <2> QED
    BY <2>6, AwaitsFrame
<1>4. ASSUME NEW c \in CORE, NEW e \in ENTRY, Snooped(c, e)
      PROVE  Awaits'
  <2>1. ac' = [ac EXCEPT ![c] = Append(@, Msg("snp", NONE, 0, e))] /\ UNCHANGED <<reqq, respq, owed>>
    BY <1>4 DEF Snooped
  <2>2. QueueWaits(c, ac'[c]) /\ \A d \in CORE \ {c} : ac'[d] = ac[d]
    BY <1>a, <2>1, SnoopIs, QueuesOf, AppendIds, ComesToAc
  <2>3. AwaitsFrom /\ StillWaits
    BY <1>a, <2>1, <2>2 DEF AwaitsFrom, StillWaits
  <2> QED
    BY <2>3, AwaitsFrame
<1>5. ASSUME NEW c \in CORE, Obeyed(c) \/ Missed(c)
      PROVE  Awaits'
  <2>1. GoesOn(c)
    BY <1>5, TakenGoesOn
  <2>2. QueueWaits(c, ac'[c]) /\ (IsCtc(Head(ac[c])) => Waits(c, Head(ac[c])))
    BY <1>a, <2>1, QueuesOf, TailIds DEF GoesOn
  <2>3. QueueWaits(c, owed'[c])
    BY <1>a, <2>1, <2>2, QueuesOf, AppendIds DEF GoesOn
  <2>4. AwaitsFrom /\ StillWaits
    BY <1>a, <2>1, <2>2, <2>3 DEF AwaitsFrom, StillWaits, GoesOn
  <2> QED
    BY <2>4, AwaitsFrame
<1>6. ASSUME NEW c \in CORE, AnswersSnoop(c)
      PROVE  Awaits'
  <2>1. AnswerGoes(c) /\ UNCHANGED respq
    BY <1>6, AnswersGoes DEF AnswersSnoop
  <2>2. QueueWaits(c, owed'[c])
    BY <1>a, <2>1, QueuesOf, TailIds DEF AnswerGoes
  <2>3. AwaitsFrom /\ StillWaits
    BY <1>a, <2>1, <2>2 DEF AwaitsFrom, StillWaits, AnswerGoes
  <2> QED
    BY <2>3, AwaitsFrame
<1>7. ASSUME NEW c \in CORE, AnswersCtc(c)
      PROVE  Awaits'
  <2>0. PICK h : h = Head(owed[c])
    OBVIOUS
  <2>1. AnswerGoes(c) /\ IsCtc(h) /\ respq' = [respq EXCEPT ![h.id] = @ \ {c}]
    BY <1>7, <2>0, AnswersGoes DEF AnswersCtc, IsCtc
  <2>2. 1 \in DOMAIN owed[c] /\ owed[c][1] = h
    BY <2>0, <2>1, QueuesOf, TailFacts DEF AnswerGoes
  <2>3. QueueWaits(c, Tail(owed[c])) /\ Fresh(Tail(owed[c]), h.id) /\ Waits(c, h)
    <3>1. owed[c] \in Seq(AcMessage) /\ owed[c] # <<>> /\ Distinct(owed[c])
      BY <2>1, QueuesOf DEF AnswerGoes, IdsDiffer
    <3> QED
      BY <1>a, <2>0, <2>1, <3>1, TailIds
  <2>4. Fresh(ac[c], h.id)
    BY <2>1, <2>2 DEF IdsDiffer, Apart, Fresh
  <2>5. ASSUME NEW d \in CORE, NEW id \in 1 .. RESPQ, d \in respq[id], d # c \/ id # h.id
        PROVE  d \in respq'[id]
    BY <1>a, <2>1, <2>5
  <2>6. AskedWait'
    <3>1. ASSUME NEW i \in DOMAIN reqq, NEW d \in reqq[i].todo
          PROVE  reqq[i].msg.id \in 1 .. RESPQ /\ d \in respq'[reqq[i].msg.id]
      <4>1. d \in CORE /\ Waits(d, reqq[i].msg)
        BY <1>a, <3>1
      <4>2. d = c => reqq[i].msg.id # h.id
        BY <2>1, <2>2, <3>1 DEF IdsDiffer, AskedFresh, Fresh
      <4> QED
        BY <2>5, <4>1, <4>2 DEF Waits
    <3> QED
      BY <2>1, <3>1 DEF AskedWait, Waits, AnswerGoes
  <2>7. ASSUME NEW d \in CORE
        PROVE  QueueWaits(d, ac[d])' /\ QueueWaits(d, owed[d])'
    <3>1. /\ QueueWaits(d, ac'[d]) /\ QueueWaits(d, owed'[d])
          /\ d = c => Fresh(ac'[d], h.id) /\ Fresh(owed'[d], h.id)
      BY <1>a, <2>1, <2>3, <2>4 DEF AnswerGoes
    <3> QED
      BY <2>5, <3>1 DEF QueueWaits, Waits, Fresh
  <2> QED
    BY <2>6, <2>7 DEF Awaits
<1> QED
  BY <1>1, <1>2, <1>3, <1>4, <1>5, <1>6, <1>7, IdsAre DEF PipeStep

LEMMA IdsDifferStep ==
  ASSUME PipeInv, Awaits, IdsDiffer, PipeStep
  PROVE  IdsDiffer'
<1> USE DEF PipeInv
<1> DEFINE Apiece(d) == /\ Apart(ac[d], owed[d]) /\ Distinct(ac[d]) /\ Distinct(owed[d])
<1>a. /\ AskedDiffer /\ \A d \in CORE : AskedFresh(d) /\ Apiece(d)
      /\ \A d \in CORE : QueueWaits(d, ac[d]) /\ QueueWaits(d, owed[d])
  BY DEF IdsDiffer, Awaits
<1>b. ASSUME AskedDiffer', \A d \in CORE : AskedFresh(d)' /\ Apiece(d)'
      PROVE  IdsDiffer'
  BY <1>b DEF IdsDiffer
<1>1. ASSUME IdsSame \/ UNCHANGED pipe
      PROVE  IdsDiffer'
  BY <1>1, Zenon DEF IdsSame, pipe, IdsDiffer, AskedDiffer, AskedFresh, Apart, Distinct, Fresh
<1>2. ASSUME NEW c \in CORE, NEW m \in Message, Created(c, m)
      PROVE  IdsDiffer'
  <2>1. /\ m.id \in 1 .. RESPQ /\ respq[m.id] = {} /\ UNCHANGED <<ac, owed>>
    BY <1>2 DEF Created
  <2>2. /\ reqq'[Len(reqq) + 1].msg = m /\ Len(reqq) \in Nat /\ DOMAIN reqq = 1 .. Len(reqq)
        /\ DOMAIN reqq' = 1 .. Len(reqq) + 1 /\ \A i \in DOMAIN reqq : reqq'[i] = reqq[i]
    BY <1>2, CreatedMeans, RequestTypes
  <2>3. ASSUME NEW i \in DOMAIN reqq
        PROVE  reqq[i].msg.id # m.id
    <3>1. PICK d \in reqq[i].todo : TRUE
      BY DEF InOrder
    <3>2. Waits(d, reqq[i].msg)
      BY <3>1 DEF Awaits, AskedWait
    <3> QED
      BY <2>1, <3>2 DEF Waits
  <2>4. AskedDiffer'
    <3>1. ASSUME NEW i \in DOMAIN reqq', NEW j \in DOMAIN reqq', reqq'[i].msg.id = reqq'[j].msg.id
          PROVE  i = j
      <4>1. \A k \in DOMAIN reqq' : k \in DOMAIN reqq \/ k = Len(reqq) + 1
        BY <2>2
      <4> QED
        BY <1>a, <2>2, <2>3, <3>1, <4>1 DEF AskedDiffer
    <3> QED
      BY <3>1 DEF AskedDiffer
  <2>5. ASSUME NEW d \in CORE
        PROVE  Fresh(ac[d], m.id) /\ Fresh(owed[d], m.id)
    BY <1>a, <2>1 DEF QueueWaits, Waits, Fresh
  <2>6. ASSUME NEW d \in CORE
        PROVE  AskedFresh(d)'
    <3>1. ASSUME NEW i \in DOMAIN reqq', d \in reqq'[i].todo
          PROVE  Fresh(ac[d], reqq'[i].msg.id) /\ Fresh(owed[d], reqq'[i].msg.id)
      <4>1. i \in DOMAIN reqq \/ i = Len(reqq) + 1
        BY <2>2
      <4> QED
        BY <1>a, <2>2, <2>5, <3>1, <4>1 DEF AskedFresh
    <3> QED
      BY <2>1, <3>1 DEF AskedFresh, Fresh
  <2>7. \A d \in CORE : Apiece(d)'
    BY <1>a, <2>1 DEF Apart, Distinct, Fresh
  <2> QED
    BY <1>b, <2>4, <2>6, <2>7
<1>3. ASSUME NEW c \in CORE, NEW i \in DOMAIN reqq, NEW n \in {0, 1}, Sent(c, i, n)
      PROVE  IdsDiffer'
  <2>0. PICK m : m = reqq[i].msg
    OBVIOUS
  <2>1. ac' = [ac EXCEPT ![c] = Append(@, m)] /\ UNCHANGED owed
    BY <1>3, <2>0 DEF Sent
  <2>2. AfterSent(c, i, n)
    BY <1>3, SentMeans
  <2>3. m \in AcMessage /\ IsCtc(m)
    BY <2>0, RequestIs
  <2>4. ac'[c] = Append(ac[c], m) /\ \A d \in CORE \ {c} : ac'[d] = ac[d]
    BY <2>1, <2>3, ComesToAc
  <2>5. Fresh(ac[c], m.id) /\ Fresh(owed[c], m.id)
    BY <1>a, <2>0, <2>2 DEF AskedFresh, AfterSent
  <2>6. ASSUME NEW j \in DOMAIN reqq'
        PROVE  /\ j + n \in DOMAIN reqq /\ reqq'[j].msg = reqq[j + n].msg /\ j \in Nat
               /\ \A d : d \in reqq'[j].todo => d \in reqq[j + n].todo /\ ~(d = c /\ j + n = i)
    BY <2>2, RequestTypes DEF AfterSent
  <2>7. AskedDiffer'
    <3>1. ASSUME NEW j \in DOMAIN reqq', NEW k \in DOMAIN reqq', reqq'[j].msg.id = reqq'[k].msg.id
          PROVE  j = k
      <4>1. j + n = k + n
        BY <1>a, <2>6, <3>1 DEF AskedDiffer
      <4> QED
        BY <2>6, <4>1
    <3> QED
      BY <3>1 DEF AskedDiffer
  <2>8. ASSUME NEW d \in CORE
        PROVE  AskedFresh(d)'
    <3>1. ASSUME NEW j \in DOMAIN reqq', d \in reqq'[j].todo
          PROVE  Fresh(ac'[d], reqq'[j].msg.id) /\ Fresh(owed'[d], reqq'[j].msg.id)
      <4>1. PICK k \in DOMAIN reqq : k = j + n
        BY <2>6
      <4>2. /\ reqq'[j].msg = reqq[k].msg /\ d \in reqq[k].todo /\ ~(d = c /\ k = i)
        BY <2>6, <3>1, <4>1
      <4>3. Fresh(ac[d], reqq[k].msg.id) /\ Fresh(owed[d], reqq[k].msg.id)
        BY <1>a, <4>2 DEF AskedFresh
      <4>4. d = c => m.id # reqq[k].msg.id
        BY <1>a, <2>0, <4>2 DEF AskedDiffer
      <4>5. Fresh(ac'[d], reqq[k].msg.id)
        <5>1. CASE d = c
          BY <2>3, <2>4, <4>3, <4>4, <5>1, QueuesOf, AppendIds
        <5>2. CASE d # c
          BY <2>4, <4>3, <5>2
        <5> QED
          BY <5>1, <5>2
      <4> QED
        BY <2>1, <4>2, <4>3, <4>5
    <3> QED
      BY <3>1 DEF AskedFresh, Fresh
  <2>9. ASSUME NEW d \in CORE
        PROVE  Apiece(d)'
    <3>1. Apart(ac'[d], owed'[d]) /\ Distinct(ac'[d]) /\ Distinct(owed'[d])
      <4>1. CASE d = c
        <5>1. /\ ac[c] \in Seq(AcMessage) /\ owed[c] \in Seq(AcMessage)
              /\ Apart(ac[c], owed[c]) /\ Distinct(ac[c]) /\ Distinct(owed[c])
          BY <1>a, QueuesOf
        <5>2. Apart(Append(ac[c], m), owed[c])
          BY <2>3, <2>5, <5>1, ApartMoves
        <5>3. Distinct(Append(ac[c], m))
          BY <2>3, <2>5, <5>1, AppendIds
        <5> QED
          BY <2>1, <2>4, <4>1, <5>1, <5>2, <5>3
      <4>2. CASE d # c
        BY <1>a, <2>1, <2>4, <4>2
      <4> QED
        BY <4>1, <4>2
    <3> QED
      BY <3>1 DEF Apart, Distinct, Fresh
  <2> QED
    BY <1>b, <2>7, <2>8, <2>9
<1>4. ASSUME NEW c \in CORE, NEW e \in ENTRY, Snooped(c, e)
      PROVE  IdsDiffer'
  <2>0. PICK m : m = Msg("snp", NONE, 0, e)
    OBVIOUS
  <2>1. ac' = [ac EXCEPT ![c] = Append(@, m)] /\ UNCHANGED <<reqq, owed>>
    BY <1>4, <2>0 DEF Snooped
  <2>2. m \in AcMessage /\ ~IsCtc(m)
    BY <2>0, SnoopIs
  <2>3. ac'[c] = Append(ac[c], m) /\ \A d \in CORE \ {c} : ac'[d] = ac[d]
    BY <2>1, <2>2, ComesToAc
  <2>4. ASSUME NEW d \in CORE
        PROVE  /\ Apart(ac'[d], owed'[d]) /\ Distinct(ac'[d]) /\ Distinct(owed'[d])
               /\ \A id : Fresh(ac[d], id) => Fresh(ac'[d], id)
    <3>1. /\ ac[c] \in Seq(AcMessage) /\ owed[c] \in Seq(AcMessage)
          /\ Apart(ac[c], owed[c]) /\ Distinct(ac[c]) /\ Distinct(owed[c])
      BY <1>a, QueuesOf
    <3>2. Apart(Append(ac[c], m), owed[c])
      BY <2>2, <3>1, ApartMoves
    <3>3. Distinct(Append(ac[c], m)) /\ \A id : Fresh(ac[c], id) => Fresh(Append(ac[c], m), id)
      BY <2>2, <3>1, AppendIds
    <3> QED
      BY <1>a, <2>1, <2>3, <3>1, <3>2, <3>3
  <2>5. AskedDiffer'
    BY <1>a, <2>1, Zenon DEF AskedDiffer
  <2>6. ASSUME NEW d \in CORE
        PROVE  AskedFresh(d)'
    <3>1. \A i \in DOMAIN reqq : d \in reqq[i].todo =>
            Fresh(ac'[d], reqq[i].msg.id) /\ Fresh(owed'[d], reqq[i].msg.id)
      BY <1>a, <2>1, <2>4 DEF AskedFresh
    <3> QED
      BY <2>1, <3>1 DEF AskedFresh, Fresh
  <2>7. \A d \in CORE : Apiece(d)'
    BY <2>4 DEF Apart, Distinct, Fresh
  <2> QED
    BY <1>b, <2>5, <2>6, <2>7
<1>5. ASSUME NEW c \in CORE, Obeyed(c) \/ Missed(c)
      PROVE  IdsDiffer'
  <2>0. PICK h : h = Head(ac[c])
    OBVIOUS
  <2>1. /\ ac[c] # <<>> /\ h \in AcMessage /\ UNCHANGED reqq
        /\ ac'[c] = Tail(ac[c]) /\ owed'[c] = Append(owed[c], h)
        /\ \A d \in CORE \ {c} : ac'[d] = ac[d] /\ owed'[d] = owed[d]
    BY <1>5, <2>0, TakenGoesOn DEF GoesOn
  <2>2. 1 \in DOMAIN ac[c] /\ ac[c][1] = h
    BY <2>0, <2>1, QueuesOf, TailFacts
  <2>3. ASSUME NEW d \in CORE
        PROVE  /\ Apart(ac'[d], owed'[d]) /\ Distinct(ac'[d]) /\ Distinct(owed'[d])
               /\ \A id : Fresh(ac[d], id) /\ Fresh(owed[d], id) =>
                            Fresh(ac'[d], id) /\ Fresh(owed'[d], id)
    <3>1. /\ ac[c] \in Seq(AcMessage) /\ owed[c] \in Seq(AcMessage)
          /\ Apart(ac[c], owed[c]) /\ Distinct(ac[c]) /\ Distinct(owed[c])
      BY <1>a, QueuesOf
    <3>2. Apart(Tail(ac[c]), Append(owed[c], h)) /\ (IsCtc(h) => Fresh(owed[c], h.id))
      BY <2>0, <2>1, <3>1, ApartMoves
    <3>3. Distinct(Tail(ac[c])) /\ \A id : Fresh(ac[c], id) => Fresh(Tail(ac[c]), id)
      BY <2>1, <3>1, TailIds
    <3>4. Distinct(Append(owed[c], h))
      BY <2>1, <3>1, <3>2, AppendIds
    <3>5. ASSUME NEW id, Fresh(ac[c], id), Fresh(owed[c], id)
          PROVE  Fresh(Append(owed[c], h), id)
      <4>1. IsCtc(h) => h.id # id
        BY <2>2, <3>5 DEF Fresh
      <4> QED
        BY <2>1, <3>1, <3>5, <4>1, AppendIds
    <3> QED
      BY <1>a, <2>1, <3>2, <3>3, <3>4, <3>5
  <2>4. AskedDiffer'
    BY <1>a, <2>1, Zenon DEF AskedDiffer
  <2>5. ASSUME NEW d \in CORE
        PROVE  AskedFresh(d)'
    <3>1. \A i \in DOMAIN reqq : d \in reqq[i].todo =>
            Fresh(ac'[d], reqq[i].msg.id) /\ Fresh(owed'[d], reqq[i].msg.id)
      BY <1>a, <2>3 DEF AskedFresh
    <3> QED
      BY <2>1, <3>1 DEF AskedFresh, Fresh
  <2>6. \A d \in CORE : Apiece(d)'
    BY <2>3 DEF Apart, Distinct, Fresh
  <2> QED
    BY <1>b, <2>4, <2>5, <2>6
<1>6. ASSUME NEW c \in CORE, AnswersCtc(c) \/ AnswersSnoop(c)
      PROVE  IdsDiffer'
  <2>1. AnswerGoes(c)
    BY <1>6, AnswersGoes
  <2>2. ASSUME NEW d \in CORE
        PROVE  /\ Apart(ac'[d], owed'[d]) /\ Distinct(ac'[d]) /\ Distinct(owed'[d])
               /\ ac'[d] = ac[d] /\ \A id : Fresh(owed[d], id) => Fresh(owed'[d], id)
    <3>1. /\ ac[c] \in Seq(AcMessage) /\ owed[c] \in Seq(AcMessage) /\ owed[c] # <<>>
          /\ Apart(ac[c], owed[c]) /\ Distinct(ac[c]) /\ Distinct(owed[c])
      BY <1>a, <2>1, QueuesOf DEF AnswerGoes
    <3>2. Apart(ac[c], Tail(owed[c]))
      BY <3>1, ApartMoves
    <3>3. Distinct(Tail(owed[c])) /\ \A id : Fresh(owed[c], id) => Fresh(Tail(owed[c]), id)
      BY <3>1, TailIds
    <3> QED
      BY <1>a, <2>1, <3>1, <3>2, <3>3 DEF AnswerGoes
  <2>3. AskedDiffer'
    BY <1>a, <2>1, Zenon DEF AskedDiffer, AnswerGoes
  <2>4. ASSUME NEW d \in CORE
        PROVE  AskedFresh(d)'
    <3>1. \A i \in DOMAIN reqq : d \in reqq[i].todo =>
            Fresh(ac'[d], reqq[i].msg.id) /\ Fresh(owed'[d], reqq[i].msg.id)
      BY <1>a, <2>2 DEF AskedFresh
    <3> QED
      BY <2>1, <3>1 DEF AskedFresh, Fresh, AnswerGoes
  <2>5. \A d \in CORE : Apiece(d)'
    BY <2>2 DEF Apart, Distinct, Fresh
  <2> QED
    BY <1>b, <2>3, <2>4, <2>5
<1> QED
  BY <1>1, <1>2, <1>3, <1>4, <1>5, <1>6, IdsAre DEF PipeStep

\* What is due in a queue is an operation, and is owed.
Numbered(q) == DOMAIN q \subseteq Nat /\ \A i \in DOMAIN q : Due(q[i]) \subseteq Nat

LEMMA DueIsOwed ==
  ASSUME NEW q, NEW s, InLine(q, s), NEW i \in DOMAIN q, NEW j \in Due(q[i])
  PROVE  /\ IsCtc(q[i].msgs[j])
         /\ \E k \in DOMAIN s : s[k] = q[i].msgs[j]
BY DEF InLine

LEMMA DueInOrder ==
  ASSUME NEW q, NEW s, InLine(q, s),
         NEW i \in DOMAIN q, NEW j \in Due(q[i]), NEW n \in DOMAIN q, NEW o \in Due(q[n]),
         Before(i, j, n, o), NEW k \in DOMAIN s, NEW l \in DOMAIN s,
         s[k] = q[i].msgs[j], s[l] = q[n].msgs[o]
  PROVE  k < l
BY DEF InLine

\* A snoop comes to the answers owed, or goes.
LEMMA SnoopInLine ==
  ASSUME NEW q, NEW s \in Seq(AcMessage), InLine(q, s)
  PROVE  /\ \A m \in AcMessage : ~IsCtc(m) => InLine(q, Append(s, m))
         /\ s # <<>> /\ ~IsCtc(Head(s)) => InLine(q, Tail(s))
<1>1. ASSUME NEW m \in AcMessage, ~IsCtc(m)
      PROVE  InLine(q, Append(s, m))
  <2> DEFINE t == Append(s, m)
  <2>1. /\ Len(s) \in Nat /\ DOMAIN s = 1 .. Len(s) /\ DOMAIN t = 1 .. Len(s) + 1
        /\ \A k \in 1 .. Len(s) : t[k] = s[k]
        /\ t[Len(s) + 1] = m
    BY AppendFacts
  <2> HIDE DEF t
  <2>2. \A k \in DOMAIN t : IsCtc(t[k]) => k \in DOMAIN s /\ t[k] = s[k]
    BY <1>1, <2>1
  <2>3. ASSUME NEW i \in DOMAIN q, NEW j \in Due(q[i])
        PROVE  \E k \in DOMAIN t : IsCtc(t[k]) /\ t[k] = q[i].msgs[j]
    <3>1. PICK k \in DOMAIN s : s[k] = q[i].msgs[j]
      BY <2>3, DueIsOwed
    <3>2. k \in DOMAIN t /\ t[k] = s[k]
      BY <2>1
    <3> QED
      BY <2>3, <3>1, <3>2, DueIsOwed
  <2>4. ASSUME NEW i \in DOMAIN q, NEW n \in DOMAIN q, NEW j \in Due(q[i]), NEW o \in Due(q[n]),
               Before(i, j, n, o), NEW k \in DOMAIN t, NEW l \in DOMAIN t,
               t[k] = q[i].msgs[j], t[l] = q[n].msgs[o]
        PROVE  k < l
    <3>1. IsCtc(t[k]) /\ IsCtc(t[l])
      BY <2>4, DueIsOwed
    <3> QED
      BY <2>2, <2>4, <3>1, DueInOrder
  <2>5. InLine(q, t)
    BY <2>3, <2>4 DEF InLine
  <2> QED
    BY <2>5 DEF t
<1>2. ASSUME s # <<>>, ~IsCtc(Head(s))
      PROVE  InLine(q, Tail(s))
  <2> DEFINE t == Tail(s)
  <2>1. /\ Len(s) \in Nat /\ Len(s) > 0 /\ DOMAIN s = 1 .. Len(s) /\ DOMAIN t = 1 .. Len(s) - 1
        /\ \A k \in 1 .. Len(s) - 1 : t[k] = s[k + 1]
        /\ ~IsCtc(s[1])
    BY <1>2, TailFacts
  <2> HIDE DEF t
  <2>2. ASSUME NEW i \in DOMAIN q, NEW j \in Due(q[i])
        PROVE  \E k \in DOMAIN t : IsCtc(t[k]) /\ t[k] = q[i].msgs[j]
    <3>1. PICK k \in DOMAIN s : s[k] = q[i].msgs[j] /\ IsCtc(s[k])
      BY <2>2, DueIsOwed
    <3>2. k # 1 /\ k \in 1 .. Len(s)
      BY <2>1, <3>1
    <3>3. k - 1 \in DOMAIN t /\ t[k - 1] = s[k]
      BY <2>1, <3>2
    <3> QED
      BY <3>1, <3>3
  <2>3. ASSUME NEW i \in DOMAIN q, NEW n \in DOMAIN q, NEW j \in Due(q[i]), NEW o \in Due(q[n]),
               Before(i, j, n, o), NEW k \in DOMAIN t, NEW l \in DOMAIN t,
               t[k] = q[i].msgs[j], t[l] = q[n].msgs[o]
        PROVE  k < l
    <3>1. /\ k + 1 \in DOMAIN s /\ l + 1 \in DOMAIN s /\ k \in Nat /\ l \in Nat
          /\ s[k + 1] = t[k] /\ s[l + 1] = t[l]
      BY <2>1, <2>3
    <3>2. k + 1 < l + 1
      BY <2>3, <3>1, DueInOrder
    <3> QED
      BY <3>1, <3>2
  <2>4. InLine(q, t)
    BY <2>2, <2>3 DEF InLine
  <2> QED
    BY <2>4 DEF t
<1> QED
  BY <1>1, <1>2

\* The same is due, though it is counted otherwise.
LEMMA SameInLine ==
  ASSUME NEW q, NEW r, NEW s, InLine(q, s), DOMAIN r = DOMAIN q,
         \A i \in DOMAIN q : Due(r[i]) = Due(q[i]) /\ r[i].msgs = q[i].msgs
  PROVE  InLine(r, s)
BY DEF InLine

\* One more is due, the last one, which is owed last.
LastDue(q, r, N, J, h) ==
  /\ r[N].msgs[J] = h
  /\ \A i \in DOMAIN r : \A j \in Due(r[i]) :
       \/ i = N /\ j = J
       \/ /\ i \in DOMAIN q /\ j \in Due(q[i]) /\ r[i].msgs[j] = q[i].msgs[j]
          /\ Before(i, j, N, J)
LEMMA MoreInLine ==
  ASSUME NEW q, NEW r, Numbered(r), NEW s \in Seq(AcMessage), InLine(q, s),
         NEW h \in AcMessage, IsCtc(h), Fresh(s, h.id),
         NEW N \in Nat, NEW J \in Nat, LastDue(q, r, N, J, h)
  PROVE  InLine(r, Append(s, h))
<1> DEFINE t == Append(s, h)
<1>1. /\ Len(s) \in Nat /\ DOMAIN s = 1 .. Len(s) /\ DOMAIN t = 1 .. Len(s) + 1
      /\ \A k \in 1 .. Len(s) : t[k] = s[k]
      /\ t[Len(s) + 1] = h
  BY AppendFacts
<1> HIDE DEF t
<1>2. ASSUME NEW k \in DOMAIN t
      PROVE  /\ t[k] = h => k = Len(s) + 1
             /\ t[k] # h => k \in DOMAIN s /\ t[k] = s[k] /\ k \in Nat /\ k < Len(s) + 1
  <2>1. k = Len(s) + 1 \/ (k \in DOMAIN s /\ t[k] = s[k] /\ k \in Nat /\ k < Len(s) + 1)
    BY <1>1
  <2>2. k \in DOMAIN s => s[k] # h
    BY DEF Fresh
  <2> QED
    BY <1>1, <2>1, <2>2
<1>3. ASSUME NEW i \in DOMAIN r, NEW j \in Due(r[i]), ~(i = N /\ j = J)
      PROVE  /\ i \in DOMAIN q /\ j \in Due(q[i]) /\ r[i].msgs[j] = q[i].msgs[j]
             /\ Before(i, j, N, J) /\ r[i].msgs[j] # h
  <2>1. /\ i \in DOMAIN q /\ j \in Due(q[i]) /\ r[i].msgs[j] = q[i].msgs[j]
        /\ Before(i, j, N, J)
    BY <1>3 DEF LastDue
  <2>2. PICK k \in DOMAIN s : s[k] = q[i].msgs[j]
    BY <2>1, DueIsOwed
  <2>3. s[k] # h
    BY DEF Fresh
  <2> QED
    BY <2>1, <2>2, <2>3
<1>4. ASSUME NEW i \in DOMAIN r, NEW j \in Due(r[i])
      PROVE  \E k \in DOMAIN t : IsCtc(t[k]) /\ t[k] = r[i].msgs[j]
  <2>1. CASE i = N /\ j = J
    BY <1>1, <2>1 DEF LastDue
  <2>2. CASE ~(i = N /\ j = J)
    <3>1. PICK k \in DOMAIN s : IsCtc(s[k]) /\ s[k] = r[i].msgs[j]
      BY <1>3, <1>4, <2>2, DueIsOwed
    <3>2. k \in DOMAIN t /\ t[k] = s[k]
      BY <1>1
    <3> QED
      BY <3>1, <3>2
  <2> QED
    BY <2>1, <2>2
<1>5. ASSUME NEW i \in DOMAIN r, NEW n \in DOMAIN r, NEW j \in Due(r[i]), NEW o \in Due(r[n]),
             Before(i, j, n, o), NEW k \in DOMAIN t, NEW l \in DOMAIN t,
             t[k] = r[i].msgs[j], t[l] = r[n].msgs[o]
      PROVE  k < l
  <2>1. i \in Nat /\ j \in Nat /\ n \in Nat /\ o \in Nat
    BY DEF Numbered
  <2>2. ~(i = N /\ j = J)
    <3>1. ASSUME i = N, j = J
          PROVE  FALSE
      <4>1. (n = N /\ o = J) \/ Before(n, o, N, J)
        BY <1>3
      <4> QED
        BY <1>5, <2>1, <3>1, <4>1 DEF Before
    <3> QED
      BY <3>1
  <2>3. CASE n = N /\ o = J
    <3>1. t[l] = h /\ t[k] # h
      BY <1>3, <1>5, <2>2, <2>3 DEF LastDue
    <3> QED
      BY <1>2, <3>1
  <2>4. CASE ~(n = N /\ o = J)
    <3>1. /\ i \in DOMAIN q /\ j \in Due(q[i]) /\ r[i].msgs[j] = q[i].msgs[j] /\ r[i].msgs[j] # h
          /\ n \in DOMAIN q /\ o \in Due(q[n]) /\ r[n].msgs[o] = q[n].msgs[o] /\ r[n].msgs[o] # h
      BY <1>3, <2>2, <2>4
    <3>2. k \in DOMAIN s /\ l \in DOMAIN s /\ t[k] = s[k] /\ t[l] = s[l]
      BY <1>2, <1>5, <3>1
    <3> QED
      BY <1>5, <3>1, <3>2, DueInOrder
  <2> QED
    BY <2>3, <2>4
<1>6. InLine(r, t)
  BY <1>4, <1>5 DEF InLine
<1> QED
  BY <1>6 DEF t

\* The first one due is no more, nor the first answer owed.
FirstDue(q, r, a, J) ==
  /\ 1 \in DOMAIN q /\ J \in Due(q[1])
  /\ \A i \in DOMAIN r : \A j \in Due(r[i]) :
       /\ i + a \in DOMAIN q /\ j \in Due(q[i + a]) /\ r[i].msgs[j] = q[i + a].msgs[j]
       /\ Before(1, J, i + a, j)
LEMMA LessInLine ==
  ASSUME NEW q, NEW r, Numbered(q), Numbered(r), NEW s \in Seq(AcMessage), InLine(q, s), s # <<>>,
         NEW a \in {0, 1}, NEW J, FirstDue(q, r, a, J)
  PROVE  InLine(r, Tail(s))
<1> DEFINE t == Tail(s)
<1>1. /\ Len(s) \in Nat /\ Len(s) > 0 /\ DOMAIN s = 1 .. Len(s) /\ DOMAIN t = 1 .. Len(s) - 1
      /\ \A k \in 1 .. Len(s) - 1 : t[k] = s[k + 1]
  BY TailFacts
<1> HIDE DEF t
<1>2. PICK k1 \in DOMAIN s : s[k1] = q[1].msgs[J]
  BY DueIsOwed DEF FirstDue
<1>3. ASSUME NEW i \in DOMAIN r, NEW j \in Due(r[i])
      PROVE  \E k \in DOMAIN t : IsCtc(t[k]) /\ t[k] = r[i].msgs[j]
  <2>1. /\ i + a \in DOMAIN q /\ j \in Due(q[i + a]) /\ r[i].msgs[j] = q[i + a].msgs[j]
        /\ Before(1, J, i + a, j) /\ 1 \in DOMAIN q /\ J \in Due(q[1])
    BY DEF FirstDue
  <2>2. PICK k \in DOMAIN s : IsCtc(s[k]) /\ s[k] = q[i + a].msgs[j]
    BY <2>1, DueIsOwed
  <2>3. k1 < k
    BY <1>2, <2>1, <2>2, DueInOrder
  <2>4. k - 1 \in DOMAIN t /\ t[k - 1] = s[k]
    BY <1>1, <2>3
  <2> QED
    BY <2>1, <2>2, <2>4
<1>4. ASSUME NEW i \in DOMAIN r, NEW n \in DOMAIN r, NEW j \in Due(r[i]), NEW o \in Due(r[n]),
             Before(i, j, n, o), NEW k \in DOMAIN t, NEW l \in DOMAIN t,
             t[k] = r[i].msgs[j], t[l] = r[n].msgs[o]
      PROVE  k < l
  <2>1. i \in Nat /\ j \in Nat /\ n \in Nat /\ o \in Nat
    BY DEF Numbered
  <2>2. /\ i + a \in DOMAIN q /\ j \in Due(q[i + a]) /\ r[i].msgs[j] = q[i + a].msgs[j]
        /\ n + a \in DOMAIN q /\ o \in Due(q[n + a]) /\ r[n].msgs[o] = q[n + a].msgs[o]
    BY DEF FirstDue
  <2>3. Before(i + a, j, n + a, o)
    BY <1>4, <2>1 DEF Before
  <2>4. /\ k + 1 \in DOMAIN s /\ l + 1 \in DOMAIN s /\ k \in Nat /\ l \in Nat
        /\ s[k + 1] = t[k] /\ s[l + 1] = t[l]
    BY <1>1
  <2>5. k + 1 < l + 1
    BY <1>4, <2>2, <2>3, <2>4, DueInOrder
  <2> QED
    BY <2>4, <2>5
<1>5. InLine(r, t)
  BY <1>3, <1>4 DEF InLine
<1> QED
  BY <1>5 DEF t

LEMMA QueueNumbered ==
  ASSUME NEW q \in Seq(CtcEntry)
  PROVE  Numbered(q) /\ DOMAIN q = 1 .. Len(q) /\ Len(q) \in Nat
<1>1. ASSUME NEW i \in DOMAIN q
      PROVE  i \in Nat /\ Due(q[i]) \subseteq Nat
  <2>1. i \in Nat /\ q[i] \in CtcEntry
    OBVIOUS
  <2>2. q[i].msgs \in Seq(AcMessage)
    BY <2>1 DEF CtcEntry
  <2>3. DOMAIN q[i].msgs \subseteq Nat
    BY <2>2
  <2> QED
    BY <2>1, <2>3 DEF Due
<1> QED
  BY <1>1 DEF Numbered

LEMMA QueuesNumbered ==
  ASSUME PipeTypes, PipeTypes', NEW c \in CORE
  PROVE  /\ Numbered(ctcq[c]) /\ DOMAIN ctcq[c] = 1 .. Len(ctcq[c]) /\ Len(ctcq[c]) \in Nat
         /\ Numbered(ctcq'[c]) /\ DOMAIN ctcq'[c] = 1 .. Len(ctcq'[c])
BY QueueNumbered DEF PipeTypes

\* The queues of the other cores, and what they owe, are the same.
LEMMA OwesFrame ==
  ASSUME \A d \in CORE : Owes(d), NEW c \in CORE, Others(c),
         \A d \in CORE \ {c} : owed'[d] = owed[d], InLine(ctcq'[c], owed'[c])
  PROVE  \A d \in CORE : Owes(d)'
<1>1. ASSUME NEW d \in CORE
      PROVE  InLine(ctcq'[d], owed'[d])
  BY DEF Owes, Others
<1> QED
  BY <1>1 DEF Owes, InLine, Due

LEMMA SameDue ==
  ASSUME NEW q, NEW r, r.msgs = q.msgs, r.cmplt = q.cmplt
  PROVE  Due(r) = Due(q)
BY DEF Due

LEMMA ObeyedOwes ==
  ASSUME PipeInv, PipeInv', PairInv, IdsDiffer, NEW c \in CORE, Obeyed(c), Owes(c)
  PROVE  InLine(ctcq'[c], owed'[c])
<1> USE DEF PipeInv
<1>0. PICK h, n : h = Head(ac[c]) /\ n = Len(ctcq[c])
  OBVIOUS
<1>1. ac[c] # <<>> /\ h \in AcMessage /\ IsCtc(h) /\ owed'[c] = Append(owed[c], h)
  BY <1>0, TakenGoesOn DEF Obeyed, GoesOn, IsCtc
<1>2. Fresh(owed[c], h.id)
  BY <1>0, <1>1, QueuesOf, ApartMoves DEF IdsDiffer
<1>3. /\ Numbered(ctcq[c]) /\ DOMAIN ctcq[c] = 1 .. n /\ n \in Nat
      /\ Numbered(ctcq'[c]) /\ DOMAIN ctcq'[c] = 1 .. Len(ctcq'[c])
  BY <1>0, QueuesNumbered
<1>4. CASE Joined(c, h)
  <2> DEFINE q == ctcq[c][n]
             r == ctcq'[c][n]
  <2>1. /\ n > 0 /\ ~Complete(q) /\ Len(ctcq'[c]) = n
        /\ \A i \in 1 .. n - 1 : ctcq'[c][i] = ctcq[c][i]
        /\ r.msgs = Append(q.msgs, h) /\ r.cmplt = q.cmplt
    BY <1>0, <1>4 DEF Joined
  <2>2. Len(q.msgs) = 1 /\ q.cmplt = 0 /\ q.msgs \in Seq(AcMessage)
    <3>1. AcLinked(c)
      BY DEF PairInv, Pairs
    <3>2. Len(q.msgs) = 1 /\ q.cmplt = 0
      BY <1>0, <1>1, <2>1, <3>1, JoinShape DEF IsCtc
    <3>3. n \in 1 .. Len(ctcq[c])
      BY <1>0, <1>3, <2>1
    <3> QED
      BY <3>2, <3>3, QueueTypes
  <2>3. /\ r.msgs[2] = h /\ r.msgs[1] = q.msgs[1]
        /\ DOMAIN r.msgs = 1 .. 2 /\ DOMAIN q.msgs = 1 .. 1
    <3>1. /\ DOMAIN r.msgs = 1 .. Len(q.msgs) + 1 /\ DOMAIN q.msgs = 1 .. Len(q.msgs)
          /\ r.msgs[Len(q.msgs) + 1] = h /\ \A k \in 1 .. Len(q.msgs) : r.msgs[k] = q.msgs[k]
      <4> HIDE DEF q, r
      <4> QED
        BY <2>1, <2>2, <1>1, AppendFacts
    <3> QED
      BY <2>2, <3>1
  <2>4. Due(r) = 1 .. 2 /\ Due(q) = 1 .. 1
    BY <2>1, <2>2, <2>3 DEF Due
  <2>5. ASSUME NEW i \in DOMAIN ctcq'[c], NEW j \in Due(ctcq'[c][i]), ~(i = n /\ j = 2)
        PROVE  /\ i \in DOMAIN ctcq[c] /\ j \in Due(ctcq[c][i])
               /\ ctcq'[c][i].msgs[j] = ctcq[c][i].msgs[j] /\ Before(i, j, n, 2)
    <3>1. CASE i = n
      <4>1. j = 1
        BY <2>4, <2>5, <3>1
      <4> QED
        BY <1>3, <2>1, <2>3, <2>4, <3>1, <4>1 DEF Before
    <3>2. CASE i # n
      <4>1. i \in 1 .. n - 1 /\ i \in 1 .. n /\ i < n
        BY <1>3, <2>1, <3>2
      <4> QED
        BY <1>3, <2>1, <2>5, <4>1 DEF Before
    <3> QED
      BY <3>1, <3>2
  <2>6. LastDue(ctcq[c], ctcq'[c], n, 2, h)
    BY <2>3, <2>5 DEF LastDue
  <2> QED
    BY <1>1, <1>2, <1>3, <2>6, QueuesOf, MoreInLine DEF Owes
<1>5. CASE Entered(c, h)
  <2> DEFINE r == ctcq'[c][n + 1]
  <2>1. /\ Len(ctcq'[c]) = n + 1 /\ \A i \in 1 .. n : ctcq'[c][i] = ctcq[c][i]
        /\ r.msgs = <<h>> /\ r.cmplt = 0
    BY <1>0, <1>5 DEF Entered
  <2>2. Due(r) = {1} /\ r.msgs[1] = h
    BY <2>1 DEF Due
  <2>3. ASSUME NEW i \in DOMAIN ctcq'[c], NEW j \in Due(ctcq'[c][i]), ~(i = n + 1 /\ j = 1)
        PROVE  /\ i \in DOMAIN ctcq[c] /\ j \in Due(ctcq[c][i])
               /\ ctcq'[c][i].msgs[j] = ctcq[c][i].msgs[j] /\ Before(i, j, n + 1, 1)
    <3>1. i # n + 1
      BY <2>2, <2>3
    <3>2. i \in 1 .. n /\ i < n + 1
      BY <1>3, <2>1, <3>1
    <3> QED
      BY <1>3, <2>1, <2>3, <3>2 DEF Before
  <2>4. LastDue(ctcq[c], ctcq'[c], n + 1, 1, h)
    BY <2>2, <2>3 DEF LastDue
  <2> QED
    BY <1>1, <1>2, <1>3, <2>4, QueuesOf, MoreInLine DEF Owes
<1> QED
  BY <1>0, <1>4, <1>5, ObeyedMeans

LEMMA CarriedOwes ==
  ASSUME PipeInv, PipeInv', NEW c \in CORE, NEW i \in DOMAIN ctcq[c], Carried(c, i), Owes(c)
  PROVE  InLine(ctcq'[c], owed'[c])
<1> USE DEF PipeInv
<1>0. PICK n : n = Len(ctcq[c][i].msgs)
  OBVIOUS
<1>1. Counted(c, i, n) /\ ctcq[c][i].cmplt = 0 /\ owed' = owed
  BY <1>0, CarriedMeans DEF Carried, FirstUndone
<1>2. DOMAIN ctcq'[c] = DOMAIN ctcq[c] /\ DOMAIN ctcq[c] = 1 .. Len(ctcq[c])
  BY <1>1, QueuesNumbered DEF Counted
<1>3. ASSUME NEW j \in DOMAIN ctcq[c]
      PROVE  Due(ctcq'[c][j]) = Due(ctcq[c][j]) /\ ctcq'[c][j].msgs = ctcq[c][j].msgs
  <2>1. CASE j = i
    <3> DEFINE q == ctcq[c][i]
               r == ctcq'[c][i]
    <3>1. r.msgs = q.msgs /\ r.cmplt = n /\ q.cmplt = 0 /\ q.msgs \in Seq(AcMessage)
      BY <1>1, <1>2, QueueTypes DEF Counted
    <3>2. DOMAIN q.msgs = 1 .. n /\ n \in Nat
      BY <1>0, <3>1
    <3> HIDE DEF q, r
    <3>3. Due(r) = DOMAIN q.msgs
      <4>1. \A k \in DOMAIN q.msgs : k > n - n
        BY <3>2
      <4>2. n = Len(r.msgs)
        BY <1>0, <3>1 DEF q
      <4> QED
        BY <3>1, <4>1, <4>2 DEF Due
    <3>4. Due(q) = DOMAIN q.msgs
      BY <3>1 DEF Due
    <3> QED
      BY <2>1, <3>1, <3>3, <3>4 DEF q, r
  <2>2. CASE j # i
    BY <1>1, <1>2, <2>2 DEF Counted
  <2> QED
    BY <2>1, <2>2
<1>4. InLine(ctcq'[c], owed[c])
  BY <1>2, <1>3, SameInLine DEF Owes
<1> QED
  BY <1>1, <1>4

LEMMA AnswersOwes ==
  ASSUME PipeInv, PipeInv', NEW c \in CORE, AnswersCtc(c), Owes(c)
  PROVE  InLine(ctcq'[c], owed'[c])
<1> USE DEF PipeInv
<1>0. PICK q, r, L : q = ctcq[c] /\ r = ctcq'[c] /\ L = Len(q[1].msgs)
  OBVIOUS
<1>1. owed[c] # <<>> /\ owed'[c] = Tail(owed[c])
  BY AnswersGoes DEF AnswerGoes
<1>2. Numbered(q) /\ DOMAIN q = 1 .. Len(q) /\ Len(q) \in Nat /\ Numbered(r) /\ DOMAIN r = 1 .. Len(r)
  BY <1>0, QueuesNumbered
<1>3. \/ q[1].cmplt > 1 /\ Counted(c, 1, 1)
      \/ Left(c)
  <2>1. (ctcq[c][1].cmplt > 1 /\ Counted(c, 1, 1)) \/ Left(c)
    BY AnswersMeans
  <2> QED
    BY <1>0, <2>1
<1>4. Len(q) > 0 /\ 1 \in DOMAIN q /\ q[1].cmplt > 0
  <2>1. Len(q) > 0 /\ 1 \in DOMAIN q
    BY <1>0, <1>2, <1>3 DEF Counted, Left
  <2>2. q[1].cmplt \in Nat
    BY <1>0, <2>1, QueueTypes
  <2> QED
    BY <1>0, <1>3, <2>1, <2>2 DEF Left
<1>5. /\ L \in {1, 2} /\ q[1].cmplt \in Nat /\ q[1].cmplt <= L /\ q[1].cmplt > 0
      /\ DOMAIN q[1].msgs = 1 .. L
  <2>1. q[1].cmplt \in Nat /\ q[1].msgs \in Seq(AcMessage)
    BY <1>0, <1>2, <1>4, QueueTypes
  <2>2. EntryShape(q[1])
    BY <1>0, <1>4 DEF EntryShapes
  <2>3. L \in {1, 2} /\ q[1].cmplt <= L
    BY <1>0, <2>2 DEF EntryShape
  <2>4. DOMAIN q[1].msgs = 1 .. L
    BY <1>0, <2>1
  <2> QED
    BY <1>4, <2>1, <2>3, <2>4
<1>6. PICK J : J = L - q[1].cmplt + 1
  OBVIOUS
<1>7. J \in Due(q[1]) /\ \A j \in Due(q[1]) : j >= J /\ j \in 1 .. L
  <2>1. PICK k : k = q[1].cmplt
    OBVIOUS
  <2>2. k \in Nat /\ k <= L /\ k > 0 /\ k # 0 /\ L \in Nat /\ J = L - k + 1
    BY <1>5, <1>6, <2>1
  <2>3. Due(q[1]) = {j \in 1 .. L : j > L - k}
    <3>1. DOMAIN q[1].msgs = 1 .. L /\ L = Len(q[1].msgs)
      BY <1>0, <1>5
    <3> QED
      BY <2>1, <2>2, <3>1 DEF Due
  <2>4. J \in 1 .. L /\ J > L - k
    BY <2>2
  <2>5. \A j \in 1 .. L : j > L - k => j >= J
    BY <2>2
  <2> QED
    BY <2>3, <2>4, <2>5
<1>8. CASE q[1].cmplt > 1 /\ Counted(c, 1, 1)
  <2>1. /\ Len(r) = Len(q) /\ r[1].msgs = q[1].msgs /\ r[1].cmplt = 1
        /\ \A i \in 1 .. Len(q) : i # 1 => r[i] = q[i]
    BY <1>0, <1>4, <1>8 DEF Counted
  <2>2. L = 2 /\ J = 1 /\ q[1].cmplt = 2
    BY <1>5, <1>6, <1>8
  <2>3. Due(r[1]) = {2} /\ 2 \in Due(q[1])
    BY <1>0, <1>5, <2>1, <2>2 DEF Due
  <2>4. ASSUME NEW i \in DOMAIN r, NEW j \in Due(r[i])
        PROVE  /\ i + 0 \in DOMAIN q /\ j \in Due(q[i + 0]) /\ r[i].msgs[j] = q[i + 0].msgs[j]
               /\ Before(1, 1, i + 0, j)
    <3>1. i + 0 = i /\ i \in 1 .. Len(q)
      BY <1>2, <2>1
    <3>2. CASE i = 1
      BY <1>2, <2>1, <2>3, <2>4, <3>1, <3>2 DEF Before
    <3>3. CASE i # 1
      BY <1>2, <2>1, <2>4, <3>1, <3>3 DEF Before
    <3> QED
      BY <3>2, <3>3
  <2>5. FirstDue(q, r, 0, 1)
    BY <1>4, <1>7, <2>2, <2>4 DEF FirstDue
  <2>6. InLine(q, owed[c])
    BY <1>0 DEF Owes
  <2>7. InLine(r, Tail(owed[c]))
    BY <1>1, <1>2, <2>5, <2>6, QueuesOf, LessInLine
  <2> QED
    BY <1>0, <1>1, <2>7
<1>9. CASE Left(c)
  <2>1. /\ q[1].cmplt = 1 /\ Len(r) = Len(q) - 1 /\ \A i \in 1 .. Len(q) - 1 : r[i] = q[i + 1]
    BY <1>0, <1>9 DEF Left
  <2>2. ASSUME NEW i \in DOMAIN r, NEW j \in Due(r[i])
        PROVE  /\ i + 1 \in DOMAIN q /\ j \in Due(q[i + 1]) /\ r[i].msgs[j] = q[i + 1].msgs[j]
               /\ Before(1, J, i + 1, j)
    <3>1. i \in 1 .. Len(q) - 1 /\ i + 1 \in 1 .. Len(q) /\ i \in Nat /\ 1 < i + 1
      BY <1>2, <2>1
    <3> QED
      BY <1>2, <2>1, <2>2, <3>1 DEF Before
  <2>3. FirstDue(q, r, 1, J)
    BY <1>4, <1>7, <2>2 DEF FirstDue
  <2>4. InLine(q, owed[c])
    BY <1>0 DEF Owes
  <2>5. InLine(r, Tail(owed[c]))
    BY <1>1, <1>2, <2>3, <2>4, QueuesOf, LessInLine
  <2> QED
    BY <1>0, <1>1, <2>5
<1> QED
  BY <1>3, <1>8, <1>9

LEMMA OwesStep ==
  ASSUME PipeInv, PipeInv', PairInv, IdsDiffer, \A d \in CORE : Owes(d), PipeStep
  PROVE  \A d \in CORE : Owes(d)'
<1> USE DEF PipeInv
<1>1. ASSUME UNCHANGED <<ctcq, owed>>
      PROVE  \A d \in CORE : Owes(d)'
  <2>1. ASSUME NEW d \in CORE
        PROVE  InLine(ctcq'[d], owed'[d])
    BY <1>1 DEF Owes
  <2> QED
    BY <2>1 DEF Owes, InLine, Due
<1>2. ASSUME NEW c \in CORE, Missed(c)
      PROVE  \A d \in CORE : Owes(d)'
  <2>1. GoesOn(c) /\ ~IsCtc(Head(ac[c])) /\ UNCHANGED ctcq
    BY <1>2, TakenGoesOn DEF Missed, IsCtc
  <2>2. InLine(ctcq'[c], owed'[c])
    BY <2>1, SnoopInLine, QueuesOf DEF Owes, GoesOn
  <2> QED
    BY <2>1, <2>2, OwesFrame DEF Others, GoesOn
<1>3. ASSUME NEW c \in CORE, Obeyed(c)
      PROVE  \A d \in CORE : Owes(d)'
  <2>1. GoesOn(c) /\ Others(c) /\ InLine(ctcq'[c], owed'[c])
    BY <1>3, TakenGoesOn, ObeyedMeans, ObeyedOwes
  <2> QED
    BY <2>1, OwesFrame DEF GoesOn
<1>4. ASSUME NEW c \in CORE, NEW i \in DOMAIN ctcq[c], Carried(c, i)
      PROVE  \A d \in CORE : Owes(d)'
  <2>1. owed' = owed /\ Others(c) /\ InLine(ctcq'[c], owed'[c])
    BY <1>4, CarriedMeans, CarriedOwes DEF Carried
  <2> QED
    BY <2>1, OwesFrame
<1>5. ASSUME NEW c \in CORE, AnswersCtc(c)
      PROVE  \A d \in CORE : Owes(d)'
  <2>1. AnswerGoes(c) /\ Others(c) /\ InLine(ctcq'[c], owed'[c])
    BY <1>5, AnswersGoes, AnswersMeans, AnswersOwes
  <2> QED
    BY <2>1, OwesFrame DEF AnswerGoes
<1>6. ASSUME NEW c \in CORE, AnswersSnoop(c)
      PROVE  \A d \in CORE : Owes(d)'
  <2>1. AnswerGoes(c) /\ ~IsCtc(Head(owed[c])) /\ UNCHANGED ctcq
    BY <1>6, AnswersGoes DEF AnswersSnoop, IsCtc
  <2>2. InLine(ctcq'[c], owed'[c])
    BY <2>1, SnoopInLine, QueuesOf DEF Owes, AnswerGoes
  <2> QED
    BY <2>1, <2>2, OwesFrame DEF Others, AnswerGoes
<1>7. ASSUME NEW c \in CORE,
             \/ \E m \in Message : ArGrows(c, m) \/ Created(c, m)
             \/ ArShrinks(c) \/ \E i \in DOMAIN reqq, n \in {0, 1} : Sent(c, i, n)
             \/ \E e \in ENTRY : Snooped(c, e)
             \/ \E i \in DOMAIN ctcq[c] : Started(c, i)
      PROVE  UNCHANGED <<ctcq, owed>>
  BY <1>7, Zenon DEF ArGrows, Created, ArShrinks, Sent, Snooped, Started
<1>8. ASSUME UNCHANGED pipe
      PROVE  UNCHANGED <<ctcq, owed>>
  BY <1>8 DEF pipe
<1> QED
  BY <1>1, <1>2, <1>3, <1>4, <1>5, <1>6, <1>7, <1>8 DEF PipeStep

LEMMA AnswerInvStep ==
  ASSUME Types, PipeInv, PairInv, AnswerInv, PipeStep
  PROVE  AnswerInv'
BY PipeInvStep, AwaitsStep, IdsDifferStep, OwesStep DEF AnswerInv

-----------------------------------------------------------------------------
(***************************************************************************)
(* The answers to a barrier.                                               *)
(***************************************************************************)
LEMMA BarFrom ==
  ASSUME [Next]_vars
  PROVE  \/ UNCHANGED bar \/ BarrierStep \/ CtcCmplt
         \/ \E e \in ENTRY : SabBarDone(e)
         \/ \E c \in CORE : NcqBarDone(c)
<1>1. CASE Ask
  BY <1>1 DEF Ask, SendCtc, Fetch, ChangeFlow, Store, NcWrite, FenceAw
<1>2. CASE CtcStep
  BY <1>2 DEF CtcStep, SendSecond, CtcCreate, AcCtc, CtcBar, CtcEmpty
<1>3. CASE SabStep
  BY <1>3 DEF SabStep, SabFetch, SabStore, AcSnoop, CrSnoop, SabBar, SabStoreDone, SabFetchDone
<1>4. CASE NcStep
  BY <1>4 DEF NcStep, NcqCreate, MemDone, NcqBar, EbiuTake
<1>5. CASE ObeyStep
  BY <1>5, ObeyIsAside DEF Aside
<1>6. CASE UNCHANGED vars
  BY <1>6 DEF vars
<1> QED
  BY <1>1, <1>2, <1>3, <1>4, <1>5, <1>6, NextSteps

\* Where an answer comes from.
Reached(c, t) ==
  \/ t = "snb" /\ \E e \in ENTRY : SabBarDone(e) /\ sab[e].mid = c
  \/ t = "ncq" /\ NcqBarDone(c)
  \/ t = "ctcq" /\ CtcCmplt /\ bar_mid = c

LEMMA DoneFrom ==
  ASSUME Types, Places, [Next]_vars, NEW c \in CORE, NEW t \in TARGET, Done(c, t)'
  PROVE  Done(c, t) \/ Reached(c, t)
<1>a. bar \in [CORE -> BarType]
  BY DEF Types, BarrierTypes
<1>1. ASSUME UNCHANGED bar
      PROVE  Done(c, t)
  BY <1>1 DEF Done
<1>2. ASSUME NEW d \in CORE, NEW u, Cmplt(d, u)
      PROVE  Done(c, t) \/ (c = d /\ t = u)
  <2>1. /\ d # c => bar'[c] = bar[c]
        /\ bar'[d].cmplt = bar[d].cmplt \cup {u} /\ bar'[d].st = bar[d].st
    BY <1>2, <1>a DEF Cmplt, BarType
  <2> QED
    BY <2>1 DEF Done
<1>3. ASSUME NEW d \in CORE, BarHalf(d)
      PROVE  Done(c, t)
  <2>1. (d # c => bar'[c] = bar[c]) /\ bar'[d].cmplt = {}
    BY <1>3, <1>a DEF BarHalf
  <2> QED
    BY <2>1 DEF Done
<1>4. ASSUME NEW d \in CORE, BarDone(d) \/ BarResp(d) \/ \E u \in TARGET : BmbGrant(d, u)
      PROVE  Done(c, t)
  <2>1. /\ d # c => bar'[c] = bar[c]
        /\ bar'[d].cmplt = bar[d].cmplt
        /\ bar'[d].st = "IDLE" \/ bar[d].st \in {"REQ", "W_BAR_CMPLT"}
    <3>1. ASSUME BarDone(d) \/ BarResp(d)
          PROVE  \E s : bar' = [bar EXCEPT ![d].st = s] /\ (s = "IDLE" \/ bar[d].st = "W_BAR_CMPLT")
      BY <3>1 DEF BarDone, BarResp
    <3>2. ASSUME NEW u \in TARGET, BmbGrant(d, u)
          PROVE  /\ bar[d].st = "REQ"
                 /\ \E g, s : bar' = [bar EXCEPT ![d] = [@ EXCEPT !.grant = g, !.st = s]]
      BY <3>2 DEF BmbGrant, bar_req
    <3> QED
      BY <1>4, <1>a, <3>1, <3>2 DEF BarType
  <2> QED
    BY <2>1 DEF Done
<1>5. ASSUME BarrierStep
      PROVE  Done(c, t)
  <2>1. PICK d \in CORE : \/ FenceAr(d) \/ ArBar(d) \/ AwBar(d) \/ \E u \in TARGET : BmbGrant(d, u)
                          \/ BarDone(d) \/ BarResp(d)
    BY <1>5 DEF BarrierStep
  <2>2. CASE FenceAr(d)
    BY <1>1, <2>2 DEF FenceAr
  <2>3. CASE ArBar(d) \/ AwBar(d)
    BY <1>3, <2>3 DEF ArBar, AwBar
  <2> QED
    BY <1>4, <2>1, <2>2, <2>3
<1>6. ASSUME CtcCmplt
      PROVE  Done(c, t) \/ Reached(c, t)
  BY <1>2, <1>6 DEF CtcCmplt, Places, MidIsCore, Reached
<1>7. ASSUME NEW e \in ENTRY, SabBarDone(e)
      PROVE  Done(c, t) \/ Reached(c, t)
  BY <1>2, <1>7 DEF SabBarDone, Places, OneEntry, Reached
<1>8. ASSUME NEW d \in CORE, NcqBarDone(d)
      PROVE  Done(c, t) \/ Reached(c, t)
  BY <1>2, <1>8 DEF NcqBarDone, Reached
<1> QED
  BY <1>1, <1>5, <1>6, <1>7, <1>8, BarFrom

\* A barrier that is to be answered, or was in part, has left the AR channel.
LEMMA AtWhere ==
  ASSUME Types, Halves, Places, NEW c \in CORE, NEW t \in TARGET, At(c, t) \/ Done(c, t)
  PROVE  fence[c] = "ar" /\ ~HasBar(ar[c]) /\ ws[c] # "bar"
<1>1. bar[c].st \in {"REQ", "W_BAR_CMPLT", "RESP"}
  BY DEF Places, Taken, Going, Done
<1> QED
  BY <1>1 DEF Halves, HalvesOf, HasBar, Types, ProgramTypes

\* The answer comes from where the barrier is.
LEMMA ReachedWhere ==
  ASSUME Places, NEW c \in CORE, NEW t \in TARGET, Reached(c, t)
  PROVE  At(c, t)
<1>1. NONE # 0
  BY NoneIsOther
<1>2. ASSUME t = "snb", NEW e \in ENTRY, SabBarDone(e), sab[e].mid = c
      PROVE  At(c, t)
  BY <1>2 DEF SabBarDone, At
<1>3. ASSUME t = "ncq", NcqBarDone(c)
      PROVE  At(c, t)
  BY <1>1, <1>3 DEF NcqBarDone, At
<1>4. ASSUME t = "ctcq", CtcCmplt, bar_mid = c
      PROVE  At(c, t)
  BY <1>4 DEF CtcCmplt, At
<1> QED
  BY <1>2, <1>3, <1>4 DEF Reached

-----------------------------------------------------------------------------
\* Behind a barrier.
BarBehind(q) == \A i \in DOMAIN q : q[i].k = "ctc" => \E j \in DOMAIN q : j > i /\ q[j].k = "bar"
LEMMA BehindMoves ==
  ASSUME NEW q \in Seq(Message)
  PROVE  /\ \A m \in Message : \/ m.k = "bar"
                               \/ BarBehind(q) /\ m.k # "ctc"
                               => BarBehind(Append(q, m))
         /\ BarBehind(q) /\ q # <<>> => BarBehind(Tail(q))
<1>1. ASSUME NEW m \in Message, m.k = "bar" \/ (BarBehind(q) /\ m.k # "ctc")
      PROVE  BarBehind(Append(q, m))
  <2> DEFINE t == Append(q, m)
  <2>1. /\ Len(q) \in Nat /\ DOMAIN q = 1 .. Len(q) /\ DOMAIN t = 1 .. Len(q) + 1
        /\ \A i \in 1 .. Len(q) : t[i] = q[i]
        /\ t[Len(q) + 1] = m
    BY AppendFacts
  <2> HIDE DEF t
  <2>2. ASSUME NEW i \in DOMAIN t, t[i].k = "ctc"
        PROVE  \E j \in DOMAIN t : j > i /\ t[j].k = "bar"
    <3>1. m.k # "ctc"
      BY <1>1
    <3>2. i \in DOMAIN q /\ t[i] = q[i] /\ i < Len(q) + 1
      BY <2>1, <2>2, <3>1
    <3>3. CASE m.k = "bar"
      BY <2>1, <3>2, <3>3
    <3>4. CASE m.k # "bar"
      <4>1. PICK j \in DOMAIN q : j > i /\ q[j].k = "bar"
        BY <1>1, <2>2, <3>2, <3>4 DEF BarBehind
      <4> QED
        BY <2>1, <4>1
    <3> QED
      BY <3>3, <3>4
  <2>3. BarBehind(t)
    BY <2>2 DEF BarBehind
  <2> QED
    BY <2>3 DEF t
<1>2. ASSUME BarBehind(q), q # <<>>
      PROVE  BarBehind(Tail(q))
  <2> DEFINE t == Tail(q)
  <2>1. /\ Len(q) \in Nat /\ DOMAIN q = 1 .. Len(q) /\ DOMAIN t = 1 .. Len(q) - 1
        /\ \A i \in 1 .. Len(q) - 1 : t[i] = q[i + 1]
    BY <1>2, TailFacts
  <2> HIDE DEF t
  <2>2. ASSUME NEW i \in DOMAIN t, t[i].k = "ctc"
        PROVE  \E j \in DOMAIN t : j > i /\ t[j].k = "bar"
    <3>1. i + 1 \in DOMAIN q /\ t[i] = q[i + 1] /\ i \in Nat
      BY <2>1
    <3>2. PICK j \in DOMAIN q : j > i + 1 /\ q[j].k = "bar"
      BY <1>2, <2>2, <3>1 DEF BarBehind
    <3>3. j - 1 \in DOMAIN t /\ t[j - 1] = q[j] /\ j - 1 > i
      BY <2>1, <3>1, <3>2
    <3> QED
      BY <3>2, <3>3
  <2>3. BarBehind(t)
    BY <2>2 DEF BarBehind
  <2> QED
    BY <2>3 DEF t
<1> QED
  BY <1>1, <1>2

\* How fence and ar change together.
ArMoves ==
  \/ UNCHANGED <<fence, ar>>
  \/ \E c \in CORE :
       \/ ar' = ar /\ \E s \in {"none", "aw"} : fence' = [fence EXCEPT ![c] = s]
       \/ \E m \in Message :
            /\ ar' = [ar EXCEPT ![c] = Append(@, m)]
            /\ \/ fence' = [fence EXCEPT ![c] = "ar"] /\ m.k = "bar"
               \/ fence' = fence /\ (m.k # "ctc" \/ fence[c] = "none")
       \/ fence' = fence /\ ar[c] # <<>> /\ ar' = [ar EXCEPT ![c] = Tail(@)]

LEMMA NextArMoves ==
  ASSUME Types, HalfAlone, [Next]_vars
  PROVE  ArMoves
<1>1. ASSUME NEW c \in CORE, NEW k \in {"ici", "tlb"}, SendCtc(c, k)
      PROVE  ArMoves
  <2> DEFINE m == Msg("ctc", <<c, k, left[c][k]>>, 1, 0)
  <2>1. /\ Use(c, k) /\ fence[c] = "none" /\ fence' = fence
        /\ ar' = [ar EXCEPT ![c] = Append(@, m)]
    BY <1>1 DEF SendCtc
  <2>2. left[c][k] \in Nat
    BY <2>1, UseType DEF Types, KIND
  <2>3. m \in Message
    BY <2>2, MsgType DEF Op, KIND
  <2> HIDE DEF m
  <2> QED
    BY <2>1, <2>3 DEF ArMoves
<1>2. ASSUME NEW c \in CORE, SendSecond(c)
      PROVE  ArMoves
  <2> DEFINE m == Msg("ctc", half[c], 2, 0)
  <2>1. half[c] # NONE /\ fence' = fence /\ ar' = [ar EXCEPT ![c] = Append(@, m)]
    BY <1>2 DEF SendSecond
  <2>2. m \in Message /\ fence[c] = "none"
    BY <2>1, MsgType DEF Types, ProgramTypes, HalfAlone
  <2> HIDE DEF m
  <2> QED
    BY <2>1, <2>2 DEF ArMoves
<1>3. ASSUME NEW c \in CORE, Fetch(c)
      PROVE  ArMoves
  <2> DEFINE m == Msg("fetch", NONE, 0, 0)
  <2>1. fence' = fence /\ ar' = [ar EXCEPT ![c] = Append(@, m)]
    BY <1>3 DEF Fetch
  <2>2. m \in Message /\ m.k = "fetch"
    BY MsgType
  <2> HIDE DEF m
  <2> QED
    BY <2>1, <2>2 DEF ArMoves
<1>4. ASSUME NEW c \in CORE, FenceAr(c)
      PROVE  ArMoves
  <2> DEFINE m == Msg("bar", NONE, 0, 0)
  <2>1. fence' = [fence EXCEPT ![c] = "ar"] /\ ar' = [ar EXCEPT ![c] = Append(@, m)]
    BY <1>4 DEF FenceAr
  <2>2. m \in Message /\ m.k = "bar"
    BY MsgType
  <2> HIDE DEF m
  <2> QED
    BY <2>1, <2>2 DEF ArMoves
<1>5. ASSUME NEW c \in CORE, ArBar(c) \/ CtcCreate(c) \/ SabFetch(c)
      PROVE  ArMoves
  BY <1>5 DEF ArBar, CtcCreate, SabFetch, prog, ArMoves
<1>6. ASSUME NEW c \in CORE, FenceAw(c) \/ BarResp(c)
      PROVE  ArMoves
  BY <1>6 DEF FenceAw, BarResp, ArMoves
<1>7. ASSUME ~ArMoves
      PROVE  UNCHANGED <<fence, ar>>
  <2>1. CASE Ask
    BY <1>1, <1>3, <1>6, <1>7, <2>1 DEF Ask, ChangeFlow, Store, NcWrite, prog
  <2>2. CASE BarrierStep
    BY <1>4, <1>5, <1>6, <1>7, <2>2 DEF BarrierStep, AwBar, BmbGrant, BarDone, prog
  <2>3. CASE CtcStep
    BY <1>2, <1>5, <1>7, <2>3 DEF CtcStep, AcCtc, CtcBar, CtcEmpty, CtcCmplt, prog
  <2>4. CASE SabStep
    BY <1>5, <1>7, <2>4 DEF SabStep, SabStore, AcSnoop, CrSnoop, SabBar, SabStoreDone,
                            SabFetchDone, SabBarDone, prog
  <2>5. CASE NcStep
    BY <2>5 DEF NcStep, NcqCreate, NcqBarDone, MemDone, NcqBar, EbiuTake, prog
  <2>6. CASE ObeyStep
    BY <2>6, ObeyIsAside DEF Aside
  <2>7. CASE UNCHANGED vars
    BY <2>7 DEF vars, prog
  <2> QED
    BY <2>1, <2>2, <2>3, <2>4, <2>5, <2>6, <2>7, NextSteps
<1> QED
  BY <1>7 DEF ArMoves

LEMMA ArGoneStep ==
  ASSUME Types, HalfAlone, ArGone, [Next]_vars
  PROVE  ArGone'
<1>a. /\ ar \in [CORE -> Seq(Message)] /\ fence \in [CORE -> {"none", "aw", "ar"}]
      /\ \A c \in CORE : fence[c] = "ar" => BarBehind(ar[c])
  BY DEF Types, ProgramTypes, ArGone, BarBehind
<1>1. ASSUME NEW c \in CORE, fence'[c] = "ar"
      PROVE  BarBehind(ar'[c])
  <2>1. CASE UNCHANGED <<fence, ar>>
    BY <1>1, <1>a, <2>1
  <2>2. ASSUME NEW d \in CORE, ar' = ar, NEW s \in {"none", "aw"}, fence' = [fence EXCEPT ![d] = s]
        PROVE  BarBehind(ar'[c])
    BY <1>1, <1>a, <2>2
  <2>3. ASSUME NEW d \in CORE, NEW m \in Message, ar' = [ar EXCEPT ![d] = Append(@, m)],
               \/ fence' = [fence EXCEPT ![d] = "ar"] /\ m.k = "bar"
               \/ fence' = fence /\ (m.k # "ctc" \/ fence[d] = "none")
        PROVE  BarBehind(ar'[c])
    <3>1. CASE d # c
      BY <1>1, <1>a, <2>3, <3>1
    <3>2. CASE d = c
      <4>1. ar[c] \in Seq(Message) /\ ar'[c] = Append(ar[c], m)
        BY <1>a, <2>3, <3>2
      <4>2. m.k = "bar" \/ (BarBehind(ar[c]) /\ m.k # "ctc")
        BY <1>1, <1>a, <2>3, <3>2
      <4> QED
        BY <4>1, <4>2, BehindMoves
    <3> QED
      BY <3>1, <3>2
  <2>4. ASSUME NEW d \in CORE, fence' = fence, ar[d] # <<>>, ar' = [ar EXCEPT ![d] = Tail(@)]
        PROVE  BarBehind(ar'[c])
    <3>1. CASE d # c
      BY <1>1, <1>a, <2>4, <3>1
    <3>2. CASE d = c
      <4>1. ar[c] \in Seq(Message) /\ ar[c] # <<>> /\ ar'[c] = Tail(ar[c]) /\ BarBehind(ar[c])
        BY <1>1, <1>a, <2>4, <3>2
      <4> QED
        BY <4>1, BehindMoves
    <3> QED
      BY <3>1, <3>2
  <2>5. ArMoves
    BY NextArMoves
  <2> QED
    BY <2>1, <2>2, <2>3, <2>4, <2>5 DEF ArMoves
<1> QED
  BY <1>1 DEF ArGone, BarBehind

\* With its barrier at a target or beyond, no operation of a core is on AR.
LEMMA NothingOnAr ==
  ASSUME Types, Halves, Places, ArGone, NEW c \in CORE, NEW t \in TARGET, At(c, t) \/ Done(c, t)
  PROVE  \A i \in DOMAIN ar[c] : ar[c][i].k # "ctc"
BY AtWhere DEF ArGone, HasBar

\* When the CTCQ is idle, or has waited for a barrier, nothing is to be answered.
LEMMA CtcqMoves ==
  ASSUME [Next]_vars
  PROVE  \/ UNCHANGED <<sync, reqq, respq>>
         \/ CtcBar \/ CtcEmpty \/ CtcCmplt
         \/ \E c \in CORE : CtcCreate(c) \/ AcCtc(c) \/ CrCtc(c)
<1>1. CASE Ask
  BY <1>1 DEF Ask, SendCtc, Fetch, ChangeFlow, Store, NcWrite, FenceAw, ctc
<1>2. CASE BarrierStep
  BY <1>2 DEF BarrierStep, FenceAr, ArBar, AwBar, BmbGrant, BarDone, BarResp, ctc
<1>3. CASE CtcStep
  BY <1>3 DEF CtcStep, SendSecond, ctc
<1>4. CASE SabStep
  BY <1>4 DEF SabStep, SabFetch, SabStore, AcSnoop, CrSnoop, SabBar, SabStoreDone,
              SabFetchDone, SabBarDone, ctc
<1>5. CASE NcStep
  BY <1>5 DEF NcStep, NcqCreate, NcqBarDone, MemDone, NcqBar, EbiuTake, ctc
<1>6. CASE ObeyStep
  BY <1>6 DEF ObeyStep, AcTakeCtc, AcTakeSnoop, Launch, CtcInv, InvDone, ctc
<1>7. CASE UNCHANGED vars
  BY <1>7 DEF vars, ctc
<1> QED
  BY <1>1, <1>2, <1>3, <1>4, <1>5, <1>6, <1>7, NextSteps

LEMMA SyncAnsweredStep ==
  ASSUME PipeTypes, SyncAnswered, [Next]_vars
  PROVE  SyncAnswered'
<1>1. ASSUME UNCHANGED <<reqq, respq>>, sync' \in {"IDLE", "CMPLT"} => AllAnswered
      PROVE  SyncAnswered'
  BY <1>1 DEF SyncAnswered, AllAnswered
<1>2. CASE UNCHANGED <<sync, reqq, respq>>
  BY <1>1, <1>2 DEF SyncAnswered
<1>3. CASE CtcBar \/ CtcEmpty \/ CtcCmplt
  BY <1>1, <1>3 DEF CtcBar, CtcEmpty, CtcCmplt, bar_grant, SyncAnswered
<1>4. ASSUME NEW c \in CORE, CtcCreate(c)
      PROVE  SyncAnswered'
  BY <1>4 DEF CtcCreate, SyncAnswered
<1>5. ASSUME NEW c \in CORE, AcCtc(c)
      PROVE  SyncAnswered'
  <2>1. sync' = sync /\ reqq # <<>>
    BY <1>5 DEF AcCtc
  <2> QED
    BY <2>1 DEF SyncAnswered, AllAnswered
<1>6. ASSUME NEW c \in CORE, CrCtc(c)
      PROVE  SyncAnswered'
  <2>1. /\ UNCHANGED <<sync, reqq>>
        /\ \E id : respq' = [respq EXCEPT ![id] = @ \ {c}]
    BY <1>6 DEF CrCtc
  <2>2. respq \in [1 .. RESPQ -> SUBSET CORE]
    BY DEF PipeTypes
  <2>3. ASSUME AllAnswered
        PROVE  AllAnswered'
    BY <2>1, <2>2, <2>3 DEF AllAnswered
  <2> QED
    BY <2>1, <2>3 DEF SyncAnswered
<1> QED
  BY <1>2, <1>3, <1>4, <1>5, <1>6, CtcqMoves

-----------------------------------------------------------------------------
(***************************************************************************)
(* The operations a barrier has waited for.                                *)
(***************************************************************************)
OpsGone(c) ==
  /\ \A i \in DOMAIN reqq : reqq[i].msg.op[1] # c
  /\ \A d \in CORE :
       /\ \A i \in DOMAIN ac[d] : IsCtc(ac[d][i]) => ac[d][i].op[1] # c
       /\ \A i \in DOMAIN ctcq[d] : ctcq[d][i].cmplt = 0 => ctcq[d][i].msgs[1].op[1] # c
NoneOnAr(c) == \A i \in DOMAIN ar[c] : ar[c][i].k # "ctc"

LEMMA GoneIs ==
  ASSUME NEW c
  PROVE  Unperformed(c) <=> ~(OpsGone(c) /\ NoneOnAr(c))
BY DEF Unperformed, OpsGone, NoneOnAr, IsCtc

\* What waits for no answer is done.
LEMMA AnsweredGone ==
  ASSUME PipeInv, AnswerInv, AllAnswered, NEW c
  PROVE  OpsGone(c)
<1>1. reqq = <<>> /\ \A d, m : ~Waits(d, m)
  BY DEF AllAnswered, Waits, PipeInv, PipeTypes
<1>2. ASSUME NEW d \in CORE
      PROVE  /\ \A i \in DOMAIN ac[d] : ~IsCtc(ac[d][i])
             /\ \A i \in DOMAIN owed[d] : ~IsCtc(owed[d][i])
  BY <1>1 DEF AnswerInv, Awaits, QueueWaits
<1>3. ASSUME NEW d \in CORE, NEW i \in DOMAIN ctcq[d], ctcq[d][i].cmplt = 0
      PROVE  FALSE
  <2>1. Len(ctcq[d][i].msgs) \in {1, 2} /\ ctcq[d][i].msgs \in Seq(AcMessage)
    BY QueueTypes DEF PipeInv, EntryShapes, EntryShape
  <2>2. 1 \in Due(ctcq[d][i])
    BY <1>3, <2>1 DEF Due
  <2>3. InLine(ctcq[d], owed[d])
    BY DEF AnswerInv, Owes
  <2>4. PICK k \in DOMAIN owed[d] : IsCtc(owed[d][k])
    BY <2>2, <2>3 DEF InLine
  <2> QED
    BY <1>2, <2>4
<1> QED
  BY <1>1, <1>2, <1>3 DEF OpsGone

LEMMA OpsGoneStep ==
  ASSUME Types, PipeInv, NEW c \in CORE, OpsGone(c), NoneOnAr(c), PipeStep
  PROVE  OpsGone(c)'
<1> USE DEF PipeInv
<1> DEFINE Asked == \A i \in DOMAIN reqq : reqq[i].msg.op[1] # c
           OnAc(d) == \A i \in DOMAIN ac[d] : IsCtc(ac[d][i]) => ac[d][i].op[1] # c
           Obeying(d) == \A i \in DOMAIN ctcq[d] : ctcq[d][i].cmplt = 0 => ctcq[d][i].msgs[1].op[1] # c
<1>a. Asked /\ \A d \in CORE : OnAc(d) /\ Obeying(d)
  BY DEF OpsGone
<1>b. ASSUME Asked', \A d \in CORE : OnAc(d)' /\ Obeying(d)'
      PROVE  OpsGone(c)'
  BY <1>b DEF OpsGone, IsCtc
<1>c. /\ ac \in [CORE -> Seq(AcMessage)] /\ ar[c] \in Seq(Message)
      /\ \A d \in CORE : DOMAIN ctcq[d] = 1 .. Len(ctcq[d]) /\ Len(ctcq[d]) \in Nat
  BY QueueTypes DEF PipeTypes, Types, ProgramTypes
<1>d. PipeTypes'
  BY PipeTypesStep
<1>e. \A d \in CORE : DOMAIN ctcq'[d] = 1 .. Len(ctcq'[d])
  BY <1>d DEF PipeTypes
<1>f. ASSUME UNCHANGED ac
      PROVE  \A d \in CORE : OnAc(d)'
  BY <1>a, <1>f DEF IsCtc
<1>g. ASSUME UNCHANGED ctcq
      PROVE  \A d \in CORE : Obeying(d)'
  BY <1>a, <1>g
<1>1. ASSUME UNCHANGED <<reqq, ac, ctcq>>
      PROVE  OpsGone(c)'
  BY <1>1 DEF OpsGone, IsCtc
<1>2. ASSUME NEW d \in CORE, NEW m \in Message, Created(d, m)
      PROVE  OpsGone(c)'
  <2>1. /\ ar[d] # <<>> /\ Head(ar[d]).k = "ctc" /\ m.op = Head(ar[d]).op /\ UNCHANGED <<ac, ctcq>>
    BY <1>2 DEF Created
  <2>2. m.op[1] # c
    <3>1. ar[d] \in Seq(Message)
      BY DEF Types, ProgramTypes
    <3>2. 1 \in DOMAIN ar[d] /\ Head(ar[d]) = ar[d][1]
      BY <2>1, <3>1
    <3>3. m.op[1] = d
      BY <2>1, <3>2 DEF Kinds
    <3>4. d # c
      BY <2>1, <3>2 DEF NoneOnAr
    <3> QED
      BY <3>3, <3>4
  <2>3. Asked'
    <3>1. ASSUME NEW i \in DOMAIN reqq'
          PROVE  reqq'[i].msg.op[1] # c
      <4>1. CASE i = Len(reqq) + 1
        BY <1>2, <2>2, <4>1, CreatedMeans
      <4>2. CASE i # Len(reqq) + 1
        <5>1. i \in DOMAIN reqq /\ reqq'[i] = reqq[i]
          BY <1>2, <4>2, CreatedMeans, RequestTypes
        <5> QED
          BY <1>a, <5>1
      <4> QED
        BY <4>1, <4>2
    <3> QED
      BY <3>1
  <2>4. \A e \in CORE : OnAc(e)' /\ Obeying(e)'
    BY <1>f, <1>g, <2>1
  <2> QED
    BY <1>b, <2>3, <2>4
<1>3. ASSUME NEW d \in CORE, NEW i \in DOMAIN reqq, NEW n \in {0, 1}, Sent(d, i, n)
      PROVE  OpsGone(c)'
  <2>0. PICK m : m = reqq[i].msg
    OBVIOUS
  <2>1. ac' = [ac EXCEPT ![d] = Append(@, m)] /\ UNCHANGED ctcq
    BY <1>3, <2>0 DEF Sent
  <2>2. m \in AcMessage /\ m.op[1] # c
    BY <1>a, <2>0, RequestIs
  <2>3. \A e \in CORE : OnAc(e)'
    BY <1>a, <1>c, <2>1, <2>2 DEF IsCtc
  <2>4. Asked'
    <3>1. AfterSent(d, i, n)
      BY <1>3, SentMeans
    <3>2. ASSUME NEW j \in DOMAIN reqq'
          PROVE  reqq'[j].msg.op[1] # c
      <4>1. j + n \in DOMAIN reqq /\ reqq'[j].msg = reqq[j + n].msg
        BY <3>1, RequestTypes DEF AfterSent
      <4> QED
        BY <1>a, <4>1
    <3> QED
      BY <3>2
  <2>5. \A e \in CORE : Obeying(e)'
    BY <1>a, <2>1
  <2> QED
    BY <1>b, <2>3, <2>4, <2>5
<1>4. ASSUME NEW d \in CORE, NEW e \in ENTRY, Snooped(d, e)
      PROVE  OpsGone(c)'
  <2>0. PICK m : m = Msg("snp", NONE, 0, e)
    OBVIOUS
  <2>1. ac' = [ac EXCEPT ![d] = Append(@, m)] /\ UNCHANGED <<reqq, ctcq>>
    BY <1>4, <2>0 DEF Snooped
  <2>2. m \in AcMessage /\ ~IsCtc(m)
    BY <2>0, SnoopIs
  <2>3. \A f \in CORE : OnAc(f)'
    BY <1>a, <1>c, <2>1, <2>2 DEF IsCtc
  <2>4. Asked'
    BY <1>a, <2>1
  <2>5. \A f \in CORE : Obeying(f)'
    BY <1>g, <2>1
  <2> QED
    BY <1>b, <2>3, <2>4, <2>5
<1>5. ASSUME NEW d \in CORE, Obeyed(d) \/ Missed(d)
      PROVE  OpsGone(c)'
  <2>0. PICK h : h = Head(ac[d])
    OBVIOUS
  <2>1. /\ ac[d] # <<>> /\ ac'[d] = Tail(ac[d]) /\ UNCHANGED reqq
        /\ \A e \in CORE \ {d} : ac'[e] = ac[e]
    BY <1>5, TakenGoesOn DEF GoesOn
  <2>2. \A e \in CORE : OnAc(e)'
    <3>1. ASSUME NEW i \in DOMAIN ac'[d]
          PROVE  i + 1 \in DOMAIN ac[d] /\ ac'[d][i] = ac[d][i + 1]
      <4>1. ac[d] \in Seq(AcMessage)
        BY <1>c
      <4>2. /\ DOMAIN Tail(ac[d]) = 1 .. Len(ac[d]) - 1
            /\ Len(ac[d]) \in Nat /\ DOMAIN ac[d] = 1 .. Len(ac[d])
            /\ \A j \in 1 .. Len(ac[d]) - 1 : Tail(ac[d])[j] = ac[d][j + 1]
        BY <2>1, <4>1, TailFacts
      <4>3. i \in 1 .. Len(ac[d]) - 1
        BY <2>1, <3>1, <4>2
      <4>4. i + 1 \in 1 .. Len(ac[d])
        BY <4>2, <4>3
      <4> QED
        BY <2>1, <4>2, <4>3, <4>4
    <3>2. \A i \in DOMAIN ac'[d] : IsCtc(ac'[d][i]) => ac'[d][i].op[1] # c
      BY <1>a, <3>1
    <3>3. \A e \in CORE \ {d} : OnAc(e) /\ ac'[e] = ac[e]
      BY <1>a, <2>1
    <3>4. \A e \in CORE \ {d} : OnAc(e)'
      BY <3>3 DEF IsCtc
    <3>5. OnAc(d)'
      BY <3>2 DEF IsCtc
    <3> QED
      BY <3>4, <3>5
  <2>3. ASSUME Missed(d)
        PROVE  \A e \in CORE : Obeying(e)'
    BY <1>a, <2>3 DEF Missed
  <2>4. ASSUME Obeyed(d)
        PROVE  \A e \in CORE : Obeying(e)'
    <3>1. IsCtc(h) /\ h.op[1] # c
      <4>1. 1 \in DOMAIN ac[d] /\ h = ac[d][1] /\ IsCtc(h)
        BY <1>c, <2>0, <2>1, <2>4 DEF Obeyed, IsCtc
      <4> QED
        BY <1>a, <4>1
    <3>2. Others(d) /\ (Joined(d, h) \/ Entered(d, h))
      BY <2>0, <2>4, ObeyedMeans
    <3>3. ASSUME NEW i \in DOMAIN ctcq'[d], ctcq'[d][i].cmplt = 0
          PROVE  ctcq'[d][i].msgs[1].op[1] # c
      <4>1. CASE Joined(d, h)
        <5>1. CASE i = Len(ctcq[d])
          <6>1. /\ ctcq'[d][i].msgs = Append(ctcq[d][i].msgs, h)
                /\ ctcq'[d][i].cmplt = ctcq[d][i].cmplt /\ i \in DOMAIN ctcq[d]
            BY <1>c, <4>1, <5>1 DEF Joined
          <6>2. Len(ctcq[d][i].msgs) \in {1, 2} /\ ctcq[d][i].msgs \in Seq(AcMessage)
            BY <6>1, QueueTypes DEF EntryShapes, EntryShape
          <6>3. Append(ctcq[d][i].msgs, h)[1] = ctcq[d][i].msgs[1]
            BY <6>2
          <6> QED
            BY <1>a, <3>3, <6>1, <6>3
        <5>2. CASE i # Len(ctcq[d])
          <6>1. i \in DOMAIN ctcq[d] /\ ctcq'[d][i] = ctcq[d][i]
            <7>1. i \in 1 .. Len(ctcq[d]) - 1 /\ Len(ctcq[d]) \in Nat
              BY <1>c, <1>e, <3>3, <4>1, <5>2 DEF Joined
            <7> QED
              BY <1>c, <7>1, <4>1 DEF Joined
          <6> QED
            BY <1>a, <3>3, <6>1
        <5> QED
          BY <5>1, <5>2
      <4>2. CASE Entered(d, h)
        <5>1. CASE i = Len(ctcq[d]) + 1
          BY <3>1, <4>2, <5>1 DEF Entered
        <5>2. CASE i # Len(ctcq[d]) + 1
          <6>1. i \in DOMAIN ctcq[d] /\ ctcq'[d][i] = ctcq[d][i]
            <7>1. i \in 1 .. Len(ctcq[d]) /\ Len(ctcq[d]) \in Nat
              BY <1>c, <1>e, <3>3, <4>2, <5>2 DEF Entered
            <7> QED
              BY <1>c, <7>1, <4>2 DEF Entered
          <6> QED
            BY <1>a, <3>3, <6>1
        <5> QED
          BY <5>1, <5>2
      <4> QED
        BY <3>2, <4>1, <4>2
    <3>4. ASSUME NEW e \in CORE, e # d
          PROVE  Obeying(e)'
      BY <1>a, <3>2, <3>4 DEF Others
    <3> QED
      BY <3>3, <3>4
  <2> QED
    BY <1>5, <1>a, <1>b, <2>1, <2>2, <2>3, <2>4
<1>6. ASSUME NEW d \in CORE, Others(d), UNCHANGED <<reqq, ac>>,
             \A i \in DOMAIN ctcq'[d] : ctcq'[d][i].cmplt = 0 =>
               \E j \in DOMAIN ctcq[d] : /\ ctcq[d][j].cmplt = 0
                                         /\ ctcq'[d][i].msgs = ctcq[d][j].msgs
      PROVE  OpsGone(c)'
  <2>1. ASSUME NEW e \in CORE
        PROVE  Obeying(e)'
    BY <1>6, <1>a DEF Others
  <2>2. Asked' /\ \A e \in CORE : OnAc(e)'
    BY <1>6, <1>a DEF IsCtc
  <2> QED
    BY <1>b, <2>1, <2>2
<1>7. ASSUME NEW d \in CORE, NEW i \in DOMAIN ctcq[d], NEW k, Counted(d, i, k), k # 0
      PROVE  \A j \in DOMAIN ctcq'[d] : ctcq'[d][j].cmplt = 0 =>
               \E n \in DOMAIN ctcq[d] : /\ ctcq[d][n].cmplt = 0
                                         /\ ctcq'[d][j].msgs = ctcq[d][n].msgs
  BY <1>7, <1>c, <1>e DEF Counted
<1>8. ASSUME NEW d \in CORE, NEW i \in DOMAIN ctcq[d], Carried(d, i)
      PROVE  OpsGone(c)'
  <2>1. Others(d) /\ Counted(d, i, Len(ctcq[d][i].msgs)) /\ UNCHANGED <<reqq, ac>>
    BY <1>8, CarriedMeans DEF Carried
  <2>2. Len(ctcq[d][i].msgs) # 0
    <3>1. EntryShape(ctcq[d][i])
      BY DEF EntryShapes
    <3> QED
      BY <3>1 DEF EntryShape
  <2> QED
    BY <1>6, <1>7, <2>1, <2>2
<1>9. ASSUME NEW d \in CORE, AnswersCtc(d)
      PROVE  OpsGone(c)'
  <2>1. Others(d) /\ (Counted(d, 1, 1) \/ Left(d)) /\ UNCHANGED <<reqq, ac>>
    BY <1>9, AnswersMeans DEF AnswersCtc
  <2>2. CASE Counted(d, 1, 1)
    <3>1. 1 \in DOMAIN ctcq[d]
      BY <1>c, <2>2 DEF Counted
    <3> QED
      BY <1>6, <1>7, <2>1, <2>2, <3>1
  <2>3. CASE Left(d)
    <3>1. ASSUME NEW i \in DOMAIN ctcq'[d]
          PROVE  i + 1 \in DOMAIN ctcq[d] /\ ctcq'[d][i] = ctcq[d][i + 1]
      <4>1. i \in 1 .. Len(ctcq[d]) - 1 /\ Len(ctcq[d]) \in Nat
        BY <1>c, <1>e, <2>3, <3>1 DEF Left
      <4>2. i + 1 \in 1 .. Len(ctcq[d])
        BY <4>1
      <4>3. ctcq'[d][i] = ctcq[d][i + 1]
        BY <2>3, <4>1 DEF Left
      <4> QED
        BY <1>c, <4>2, <4>3
    <3> QED
      BY <1>6, <2>1, <3>1
  <2> QED
    BY <2>1, <2>2, <2>3
<1>10. ASSUME NEW d \in CORE,
              \/ \E m \in Message : ArGrows(d, m)
              \/ ArShrinks(d) \/ \E i \in DOMAIN ctcq[d] : Started(d, i)
              \/ AnswersSnoop(d)
       PROVE  UNCHANGED <<reqq, ac, ctcq>>
  BY <1>10, Zenon DEF ArGrows, ArShrinks, Started, AnswersSnoop
<1>11. ASSUME UNCHANGED pipe
       PROVE  UNCHANGED <<reqq, ac, ctcq>>
  BY <1>11 DEF pipe
<1> QED
  BY <1>1, <1>2, <1>3, <1>4, <1>5, <1>8, <1>9, <1>10, <1>11 DEF PipeStep

\* All operations of a core are carried out once the CTCQ has answered its barrier.
OpsAre == \A c \in CORE : Done(c, "ctcq") => OpsGone(c)
LEMMA OpsDoneStep ==
  ASSUME Types, Halves, Places, ArGone, PipeInv, AnswerInv, SyncAnswered, OpsAre,
         PipeStep, [Next]_vars
  PROVE  OpsAre'
<1>1. ASSUME NEW c \in CORE, Done(c, "ctcq")
      PROVE  OpsGone(c)'
  <2>1. NoneOnAr(c) /\ OpsGone(c)
    BY <1>1, NothingOnAr DEF NoneOnAr, TARGET, OpsAre
  <2> QED
    BY <2>1, OpsGoneStep
<1>2. ASSUME NEW c \in CORE, Reached(c, "ctcq")
      PROVE  OpsGone(c)'
  <2>1. CtcCmplt
    BY <1>2 DEF Reached
  <2>2. NoneOnAr(c) /\ AllAnswered
    BY <1>2, <2>1, ReachedWhere, NothingOnAr DEF NoneOnAr, TARGET, SyncAnswered, CtcCmplt
  <2> QED
    BY <2>2, AnsweredGone, OpsGoneStep
<1>3. ASSUME NEW c \in CORE, Done(c, "ctcq")'
      PROVE  OpsGone(c)'
  <2>1. Done(c, "ctcq") \/ Reached(c, "ctcq")
    BY <1>3, DoneFrom DEF TARGET
  <2> QED
    BY <1>1, <1>2, <2>1
<1> QED
  BY <1>3 DEF OpsAre

-----------------------------------------------------------------------------
(***************************************************************************)
(* The stores a barrier waits for.                                         *)
(***************************************************************************)
\* How the entries of the snoop buffer change: a request goes on, comes, or goes.
SabCame(e, r) ==
  /\ sab[e].k = "free" /\ sab' = [sab EXCEPT ![e] = r]
  /\ \/ r.k = "fetch" \/ (r.k = "st" /\ r.mid \in CORE /\ ws[r.mid] = "st")
     \/ (r.k = "bar" /\ r.older = BarDepd)
SabMoves ==
  \/ SameRequests
  \/ \E e \in ENTRY, r \in EntryType : SabCame(e, r)
  \/ \E e \in ENTRY : LeaveShape(e)

LEMMA NextSabMoves ==
  ASSUME Types, [Next]_vars
  PROVE  SabMoves
<1>a. BarrierTypes
  BY DEF Types
<1>1. ASSUME UNCHANGED sab
      PROVE  SameRequests
  BY <1>1, <1>a DEF SameRequests, BarrierTypes
<1>2. ASSUME NEW c \in CORE, SabFetch(c)
      PROVE  SabMoves
  <2>1. PICK e \in ENTRY, r \in EntryType :
          sab[e] = Free /\ r.k = "fetch" /\ sab' = [sab EXCEPT ![e] = r]
    BY <1>a, <1>2, EnterType, EntriesAre DEF SabFetch
  <2> QED
    BY <2>1, FreeType DEF SabMoves, SabCame
<1>3. ASSUME NEW c \in CORE, SabStore(c)
      PROVE  SabMoves
  <2>1. PICK e \in ENTRY, r \in EntryType :
          sab[e] = Free /\ r.k = "st" /\ r.mid = c /\ sab' = [sab EXCEPT ![e] = r]
    BY <1>a, <1>3, EnterType, EntriesAre DEF SabStore
  <2>2. ws[c] = "st"
    BY <1>3 DEF SabStore
  <2> QED
    BY <2>1, <2>2, FreeType DEF SabMoves, SabCame
<1>4. ASSUME SabBar
      PROVE  SabMoves
  <2>1. PICK c : c = Head(kid["snb"])
    OBVIOUS
  <2> DEFINE r == [k |-> "bar", mid |-> c, send |-> {}, wait |-> {}, older |-> BarDepd]
  <2>2. kid["snb"] # <<>> /\ Create(WENTRY, r)
    BY <1>4, <2>1 DEF SabBar
  <2>3. kid["snb"] \in Seq(CORE)
    BY <1>a DEF BarrierTypes, TARGET
  <2>4. c \in CORE
    BY <2>1, <2>2, <2>3
  <2>5. r \in EntryType /\ r.k = "bar" /\ r.older = BarDepd
    BY <2>4 DEF EntryType, BarDepd
  <2>6. PICK e \in ENTRY : sab[e] = Free /\ sab' = [sab EXCEPT ![e] = r]
    BY <2>2, EntriesAre DEF Create
  <2> HIDE DEF r
  <2> QED
    BY <2>5, <2>6, FreeType DEF SabMoves, SabCame
<1>5. ASSUME NEW e \in ENTRY, SabStoreDone(e) \/ SabFetchDone(e) \/ SabBarDone(e)
      PROVE  SabMoves
  <2>1. Leave(e)
    BY <1>5 DEF SabStoreDone, SabFetchDone, SabBarDone
  <2> QED
    BY <1>a, <2>1, LeaveType DEF SabMoves
<1>6. ASSUME NEW c \in CORE, CrSnoop(c) \/ \E e \in ENTRY : AcSnoop(c, e)
      PROVE  SabMoves
  BY <1>a, <1>6, SnoopType DEF SabMoves
<1>7. CASE SabStep
  BY <1>2, <1>3, <1>4, <1>5, <1>6, <1>7 DEF SabStep
<1>8. CASE Ask
  BY <1>1, <1>8 DEF Ask, SendCtc, Fetch, ChangeFlow, Store, NcWrite, FenceAw, SabMoves
<1>9. CASE BarrierStep
  BY <1>1, <1>9 DEF BarrierStep, FenceAr, ArBar, AwBar, BmbGrant, BarDone, BarResp, SabMoves
<1>10. CASE CtcStep
  BY <1>1, <1>10 DEF CtcStep, SendSecond, CtcCreate, AcCtc, CtcBar, CtcEmpty, CtcCmplt, SabMoves
<1>11. CASE NcStep
  BY <1>1, <1>11 DEF NcStep, NcqCreate, NcqBarDone, MemDone, NcqBar, EbiuTake, SabMoves
<1>12. CASE ObeyStep
  BY <1>1, <1>12, ObeyIsAside DEF Aside, SabMoves
<1>13. CASE UNCHANGED vars
  BY <1>1, <1>13 DEF vars, SabMoves
<1> QED
  BY <1>7, <1>8, <1>9, <1>10, <1>11, <1>12, <1>13, NextSteps

\* A core whose barrier is on its way has nothing else on AW.
LEMMA AwMoves ==
  ASSUME [Next]_vars
  PROVE  \/ UNCHANGED <<fence, ws, wns>>
         \/ \E c \in CORE : \/ Store(c) \/ \E k \in {"wo", "so"} : NcWrite(c, k)
                            \/ FenceAw(c) \/ FenceAr(c) \/ AwBar(c) \/ BarResp(c)
                            \/ SabStore(c) \/ NcqCreate(c)
<1>1. CASE Ask
  BY <1>1 DEF Ask, SendCtc, Fetch, ChangeFlow, prog, aw
<1>2. CASE BarrierStep
  BY <1>2 DEF BarrierStep, ArBar, BmbGrant, BarDone, prog, aw
<1>3. CASE CtcStep
  BY <1>3 DEF CtcStep, SendSecond, CtcCreate, AcCtc, CtcBar, CtcEmpty, CtcCmplt, prog, aw
<1>4. CASE SabStep
  BY <1>4 DEF SabStep, SabFetch, AcSnoop, CrSnoop, SabBar, SabStoreDone, SabFetchDone,
              SabBarDone, prog, aw
<1>5. CASE NcStep
  BY <1>5 DEF NcStep, NcqBarDone, MemDone, NcqBar, EbiuTake, prog, aw
<1>6. CASE ObeyStep
  BY <1>6 DEF ObeyStep, AcTakeCtc, AcTakeSnoop, Launch, CtcInv, InvDone, CrCtc, prog, aw
<1>7. CASE UNCHANGED vars
  BY <1>7 DEF vars, prog, aw
<1> QED
  BY <1>1, <1>2, <1>3, <1>4, <1>5, <1>6, <1>7, NextSteps

LEMMA AwFirstStep ==
  ASSUME Types, NcTypes, AwFirst, [Next]_vars
  PROVE  AwFirst'
<1>a. /\ fence \in [CORE -> {"none", "aw", "ar"}] /\ ws \in [CORE -> {NONE, "st", "bar"}]
      /\ wns \in [CORE -> {NONE, "wo", "so"}]
      /\ NONE # "st" /\ NONE # "bar"
  BY BroadcastAssumption DEF Types, ProgramTypes, NcTypes
<1>1. CASE UNCHANGED <<fence, ws, wns>>
  BY <1>1 DEF AwFirst
<1>2. ASSUME NEW c \in CORE, Store(c) \/ \E k \in {"wo", "so"} : NcWrite(c, k)
      PROVE  AwFirst'
  <2>1. /\ fence[c] = "none" /\ fence' = fence
        /\ \A d \in CORE \ {c} : ws'[d] = ws[d] /\ wns'[d] = wns[d]
    BY <1>2, <1>a DEF Store, NcWrite
  <2> QED
    BY <2>1 DEF AwFirst
<1>3. ASSUME NEW c \in CORE, FenceAw(c)
      PROVE  AwFirst'
  <2>1. /\ ws'[c] = "bar" /\ wns' = wns
        /\ \A d \in CORE \ {c} : ws'[d] = ws[d] /\ fence'[d] = fence[d]
    BY <1>3, <1>a DEF FenceAw
  <2> QED
    BY <2>1 DEF AwFirst
<1>4. ASSUME NEW c \in CORE, FenceAr(c) \/ BarResp(c)
      PROVE  AwFirst'
  <2>1. /\ UNCHANGED <<ws, wns>> /\ (fence'[c] = "none" \/ fence[c] # "none")
        /\ \A d \in CORE \ {c} : fence'[d] = fence[d]
    BY <1>4, <1>a DEF FenceAr, BarResp, aw
  <2> QED
    BY <2>1 DEF AwFirst
<1>5. ASSUME NEW c \in CORE, AwBar(c)
      PROVE  AwFirst'
  <2>1. /\ UNCHANGED <<fence, wns>> /\ wns[c] = NONE /\ ws'[c] = NONE
        /\ \A d \in CORE \ {c} : ws'[d] = ws[d]
    BY <1>5, <1>a DEF AwBar, prog
  <2> QED
    BY <1>a, <2>1 DEF AwFirst
<1>6. ASSUME NEW c \in CORE, SabStore(c)
      PROVE  AwFirst'
  <2>1. /\ UNCHANGED <<fence, wns>> /\ wns[c] = NONE /\ ws'[c] = NONE
        /\ \A d \in CORE \ {c} : ws'[d] = ws[d]
    BY <1>6, <1>a DEF SabStore, prog
  <2> QED
    BY <1>a, <2>1 DEF AwFirst
<1>7. ASSUME NEW c \in CORE, NcqCreate(c)
      PROVE  AwFirst'
  <2>1. /\ UNCHANGED <<fence, ws>> /\ wns'[c] = NONE
        /\ \A d \in CORE \ {c} : wns'[d] = wns[d]
    BY <1>7, <1>a DEF NcqCreate, prog
  <2> QED
    BY <2>1 DEF AwFirst
<1> QED
  BY <1>1, <1>2, <1>3, <1>4, <1>5, <1>6, <1>7, AwMoves

\* The stores of a core whose barrier is in the snoop buffer are what it waits for.
LEMMA StoreFirstStep ==
  ASSUME Types, Halves, Places, AwFirst, StoreFirst, [Next]_vars
  PROVE  StoreFirst'
<1>a. sab \in [ENTRY -> EntryType]
  BY DEF Types, BarrierTypes
<1>b. ASSUME NEW c \in CORE, ws[c] = "st"
      PROVE  \A t \in TARGET : ~At(c, t) /\ ~Done(c, t)
  BY <1>b, AtWhere DEF AwFirst
<1>1. ASSUME NEW e \in ENTRY, NEW f \in ENTRY,
             sab'[e].k = "bar", sab'[f].k = "st", sab'[f].mid = sab'[e].mid
      PROVE  f \in sab'[e].older
  <2>1. CASE SameRequests
    BY <1>1, <2>1 DEF SameRequests, StoreFirst
  <2>2. ASSUME NEW g \in ENTRY, NEW r \in EntryType, SabCame(g, r)
        PROVE  f \in sab'[e].older
    <3>1. sab'[g] = r /\ \A h \in ENTRY \ {g} : sab'[h] = sab[h]
      BY <1>a, <2>2 DEF SabCame
    <3>2. CASE e = g
      <4>1. f # g /\ sab[f].k = "st" /\ sab'[e].older = BarDepd
        BY <1>1, <2>2, <3>1, <3>2 DEF SabCame
      <4> QED
        BY <4>1 DEF BarDepd
    <3>3. CASE e # g /\ f = g
      <4>1. r.k = "st" /\ r.mid \in CORE /\ ws[r.mid] = "st" /\ sab[e].k = "bar" /\ sab[e].mid = r.mid
        BY <1>1, <2>2, <3>1, <3>3 DEF SabCame
      <4>2. At(r.mid, "snb")
        BY <4>1 DEF At
      <4> QED
        BY <1>b, <4>1, <4>2 DEF TARGET
    <3>4. CASE e # g /\ f # g
      BY <1>1, <3>1, <3>4 DEF StoreFirst
    <3> QED
      BY <3>2, <3>3, <3>4
  <2>3. ASSUME NEW g \in ENTRY, LeaveShape(g)
        PROVE  f \in sab'[e].older
    <3>1. e # g /\ f # g
      BY <1>1, <2>3 DEF LeaveShape
    <3>2. f \in sab[e].older /\ sab'[e].older = sab[e].older \ {g}
      BY <1>1, <2>3, <3>1 DEF LeaveShape, StoreFirst
    <3> QED
      BY <3>1, <3>2
  <2> QED
    BY <2>1, <2>2, <2>3, NextSabMoves DEF SabMoves
<1>2. ASSUME NEW c \in CORE, Done(c, "snb")', NEW f \in ENTRY, sab'[f].k = "st", sab'[f].mid = c
      PROVE  FALSE
  <2>1. Done(c, "snb") \/ Reached(c, "snb")
    BY <1>2, DoneFrom DEF TARGET
  <2>2. At(c, "snb") \/ Done(c, "snb")
    BY <2>1, ReachedWhere DEF TARGET
  <2>3. sab[f].k = "st" /\ sab[f].mid = c
    <3>1. CASE SameRequests
      BY <1>2, <3>1 DEF SameRequests
    <3>2. ASSUME NEW g \in ENTRY, NEW r \in EntryType, SabCame(g, r)
          PROVE  sab[f].k = "st" /\ sab[f].mid = c
      <4>1. sab'[g] = r /\ \A h \in ENTRY \ {g} : sab'[h] = sab[h]
        BY <1>a, <3>2 DEF SabCame
      <4>2. f # g
        <5>1. ASSUME f = g
              PROVE  FALSE
          <6>1. ws[c] = "st"
            BY <1>2, <3>2, <4>1, <5>1 DEF SabCame
          <6> QED
            BY <1>b, <2>2, <6>1 DEF TARGET
        <5> QED
          BY <5>1
      <4> QED
        BY <1>2, <4>1, <4>2
    <3>3. ASSUME NEW g \in ENTRY, LeaveShape(g)
          PROVE  sab[f].k = "st" /\ sab[f].mid = c
      BY <1>2, <3>3 DEF LeaveShape
    <3> QED
      BY <3>1, <3>2, <3>3, NextSabMoves DEF SabMoves
  <2>4. CASE Done(c, "snb")
    BY <2>3, <2>4 DEF StoreFirst
  <2>5. CASE Reached(c, "snb")
    <3>1. PICK e \in ENTRY : SabBarDone(e) /\ sab[e].mid = c
      BY <2>5 DEF Reached
    <3>2. sab[e].k = "bar" /\ sab[e].older = {}
      BY <3>1 DEF SabBarDone
    <3> QED
      BY <2>3, <3>1, <3>2 DEF StoreFirst
  <2> QED
    BY <2>1, <2>4, <2>5
<1> QED
  BY <1>1, <1>2 DEF StoreFirst

-----------------------------------------------------------------------------
(***************************************************************************)
(* The non-cacheable writes a barrier waits for.                           *)
(***************************************************************************)
\* The strongly ordered writes of all cores, as writes come and go.
LEMMA OutIs ==
  ASSUME NcTypes
  PROVE  /\ \A p : p \in SoOut <=> \E c \in CORE : \E i \in 1 .. Len(ebiu[c]) :
                                     p = <<c, i>> /\ ebiu[c][i] = "so"
         /\ \A c \in CORE : ebiu[c] \in Seq({"wo", "so"}) /\ Len(ebiu[c]) \in Nat
         /\ ebiu \in [CORE -> Seq({"wo", "so"})]
BY DEF NcTypes, SoOut

LEMMA OutAfter ==
  ASSUME NcTypes'
  PROVE  \A p : p \in SoOut' <=> \E c \in CORE : \E i \in 1 .. Len(ebiu'[c]) :
                                   p = <<c, i>> /\ ebiu'[c][i] = "so"
BY DEF NcTypes, SoOut

LEMMA OutGrows ==
  ASSUME NcTypes, NcTypes', IsFiniteSet(SoOut), NEW c \in CORE, NEW k \in {"wo", "so"},
         ebiu' = [ebiu EXCEPT ![c] = Append(@, k)]
  PROVE  /\ IsFiniteSet(SoOut')
         /\ Cardinality(SoOut') = Cardinality(SoOut) + IF k = "so" THEN 1 ELSE 0
<1> DEFINE n == Len(ebiu[c])
           q == <<c, n + 1>>
<1>1. /\ ebiu[c] \in Seq({"wo", "so"}) /\ n \in Nat /\ ebiu'[c] = Append(ebiu[c], k)
      /\ \A d \in CORE \ {c} : ebiu'[d] = ebiu[d]
  BY OutIs
<1>2. /\ Len(ebiu'[c]) = n + 1 /\ ebiu'[c][n + 1] = k
      /\ \A i \in 1 .. n : ebiu'[c][i] = ebiu[c][i]
  BY <1>1
<1>3. q \notin SoOut
  BY <1>1, OutIs
<1>4. ASSUME NEW p
      PROVE  p \in SoOut' <=> p \in SoOut \/ (k = "so" /\ p = q)
  <2>1. ASSUME p \in SoOut'
        PROVE  p \in SoOut \/ (k = "so" /\ p = q)
    <3>0. PICK d \in CORE : \E i \in 1 .. Len(ebiu'[d]) : p = <<d, i>> /\ ebiu'[d][i] = "so"
      BY <2>1, OutAfter
    <3>1. PICK i \in 1 .. Len(ebiu'[d]) : p = <<d, i>> /\ ebiu'[d][i] = "so"
      BY <3>0
    <3>2. CASE d = c /\ i = n + 1
      BY <1>2, <3>1, <3>2
    <3>3. CASE ~(d = c /\ i = n + 1)
      <4>1. i \in 1 .. Len(ebiu[d]) /\ ebiu[d][i] = "so"
        BY <1>1, <1>2, <3>1, <3>3
      <4> QED
        BY <3>1, <4>1, OutIs
    <3> QED
      BY <3>2, <3>3
  <2>2. ASSUME p \in SoOut
        PROVE  p \in SoOut'
    <3>0. PICK d \in CORE : \E i \in 1 .. Len(ebiu[d]) : p = <<d, i>> /\ ebiu[d][i] = "so"
      BY <2>2, OutIs
    <3>1. PICK i \in 1 .. Len(ebiu[d]) : p = <<d, i>> /\ ebiu[d][i] = "so"
      BY <3>0
    <3>2. i \in 1 .. Len(ebiu'[d]) /\ ebiu'[d][i] = "so"
      BY <1>1, <1>2, <3>1
    <3> QED
      BY <3>1, <3>2, OutAfter
  <2>3. ASSUME k = "so", p = q
        PROVE  p \in SoOut'
    <3>1. n + 1 \in 1 .. Len(ebiu'[c]) /\ ebiu'[c][n + 1] = "so"
      BY <1>1, <1>2, <2>3
    <3> QED
      BY <2>3, <3>1, OutAfter
  <2> QED
    BY <2>1, <2>2, <2>3
<1> HIDE DEF q
<1>5. CASE k = "so"
  <2>1. SoOut' = SoOut \cup {q}
    BY <1>4, <1>5
  <2> QED
    BY <1>3, <1>5, <2>1, FS_AddElement
<1>6. CASE k = "wo"
  <2>1. SoOut' = SoOut
    BY <1>4, <1>6
  <2> QED
    BY <1>6, <2>1, FS_CardinalityType
<1> QED
  BY <1>5, <1>6

LEMMA OutShrinks ==
  ASSUME NcTypes, NcTypes', IsFiniteSet(SoOut), NEW c \in CORE, ebiu[c] # <<>>,
         ebiu' = [ebiu EXCEPT ![c] = Tail(@)]
  PROVE  /\ IsFiniteSet(SoOut')
         /\ Cardinality(SoOut') = Cardinality(SoOut) - IF Head(ebiu[c]) = "so" THEN 1 ELSE 0
<1> DEFINE n == Len(ebiu[c])
           q == <<c, 1>>
           Was(p) == IF p[1] = c THEN <<c, p[2] + 1>> ELSE p
           T == SoOut \ {q}
<1>1. /\ ebiu[c] \in Seq({"wo", "so"}) /\ n \in Nat /\ ebiu'[c] = Tail(ebiu[c])
      /\ \A d \in CORE \ {c} : ebiu'[d] = ebiu[d]
  BY OutIs
<1>2. /\ n > 0 /\ Len(ebiu'[c]) = n - 1 /\ Head(ebiu[c]) = ebiu[c][1]
      /\ \A i \in 1 .. n - 1 : ebiu'[c][i] = ebiu[c][i + 1]
  <2>1. \A s \in Seq({"wo", "so"}) : s # <<>> =>
          /\ Len(s) > 0 /\ Len(Tail(s)) = Len(s) - 1 /\ Head(s) = s[1]
          /\ \A i \in 1 .. Len(s) - 1 : Tail(s)[i] = s[i + 1]
    OBVIOUS
  <2> QED
    BY <1>1, <2>1
<1>3. q \in SoOut <=> Head(ebiu[c]) = "so"
  <2>1. 1 \in 1 .. n
    BY <1>1, <1>2
  <2>2. ebiu[c][1] = "so" => q \in SoOut
    BY <2>1, OutIs
  <2>3. q \in SoOut => ebiu[c][1] = "so"
    BY OutIs
  <2> QED
    BY <1>2, <2>2, <2>3
<1>4. ASSUME NEW p \in SoOut'
      PROVE  Was(p) \in T
  <2>0. PICK d \in CORE : \E i \in 1 .. Len(ebiu'[d]) : p = <<d, i>> /\ ebiu'[d][i] = "so"
    BY <1>4, OutAfter
  <2>1. PICK i \in 1 .. Len(ebiu'[d]) : p = <<d, i>> /\ ebiu'[d][i] = "so"
    BY <2>0
  <2>2. CASE d = c
    <3>1. i + 1 \in 1 .. n /\ ebiu[c][i + 1] = "so" /\ i + 1 # 1
      BY <1>1, <1>2, <2>1, <2>2
    <3>2. Was(p) = <<c, i + 1>>
      BY <2>1, <2>2
    <3> QED
      BY <3>1, <3>2, OutIs
  <2>3. CASE d # c
    <3>1. i \in 1 .. Len(ebiu[d]) /\ ebiu[d][i] = "so"
      BY <1>1, <2>1, <2>3
    <3>2. Was(p) = <<d, i>>
      BY <2>1, <2>3
    <3> QED
      BY <2>3, <3>1, <3>2, OutIs
  <2> QED
    BY <2>2, <2>3
<1>5. ASSUME NEW r \in T
      PROVE  \E p \in SoOut' : Was(p) = r
  <2>0. PICK d \in CORE : \E i \in 1 .. Len(ebiu[d]) : r = <<d, i>> /\ ebiu[d][i] = "so"
    BY <1>5, OutIs
  <2>1. PICK i \in 1 .. Len(ebiu[d]) : r = <<d, i>> /\ ebiu[d][i] = "so"
    BY <2>0
  <2>2. CASE d = c
    <3>1. i # 1
      BY <1>5, <2>1, <2>2
    <3>2. i - 1 \in 1 .. n - 1 /\ i \in Nat /\ (i - 1) + 1 = i
      BY <1>1, <2>1, <2>2, <3>1
    <3>3. i - 1 \in 1 .. Len(ebiu'[c]) /\ ebiu'[c][i - 1] = "so"
      BY <1>2, <2>1, <2>2, <3>2
    <3>4. <<c, i - 1>> \in SoOut'
      BY <3>3, OutAfter
    <3>5. Was(<<c, i - 1>>) = r
      BY <2>1, <2>2, <3>2
    <3> QED
      BY <3>4, <3>5
  <2>3. CASE d # c
    <3>1. i \in 1 .. Len(ebiu'[d]) /\ ebiu'[d][i] = "so"
      BY <1>1, <2>1, <2>3
    <3>2. r \in SoOut' /\ Was(r) = r
      BY <2>1, <2>3, <3>1, OutAfter
    <3> QED
      BY <3>2
  <2> QED
    BY <2>2, <2>3
<1>6. ASSUME NEW p \in SoOut', NEW r \in SoOut', Was(p) = Was(r)
      PROVE  p = r
  <2>0. PICK d \in CORE : \E i \in 1 .. Len(ebiu'[d]) : p = <<d, i>>
    BY <1>6, OutAfter
  <2>1. PICK i \in 1 .. Len(ebiu'[d]) : p = <<d, i>>
    BY <2>0
  <2>0b. PICK e \in CORE : \E j \in 1 .. Len(ebiu'[e]) : r = <<e, j>>
    BY <1>6, OutAfter
  <2>2. PICK j \in 1 .. Len(ebiu'[e]) : r = <<e, j>>
    BY <2>0b
  <2>3. i \in Int /\ j \in Int
    OBVIOUS
  <2> QED
    BY <1>6, <2>1, <2>2, <2>3
<1>7. PICK f : f = [p \in SoOut' |-> Was(p)]
  OBVIOUS
<1>8. IsFiniteSet(T) /\ Cardinality(T) = IF q \in SoOut THEN Cardinality(SoOut) - 1 ELSE Cardinality(SoOut)
  BY FS_RemoveElement
<1> HIDE DEF Was, T, q
<1>9. f \in Injection(SoOut', T) /\ f \in Surjection(SoOut', T)
  <2>1. f \in [SoOut' -> T]
    BY <1>4, <1>7
  <2>2. \A p, r \in SoOut' : f[p] = f[r] => p = r
    BY <1>6, <1>7
  <2>3. \A r \in T : \E p \in SoOut' : f[p] = r
    BY <1>5, <1>7
  <2> QED
    BY <2>1, <2>2, <2>3 DEF Injection, Surjection, IsInjective
<1>10. IsFiniteSet(SoOut') /\ Cardinality(SoOut') = Cardinality(T)
  BY <1>8, <1>9, FS_Injection
<1>11. Cardinality(SoOut) \in Nat
  BY FS_CardinalityType
<1> QED
  BY <1>3, <1>8, <1>10, <1>11

-----------------------------------------------------------------------------
\* What changes the writes of non-cacheable memory and the count of answers.
LEMMA NcMoves ==
  ASSUME [Next]_vars
  PROVE  \/ UNCHANGED <<wns, waq, ncq_bar, ebiu>>
         \/ \E c \in CORE : \/ \E k \in {"wo", "so"} : NcWrite(c, k)
                            \/ NcqCreate(c) \/ NcqBarDone(c) \/ MemDone(c)
         \/ NcqBar \/ EbiuTake
<1>1. CASE Ask
  BY <1>1 DEF Ask, SendCtc, Fetch, ChangeFlow, Store, FenceAw, aw, nc
<1>2. CASE BarrierStep
  BY <1>2 DEF BarrierStep, FenceAr, ArBar, AwBar, BmbGrant, BarDone, BarResp, aw, nc
<1>3. CASE CtcStep
  BY <1>3 DEF CtcStep, SendSecond, CtcCreate, AcCtc, CtcBar, CtcEmpty, CtcCmplt, aw, nc
<1>4. CASE SabStep
  BY <1>4 DEF SabStep, SabFetch, SabStore, AcSnoop, CrSnoop, SabBar, SabStoreDone,
              SabFetchDone, SabBarDone, aw, nc
<1>5. CASE NcStep
  BY <1>5 DEF NcStep
<1>6. CASE ObeyStep
  BY <1>6 DEF ObeyStep, AcTakeCtc, AcTakeSnoop, Launch, CtcInv, InvDone, CrCtc, aw, nc
<1>7. CASE UNCHANGED vars
  BY <1>7 DEF vars, aw, nc
<1> QED
  BY <1>1, <1>2, <1>3, <1>4, <1>5, <1>6, <1>7, NextSteps

\* The counts of answers, when one is sent.
LEMMA AnsweredIs ==
  ASSUME NcTypes, Answered
  PROVE  /\ ncq_bar' \in [CORE -> Nat \cup {NONE}]
         /\ \A c \in CORE : /\ ncq_bar[c] = NONE => ncq_bar'[c] = NONE
                            /\ ncq_bar[c] # NONE /\ ncq_bar[c] > 0 => ncq_bar'[c] = ncq_bar[c] - 1
                            /\ ncq_bar'[c] # NONE => ncq_bar[c] # NONE
<1>1. NONE \notin Nat
  BY BroadcastAssumption
<1> QED
  BY <1>1 DEF NcTypes, Answered

\* Who a barrier at the NCQ is from, and what a write there is.
LEMMA NcHeads ==
  ASSUME Types, NcTypes
  PROVE  /\ kid["ncq"] # <<>> => Head(kid["ncq"]) \in CORE
         /\ waq # <<>> => /\ Head(waq) = waq[1] /\ Head(waq).mid \in CORE
                          /\ Head(waq).k \in {"wo", "so"}
                          /\ Tail(waq) \in Seq([mid : CORE, k : {"wo", "so"}])
<1>1. kid["ncq"] \in Seq(CORE)
  BY DEF Types, BarrierTypes, TARGET
<1>2. waq # <<>> => /\ Head(waq) \in [mid : CORE, k : {"wo", "so"}] /\ Head(waq) = waq[1]
                    /\ Tail(waq) \in Seq([mid : CORE, k : {"wo", "so"}])
  BY TailFacts DEF NcTypes
<1> QED
  BY <1>1, <1>2

LEMMA NcTypesStep ==
  ASSUME Types, NcTypes, IsFiniteSet(SoOut), [Next]_vars
  PROVE  NcTypes'
<1> USE DEF NcTypes
<1>1. CASE UNCHANGED <<wns, waq, ncq_bar, ebiu>>
  BY <1>1
<1>2. ASSUME NEW c \in CORE, NEW k \in {"wo", "so"}, NcWrite(c, k)
      PROVE  NcTypes'
  BY <1>2 DEF NcWrite, nc
<1>3. ASSUME NEW c \in CORE, NcqCreate(c)
      PROVE  NcTypes'
  <2> DEFINE w == [mid |-> c, k |-> wns[c]]
  <2>1. wns[c] \in {"wo", "so"}
    BY <1>3 DEF NcqCreate
  <2>2. w \in [mid : CORE, k : {"wo", "so"}]
    BY <2>1
  <2>3. waq' = Append(waq, w) /\ wns' = [wns EXCEPT ![c] = NONE] /\ UNCHANGED <<ncq_bar, ebiu>>
    BY <1>3 DEF NcqCreate
  <2> HIDE DEF w
  <2> QED
    BY <2>2, <2>3
<1>4. ASSUME NEW c \in CORE, NcqBarDone(c)
      PROVE  NcTypes'
  BY <1>4 DEF NcqBarDone, aw
<1>5. ASSUME NEW c \in CORE, MemDone(c)
      PROVE  NcTypes'
  <2>1. /\ ebiu[c] # <<>> /\ ebiu' = [ebiu EXCEPT ![c] = Tail(@)] /\ UNCHANGED <<wns, waq>>
        /\ Answered \/ UNCHANGED ncq_bar
    BY <1>5 DEF MemDone, aw
  <2>2. Tail(ebiu[c]) \in Seq({"wo", "so"})
    BY <2>1
  <2> QED
    BY <2>1, <2>2, AnsweredIs
<1>6. ASSUME NcqBar
      PROVE  NcTypes'
  <2>1. PICK n : n = total_aw_ostd_cnt
    OBVIOUS
  <2>2. n \in Nat
    <3>1. Cardinality(SoOut) \in Nat /\ Len(waq) \in Nat
      BY FS_CardinalityType
    <3> QED
      BY <2>1, <3>1 DEF total_aw_ostd_cnt
  <2>3. ncq_bar' = [ncq_bar EXCEPT ![Head(kid["ncq"])] = n] /\ UNCHANGED <<wns, waq, ebiu>>
    BY <1>6, <2>1 DEF NcqBar, aw
  <2> QED
    BY <2>2, <2>3
<1>7. ASSUME EbiuTake
      PROVE  NcTypes'
  <2>1. PICK c, k : c = Head(waq).mid /\ k = Head(waq).k
    OBVIOUS
  <2>2. /\ waq # <<>> /\ waq' = Tail(waq) /\ ebiu' = [ebiu EXCEPT ![c] = Append(@, k)]
        /\ UNCHANGED wns /\ (Answered \/ UNCHANGED ncq_bar)
    BY <1>7, <2>1 DEF EbiuTake, aw
  <2>3. c \in CORE /\ k \in {"wo", "so"} /\ waq' \in Seq([mid : CORE, k : {"wo", "so"}])
    BY <2>1, <2>2, NcHeads
  <2>4. Append(ebiu[c], k) \in Seq({"wo", "so"})
    BY <2>3
  <2>5. ncq_bar' \in [CORE -> Nat \cup {NONE}]
    BY <2>2, AnsweredIs
  <2>6. ebiu' \in [CORE -> Seq({"wo", "so"})]
    BY <2>2, <2>4
  <2> QED
    BY <2>2, <2>3, <2>5, <2>6
<1> QED
  BY <1>1, <1>2, <1>3, <1>4, <1>5, <1>6, <1>7, NcMoves

\* The answers a barrier waits for reach the last write of its core.
CountsOf(c) == ncq_bar[c] # NONE =>
  \A i \in DOMAIN waq : waq[i].mid = c => ncq_bar[c] >= i + Cardinality(SoOut)
NoneInWaq(c) == \A i \in DOMAIN waq : waq[i].mid # c

LEMMA CountsStep ==
  ASSUME Types, NcTypes, NcTypes', Halves, Places, AwFirst, NcFirst, [Next]_vars
  PROVE  IsFiniteSet(SoOut') /\ \A c \in CORE : CountsOf(c)'
<1>a. /\ waq \in Seq([mid : CORE, k : {"wo", "so"}]) /\ ncq_bar \in [CORE -> Nat \cup {NONE}]
      /\ NONE \notin Nat /\ wns \in [CORE -> {NONE, "wo", "so"}]
  BY BroadcastAssumption DEF NcTypes
<1>b. /\ IsFiniteSet(SoOut) /\ Cardinality(SoOut) \in Nat
      /\ \A c \in CORE : CountsOf(c)
  BY FS_CardinalityType DEF NcFirst, CountsOf
<1>c. DOMAIN waq = 1 .. Len(waq) /\ Len(waq) \in Nat
  BY <1>a
<1>1. ASSUME UNCHANGED <<waq, ebiu>>
      PROVE  /\ IsFiniteSet(SoOut')
             /\ \A c \in CORE : ncq_bar'[c] \in {ncq_bar[c], NONE} => CountsOf(c)'
  BY <1>1, <1>b DEF CountsOf, SoOut
<1>2. ASSUME NEW c \in CORE, NcqCreate(c)
      PROVE  IsFiniteSet(SoOut') /\ \A d \in CORE : CountsOf(d)'
  <2>1. PICK w : w = [mid |-> c, k |-> wns[c]]
    OBVIOUS
  <2>2. waq' = Append(waq, w) /\ UNCHANGED <<ncq_bar, ebiu>> /\ w.mid = c /\ wns[c] # NONE
    BY <1>2, <2>1 DEF NcqCreate
  <2>3. ncq_bar[c] = NONE
    <3>1. ASSUME ncq_bar[c] # NONE
          PROVE  FALSE
      <4>1. At(c, "ncq") /\ "ncq" \in TARGET
        BY <3>1 DEF At, TARGET
      <4> QED
        BY <2>2, <4>1, AtWhere DEF AwFirst
    <3> QED
      BY <3>1
  <2>4. SoOut' = SoOut
    BY <2>2 DEF SoOut
  <2>5. ASSUME NEW d \in CORE, d # c
        PROVE  CountsOf(d)'
    <3>1. ASSUME NEW i \in DOMAIN waq', waq'[i].mid = d
          PROVE  i \in DOMAIN waq /\ waq'[i] = waq[i]
      <4>1. w \in [mid : CORE, k : {"wo", "so"}]
        BY <1>a, <2>1, <2>2
      <4>2. /\ DOMAIN Append(waq, w) = 1 .. Len(waq) + 1 /\ Append(waq, w)[Len(waq) + 1] = w
            /\ \A j \in 1 .. Len(waq) : Append(waq, w)[j] = waq[j]
        BY <4>1, <1>a, AppendFacts
      <4>3. i # Len(waq) + 1
        BY <2>2, <2>5, <3>1, <4>2
      <4> QED
        BY <1>c, <2>2, <3>1, <4>2, <4>3
    <3> QED
      BY <1>b, <2>2, <2>4, <3>1 DEF CountsOf
  <2>6. CountsOf(c)'
    BY <2>2, <2>3 DEF CountsOf
  <2> QED
    BY <1>b, <2>4, <2>5, <2>6
<1>3. ASSUME NEW c \in CORE, MemDone(c)
      PROVE  IsFiniteSet(SoOut') /\ \A d \in CORE : CountsOf(d)'
  <2>1. /\ ebiu[c] # <<>> /\ ebiu' = [ebiu EXCEPT ![c] = Tail(@)] /\ UNCHANGED waq
        /\ IF Head(ebiu[c]) = "so" THEN Answered ELSE UNCHANGED ncq_bar
    BY <1>3 DEF MemDone
  <2>2. /\ IsFiniteSet(SoOut')
        /\ Cardinality(SoOut') = Cardinality(SoOut) - IF Head(ebiu[c]) = "so" THEN 1 ELSE 0
    BY <1>b, <2>1, OutShrinks
  <2>3. ASSUME NEW d \in CORE
        PROVE  CountsOf(d)'
    <3>1. CASE Head(ebiu[c]) = "so"
      <4>1. ASSUME NEW i \in DOMAIN waq, waq[i].mid = d, ncq_bar'[d] # NONE
            PROVE  ncq_bar'[d] >= i + Cardinality(SoOut')
        <5>1. ncq_bar[d] # NONE /\ ncq_bar[d] \in Nat /\ i \in Nat /\ i > 0
          BY <1>a, <1>c, <2>1, <3>1, <4>1, AnsweredIs
        <5>2. ncq_bar[d] >= i + Cardinality(SoOut)
          BY <1>b, <4>1, <5>1 DEF CountsOf
        <5>3. ncq_bar'[d] = ncq_bar[d] - 1
          BY <1>b, <2>1, <3>1, <5>1, <5>2, AnsweredIs
        <5> QED
          BY <1>b, <2>2, <3>1, <5>1, <5>2, <5>3
      <4> QED
        BY <2>1, <4>1 DEF CountsOf
    <3>2. CASE Head(ebiu[c]) # "so"
      <4>1. Cardinality(SoOut') = Cardinality(SoOut) /\ UNCHANGED ncq_bar
        BY <1>b, <2>1, <2>2, <3>2
      <4> QED
        BY <1>b, <2>1, <4>1 DEF CountsOf
    <3> QED
      BY <3>1, <3>2
  <2> QED
    BY <2>2, <2>3
<1>4. ASSUME EbiuTake
      PROVE  IsFiniteSet(SoOut') /\ \A d \in CORE : CountsOf(d)'
  <2>1. PICK c, k : c = Head(waq).mid /\ k = Head(waq).k
    OBVIOUS
  <2>2. /\ waq # <<>> /\ waq' = Tail(waq) /\ ebiu' = [ebiu EXCEPT ![c] = Append(@, k)]
        /\ IF k = "wo" THEN Answered ELSE UNCHANGED ncq_bar
    BY <1>4, <2>1 DEF EbiuTake
  <2>3. c \in CORE /\ k \in {"wo", "so"}
    BY <2>1, <2>2, NcHeads
  <2>4. /\ IsFiniteSet(SoOut')
        /\ Cardinality(SoOut') = Cardinality(SoOut) + IF k = "so" THEN 1 ELSE 0
    BY <1>b, <2>2, <2>3, OutGrows
  <2>5. ASSUME NEW d \in CORE, NEW i \in DOMAIN waq', waq'[i].mid = d, ncq_bar'[d] # NONE
        PROVE  ncq_bar'[d] >= i + Cardinality(SoOut')
    <3>1. i \in Nat /\ i > 0 /\ i + 1 \in DOMAIN waq /\ waq[i + 1].mid = d
      <4>1. /\ DOMAIN Tail(waq) = 1 .. Len(waq) - 1
            /\ \A j \in 1 .. Len(waq) - 1 : Tail(waq)[j] = waq[j + 1]
        BY <1>a, <2>2, TailFacts
      <4> QED
        BY <1>c, <2>2, <2>5, <4>1
    <3>2. ncq_bar[d] # NONE /\ ncq_bar[d] \in Nat
      BY <1>a, <2>2, <2>5, AnsweredIs
    <3>3. ncq_bar[d] >= (i + 1) + Cardinality(SoOut)
      BY <1>b, <3>1, <3>2 DEF CountsOf
    <3>4. CASE k = "wo"
      <4>1. ncq_bar[d] > 0
        BY <1>b, <3>1, <3>2, <3>3
      <4>2. ncq_bar'[d] = ncq_bar[d] - 1
        BY <2>2, <3>2, <3>4, <4>1, AnsweredIs
      <4> QED
        BY <1>b, <2>4, <3>1, <3>2, <3>3, <3>4, <4>2
    <3>5. CASE k = "so"
      <4>1. ncq_bar'[d] = ncq_bar[d]
        BY <2>2, <3>5
      <4> QED
        BY <1>b, <2>4, <3>1, <3>2, <3>3, <3>5, <4>1
    <3> QED
      BY <2>3, <3>4, <3>5
  <2> QED
    BY <2>4, <2>5 DEF CountsOf
<1>5. ASSUME NcqBar
      PROVE  IsFiniteSet(SoOut') /\ \A d \in CORE : CountsOf(d)'
  <2>1. PICK h : h = Head(kid["ncq"])
    OBVIOUS
  <2>2. PICK n : n = total_aw_ostd_cnt
    OBVIOUS
  <2>3. ncq_bar' = [ncq_bar EXCEPT ![h] = n] /\ UNCHANGED <<waq, ebiu>>
    BY <1>5, <2>1, <2>2 DEF NcqBar
  <2>4. CountsOf(h)'
    <3>1. Cardinality(SoOut') = Cardinality(SoOut)
      BY <2>3 DEF SoOut
    <3>2. ncq_bar'[h] = n /\ n = Len(waq) + Cardinality(SoOut)
      BY <1>5, <2>1, <2>2, <2>3, <1>a, NcHeads DEF NcqBar, total_aw_ostd_cnt
    <3>3. ASSUME NEW i \in DOMAIN waq
          PROVE  n >= i + Cardinality(SoOut)
      BY <1>b, <1>c, <3>2
    <3> QED
      BY <2>3, <3>1, <3>2, <3>3 DEF CountsOf
  <2>5. ASSUME NEW d \in CORE, d # h
        PROVE  ncq_bar'[d] = ncq_bar[d]
    BY <2>3, <2>5, <1>a
  <2> QED
    BY <1>1, <2>3, <2>4, <2>5
<1>6. ASSUME NEW c \in CORE, NcqBarDone(c)
      PROVE  IsFiniteSet(SoOut') /\ \A d \in CORE : CountsOf(d)'
  BY <1>1, <1>6, <1>a DEF NcqBarDone
<1>7. ASSUME NEW c \in CORE, NEW k \in {"wo", "so"}, NcWrite(c, k)
      PROVE  IsFiniteSet(SoOut') /\ \A d \in CORE : CountsOf(d)'
  BY <1>1, <1>7, <1>a DEF NcWrite, nc
<1>8. CASE UNCHANGED <<wns, waq, ncq_bar, ebiu>>
  BY <1>1, <1>8
<1> QED
  BY <1>2, <1>3, <1>4, <1>5, <1>6, <1>7, <1>8, NcMoves

LEMMA NcFirstStep ==
  ASSUME Types, NcTypes, NcTypes', Halves, Places, AwFirst, NcFirst, [Next]_vars
  PROVE  NcFirst'
<1>a. /\ waq \in Seq([mid : CORE, k : {"wo", "so"}]) /\ wns \in [CORE -> {NONE, "wo", "so"}]
  BY DEF NcTypes
<1>1. ASSUME NEW c \in CORE, Done(c, "ncq")'
      PROVE  NoneInWaq(c)'
  <2>1. Done(c, "ncq") \/ Reached(c, "ncq")
    BY <1>1, DoneFrom DEF TARGET
  <2>2. NoneInWaq(c)
    <3>1. CASE Done(c, "ncq")
      BY <3>1 DEF NcFirst, NoneInWaq
    <3>2. CASE Reached(c, "ncq")
      <4>1. ncq_bar[c] = 0 /\ 0 # NONE
        BY <3>2, NoneIsOther DEF Reached, NcqBarDone
      <4>2. ASSUME NEW i \in DOMAIN waq, waq[i].mid = c
            PROVE  FALSE
        <5>1. 0 >= i + Cardinality(SoOut)
          BY <4>1, <4>2 DEF NcFirst
        <5>2. i \in Nat /\ i > 0 /\ Cardinality(SoOut) \in Nat
          BY <1>a, FS_CardinalityType DEF NcFirst
        <5> QED
          BY <5>1, <5>2
      <4> QED
        BY <4>2 DEF NoneInWaq
    <3> QED
      BY <2>1, <3>1, <3>2
  <2>3. wns[c] = NONE
    <3>1. At(c, "ncq") \/ Done(c, "ncq")
      BY <2>1, ReachedWhere DEF TARGET
    <3>2. fence[c] = "ar" /\ ws[c] # "bar"
      BY <3>1, AtWhere DEF TARGET
    <3> QED
      BY <3>2 DEF AwFirst
  <2>4. ASSUME NEW d \in CORE, NcqCreate(d)
        PROVE  NoneInWaq(c)'
    <3>1. PICK w : w = [mid |-> d, k |-> wns[d]]
      OBVIOUS
    <3>2. waq' = Append(waq, w) /\ wns[d] # NONE
      BY <2>4, <3>1 DEF NcqCreate
    <3>3. d # c /\ w.mid = d /\ w \in [mid : CORE, k : {"wo", "so"}]
      BY <1>a, <2>3, <3>1, <3>2
    <3>4. \A i \in DOMAIN Append(waq, w) : Append(waq, w)[i] = w \/
                (i \in DOMAIN waq /\ Append(waq, w)[i] = waq[i])
      BY <1>a, <3>3
    <3> QED
      BY <2>2, <3>2, <3>3, <3>4 DEF NoneInWaq
  <2>5. ASSUME EbiuTake
        PROVE  NoneInWaq(c)'
    <3>1. waq # <<>> /\ waq' = Tail(waq)
      BY <2>5 DEF EbiuTake
    <3>2. \A i \in DOMAIN Tail(waq) : i + 1 \in DOMAIN waq /\ Tail(waq)[i] = waq[i + 1]
      BY <1>a, <3>1, TailFacts
    <3> QED
      BY <2>2, <3>1, <3>2 DEF NoneInWaq
  <2>6. ASSUME UNCHANGED waq
        PROVE  NoneInWaq(c)'
    BY <2>2, <2>6 DEF NoneInWaq
  <2> QED
    BY <2>4, <2>5, <2>6, NcMoves DEF NcWrite, NcqBarDone, MemDone, NcqBar, nc
<1> QED
  BY <1>1, CountsStep DEF NcFirst, CountsOf, NoneInWaq

LEMMA RespDoneStep ==
  ASSUME Types, Places, NcTypes, NcFirst, RespDone, [Next]_vars
  PROVE  RespDone'
<1>a. bar \in [CORE -> BarType] /\ ebiu \in [CORE -> Seq({"wo", "so"})]
  BY DEF Types, BarrierTypes, NcTypes
<1>1. ASSUME NEW c \in CORE, UNCHANGED bar, bar[c].st = "RESP"
      PROVE  bar'[c].cmplt = TARGET /\ ebiu'[c] = <<>>
  <2>1. bar[c].cmplt = TARGET /\ ebiu[c] = <<>>
    BY <1>1 DEF RespDone
  <2>2. NoneInWaq(c)
    BY <1>1, <2>1 DEF NcFirst, NoneInWaq, Done, TARGET
  <2>3. ASSUME EbiuTake
        PROVE  ebiu'[c] = <<>>
    <3>1. waq # <<>> /\ ebiu' = [ebiu EXCEPT ![Head(waq).mid] = Append(@, Head(waq).k)]
      BY <2>3 DEF EbiuTake
    <3>2. Head(waq) = waq[1] /\ 1 \in DOMAIN waq
      BY <3>1 DEF NcTypes
    <3> QED
      BY <2>1, <2>2, <3>1, <3>2, <1>a DEF NoneInWaq
  <2>4. ASSUME NEW d \in CORE, MemDone(d)
        PROVE  ebiu'[c] = <<>>
    BY <2>1, <2>4, <1>a DEF MemDone
  <2>5. ASSUME UNCHANGED ebiu
        PROVE  ebiu'[c] = <<>>
    BY <2>1, <2>5
  <2> QED
    BY <1>1, <2>1, <2>3, <2>4, <2>5, NcMoves DEF NcWrite, NcqCreate, NcqBarDone, NcqBar, nc
<1>2. ASSUME NEW c \in CORE, UNCHANGED ebiu, bar'[c].st = "RESP",
             bar[c].st = "RESP" /\ bar[c].cmplt \subseteq bar'[c].cmplt, bar'[c].cmplt \subseteq TARGET
      PROVE  bar'[c].cmplt = TARGET /\ ebiu'[c] = <<>>
  BY <1>2 DEF RespDone
<1>3. ASSUME NEW d \in CORE, NEW u \in TARGET, Cmplt(d, u), UNCHANGED ebiu
      PROVE  RespDone'
  <2>1. ASSUME NEW c \in CORE
        PROVE  /\ bar'[c].st = bar[c].st /\ bar[c].cmplt \subseteq bar'[c].cmplt
               /\ bar'[c].cmplt \subseteq TARGET
    BY <1>3, <1>a DEF Cmplt, BarType
  <2> QED
    BY <1>2, <1>3, <2>1 DEF RespDone
<1>4. ASSUME NEW d \in CORE, BarDone(d)
      PROVE  RespDone'
  <2>1. /\ bar[d].cmplt = TARGET /\ ebiu[d] = <<>> /\ UNCHANGED ebiu
        /\ bar' = [bar EXCEPT ![d].st = "RESP"]
    BY <1>4 DEF BarDone, ebiu_no_op, nc
  <2>2. bar'[d].cmplt = bar[d].cmplt /\ \A c \in CORE \ {d} : bar'[c] = bar[c]
    BY <2>1, <1>a DEF BarType
  <2> QED
    BY <2>1, <2>2 DEF RespDone
<1>5. ASSUME NEW d \in CORE, UNCHANGED ebiu, bar'[d].st # "RESP", \A c \in CORE \ {d} : bar'[c] = bar[c]
      PROVE  RespDone'
  BY <1>5 DEF RespDone
<1>6. ASSUME NEW d \in CORE, BarHalf(d), UNCHANGED ebiu
      PROVE  RespDone'
  <2>1. bar'[d].st # "RESP" /\ \A c \in CORE \ {d} : bar'[c] = bar[c]
    BY <1>6, <1>a DEF BarHalf
  <2> QED
    BY <1>5, <1>6, <2>1
<1>7. ASSUME NEW d \in CORE, NEW t \in TARGET, BmbGrant(d, t)
      PROVE  RespDone'
  <2>0. PICK g, s : /\ g = bar[d].grant \cup {t}
                    /\ s = IF g = TARGET THEN "W_BAR_CMPLT" ELSE "REQ"
    OBVIOUS
  <2>1. bar' = [bar EXCEPT ![d] = [@ EXCEPT !.grant = g, !.st = s]] /\ s # "RESP"
    BY <1>7, <2>0 DEF BmbGrant
  <2>2. bar'[d].st # "RESP" /\ \A c \in CORE \ {d} : bar'[c] = bar[c]
    BY <2>1, <1>a DEF BarType
  <2> QED
    BY <1>5, <1>7, <2>2 DEF BmbGrant, nc
<1>8. ASSUME NEW d \in CORE, BarResp(d)
      PROVE  RespDone'
  <2>1. bar'[d].st # "RESP" /\ \A c \in CORE \ {d} : bar'[c] = bar[c]
    BY <1>8, <1>a DEF BarResp, BarType
  <2> QED
    BY <1>5, <1>8, <2>1 DEF BarResp, nc
<1>9. CASE UNCHANGED bar
  BY <1>1, <1>9 DEF RespDone
<1>10. CASE BarrierStep
  BY <1>4, <1>6, <1>7, <1>8, <1>9, <1>10 DEF BarrierStep, FenceAr, ArBar, AwBar, nc
<1>11. CASE CtcCmplt
  <2>1. bar_mid \in CORE /\ Cmplt(bar_mid, "ctcq") /\ UNCHANGED ebiu
    BY <1>11 DEF CtcCmplt, Places, MidIsCore, nc
  <2> QED
    BY <1>3, <2>1 DEF TARGET
<1>12. ASSUME NEW e \in ENTRY, SabBarDone(e)
       PROVE  RespDone'
  <2>1. sab[e].mid \in CORE /\ Cmplt(sab[e].mid, "snb") /\ UNCHANGED ebiu
    BY <1>12 DEF SabBarDone, Places, OneEntry, nc
  <2> QED
    BY <1>3, <2>1 DEF TARGET
<1>13. ASSUME NEW c \in CORE, NcqBarDone(c)
       PROVE  RespDone'
  BY <1>3, <1>13 DEF NcqBarDone, TARGET
<1> QED
  BY <1>9, <1>10, <1>11, <1>12, <1>13, BarFrom

-----------------------------------------------------------------------------
(***************************************************************************)
(* The pairs and the barriers together.                                    *)
(***************************************************************************)
FenceInv ==
  /\ IInv /\ PipeInv /\ PairInv
  /\ AnswerInv /\ SyncAnswered /\ ArGone /\ OpsAre
  /\ AwFirst /\ StoreFirst /\ NcTypes /\ NcFirst /\ RespDone

LEMMA InitPairs ==
  ASSUME Init
  PROVE  PipeInv /\ PairInv
<1> USE DEF Init
<1>1. PipeTypes
  BY DEF PipeTypes
<1>2. Kinds /\ EntryShapes /\ AtWork /\ InOrder
  BY DEF Kinds, EntryShapes, AtWork, InOrder
<1>3. HalfAlone /\ Selects(NONE) /\ QueueLinked(NONE)
  BY DEF HalfAlone, Selects, QueueLinked
<1>4. ASSUME NEW c \in CORE
      PROVE  ArLinked(c, NONE) /\ AcLinked(c) /\ ToLinked(c, NONE)
  <2>1. Kept(c) = NONE /\ Passed(c) = NONE
    BY DEF Kept, Passed, Waiting
  <2>2. Linked(<<>>, NONE, NONE)
    BY DEF Linked
  <2>3. ArLinked(c, NONE)
    BY <2>2 DEF ArLinked, Awaited
  <2>4. AcLinked(c)
    BY <2>1, <2>2 DEF AcLinked
  <2>5. ToLinked(c, NONE)
    BY <2>1 DEF ToLinked, NextFor
  <2> QED
    BY <2>3, <2>4, <2>5
<1> QED
  BY <1>1, <1>2, <1>3, <1>4 DEF PipeInv, PairInv, Pairs

LEMMA InitAnswers ==
  ASSUME Init
  PROVE  AnswerInv /\ SyncAnswered /\ ArGone /\ OpsAre
<1> USE DEF Init
<1>1. Awaits
  BY DEF Awaits, AskedWait, QueueWaits
<1>2. IdsDiffer
  BY DEF IdsDiffer, AskedDiffer, AskedFresh, Apart, Distinct
<1>3. \A d \in CORE : Owes(d)
  BY DEF Owes, InLine
<1>4. SyncAnswered /\ ArGone
  BY DEF SyncAnswered, AllAnswered, ArGone
<1>5. OpsAre
  BY DEF OpsAre, Done
<1> QED
  BY <1>1, <1>2, <1>3, <1>4, <1>5 DEF AnswerInv

LEMMA InitWrites ==
  ASSUME Init
  PROVE  AwFirst /\ StoreFirst /\ NcTypes /\ NcFirst /\ RespDone
<1>1. AwFirst /\ RespDone
  BY DEF Init, AwFirst, RespDone
<1>2. \A c \in CORE, t \in TARGET : ~Done(c, t)
  BY DEF Init, Done
<1>3. \A e \in ENTRY : sab[e].k = "free"
  BY FreeType DEF Init
<1>4. StoreFirst
  BY <1>2, <1>3 DEF StoreFirst, TARGET
<1>5. NcTypes
  BY DEF Init, NcTypes
<1>6. SoOut = {}
  BY DEF Init, SoOut
<1>7. NcFirst
  BY <1>2, <1>6, FS_EmptySet DEF Init, NcFirst, TARGET
<1> QED
  BY <1>1, <1>4, <1>5, <1>7

LEMMA FenceInvStep ==
  ASSUME FenceInv, [Next]_vars
  PROVE  FenceInv'
<1> USE DEF FenceInv
<1>1. IInv'
  BY TypesStep, HalvesStep, PlacesStep, NoStaleLineStep DEF IInv
<1>2. Types /\ Halves /\ Places
  BY DEF IInv
<1>3. HalfAlone /\ PipeTypes /\ IsFiniteSet(SoOut)
  BY DEF PairInv, PipeInv, NcFirst
<1>4. PipeStep
  BY <1>2, <1>3, NextPipe
<1>5. PipeInv' /\ PairInv'
  BY <1>2, <1>4, PipeInvStep, PairInvStep
<1>6. AnswerInv' /\ SyncAnswered'
  BY <1>2, <1>3, <1>4, AnswerInvStep, SyncAnsweredStep
<1>7. ArGone' /\ OpsAre'
  BY <1>2, <1>3, <1>4, ArGoneStep, OpsDoneStep
<1>8. AwFirst' /\ StoreFirst'
  BY <1>2, AwFirstStep, StoreFirstStep
<1>9. NcTypes' /\ NcFirst' /\ RespDone'
  <2>1. NcTypes'
    BY <1>2, <1>3, NcTypesStep
  <2> QED
    BY <1>2, <2>1, NcFirstStep, RespDoneStep
<1> QED
  BY <1>1, <1>5, <1>6, <1>7, <1>8, <1>9

LEMMA FenceFollows ==
  ASSUME FenceInv
  PROVE  FenceCovers
<1> USE DEF FenceInv
<1>1. Types /\ Halves /\ Places
  BY DEF IInv
<1> SUFFICES ASSUME NEW c \in CORE, bar[c].st = "RESP"
             PROVE  /\ ~Unperformed(c)
                    /\ \A e \in ENTRY : ~(sab[e].k = "st" /\ sab[e].mid = c)
                    /\ ebiu[c] = <<>> /\ wns[c] = NONE /\ \A i \in DOMAIN waq : waq[i].mid # c
  BY DEF FenceCovers
<1>2. ebiu[c] = <<>> /\ \A t \in TARGET : Done(c, t)
  BY DEF RespDone, Done
<1>3. {"snb", "ncq", "ctcq"} \subseteq TARGET
  BY DEF TARGET
<1>4. fence[c] = "ar" /\ ws[c] # "bar" /\ \A i \in DOMAIN ar[c] : ar[c][i].k # "ctc"
  BY <1>1, <1>2, <1>3, AtWhere, NothingOnAr
<1>5. ~Unperformed(c)
  BY <1>2, <1>3, <1>4, GoneIs DEF OpsAre, NoneOnAr, IsCtc
<1>6. \A e \in ENTRY : ~(sab[e].k = "st" /\ sab[e].mid = c)
  BY <1>2, <1>3 DEF StoreFirst
<1>7. wns[c] = NONE
  BY <1>4 DEF AwFirst
<1>8. \A i \in DOMAIN waq : waq[i].mid # c
  BY <1>2, <1>3 DEF NcFirst
<1> QED
  BY <1>2, <1>5, <1>6, <1>7, <1>8

\* The invariant of the pairs and the barriers: what is open behind each queue,
\* what the CTCQ still waits for, and what a barrier has behind it.
THEOREM FenceInvariant == Spec => []FenceInv
<1>1. Init => FenceInv
  BY InitInv, InitPairs, InitAnswers, InitWrites DEF FenceInv
<1>2. FenceInv /\ [Next]_vars => FenceInv'
  BY FenceInvStep
<1> QED
  BY <1>1, <1>2, PTL DEF Spec

\* The two transactions a core joins in an entry of its queue
\* (ct_lsu_snoop_ctcq.v) are the halves of one operation, in their order, for
\* any number of cores and any lengths of the queues between.
THEOREM PairsAlwaysMeet == Spec => []PairsMeet
<1>1. FenceInv => PairsMeet
  BY PairsFollow DEF FenceInv, PipeInv
<1> QED
  BY <1>1, FenceInvariant, PTL

\* A barrier that the port of its core answers (W_BAR_CMPLT of ct_piu_top.v) has all
\* its core asked for before behind it: the operations at every core, the
\* stores in the snoop buffer, and the non-cacheable writes in memory.
THEOREM FencesCover == Spec => []FenceCovers
<1>1. FenceInv => FenceCovers
  BY FenceFollows
<1> QED
  BY <1>1, FenceInvariant, PTL
=============================================================================
