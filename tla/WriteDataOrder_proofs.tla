----------------------- MODULE WriteDataOrder_proofs -----------------------
(***************************************************************************)
(* Proofs about WriteDataOrder for any cores and banks and any depths: its *)
(* types, that wd_sel_fifo has room whenever it is filled without a test,  *)
(* that the reserve of the write entries works; and about the data: that   *)
(* an entry gets its own, that the order of the W channel never overflows, *)
(* that the port never waits for a beat the core cannot send, and that     *)
(* ports and receivers agree on the order of the packages.  The last four  *)
(* need an account of the writes under way (Ledger), which the queues, all *)
(* of them only numbers of ports and entries, do not keep.                 *)
(***************************************************************************)
EXTENDS WriteDataOrder, OrderFacts, TLAPS

Create == [sid : WSID, entry : Entry]

-----------------------------------------------------------------------------
(***************************************************************************)
(* Types.                                                                  *)
(***************************************************************************)

\* The queues of the circuit as sequences.
LEMMA SeqFacts ==
  ASSUME NEW S, NEW q \in Seq(S)
  PROVE  /\ Len(q) \in Nat
         /\ \A e \in S : Append(q, e) \in Seq(S) /\ Len(Append(q, e)) = Len(q) + 1
         /\ q # <<>> => /\ Head(q) \in S /\ Tail(q) \in Seq(S)
                        /\ Len(q) > 0 /\ Len(Tail(q)) = Len(q) - 1
BY SMT

\* What the assumption on the constants says of the entries of a bank.
LEMMA Sizes ==
  /\ LINE_BEATS \in Nat /\ LINE_BEATS > 0
  /\ WDEPTH \in Nat /\ WDEPTH > 1
  /\ LAST \in WSID /\ 0 \in WSID /\ LAST # 0
  /\ "ncq" \notin BANK /\ "bmb" \notin BANK
BY SizeAssumption DEF WSID, LAST

\* An idle entry, and that of a barrier, are entries.
LEMMA IdleType == IdleEntry \in Entry /\ [IdleEntry EXCEPT !.kind = "bar"] \in Entry
<1>1. <<>> \in Data
  BY DEF Data
<1>2. [IdleEntry EXCEPT !.kind = "bar"] =
        [kind |-> "bar", mid |-> NONE, id |-> NONE, len |-> 0, data |-> <<>>]
  BY DEF IdleEntry
<1> QED
  BY <1>1, <1>2, Sizes DEF IdleEntry, Entry, WriteKind

\* The types hold in the initial state.
LEMMA TypeInit == Init => TypeOK
<1> SUFFICES ASSUME Init PROVE TypeOK
  OBVIOUS
<1>1. PortTypeOK /\ NcqTypeOK
  BY DEF Init, PortTypeOK, NcqTypeOK
<1>2. BankTypeOK
  BY IdleType DEF Init, BankTypeOK
<1>3. DepthOK
  BY SizeAssumption DEF Init, DepthOK
<1> QED
  BY <1>1, <1>2, <1>3 DEF TypeOK

\* The priority encoder gives a free entry, and the last one only to a victim.
LEMMA FreeEntry ==
  ASSUME NEW b \in BANK, NEW w \in BOOLEAN, aw_bar_clr(b, w)
  PROVE  /\ sab_create1_ptr(b) \in WSID \ sab_wentry_vld(b)
         /\ ~w => sab_create1_ptr(b) # LAST
<1> DEFINE free == WSID \ sab_wentry_vld(b)
<1>1. free # {} /\ (~w => \E s \in free : s # LAST)
  BY Sizes DEF aw_bar_clr, sab_wentry_full, sab_wentry_vld
<1>2. free \subseteq Nat
  BY DEF WSID
<1>3. \E s \in free : \A t \in free : s <= t
  BY <1>1, <1>2, LeastNat, Zenon
<1>4. sab_create1_ptr(b) \in free /\ \A t \in free : sab_create1_ptr(b) <= t
  BY <1>3, Zenon DEF sab_create1_ptr
<1>5. \A t \in free : t <= LAST /\ t \in Nat
  BY Sizes DEF WSID, LAST
<1>6. LAST \in Nat
  BY Sizes DEF LAST
<1> QED
  BY <1>1, <1>4, <1>5, <1>6

\* Writing one entry of one bank changes that entry and no other.
LEMMA SetEntry ==
  ASSUME NEW f \in [BANK -> [WSID -> Entry]], NEW b \in BANK, NEW s \in WSID,
         NEW e \in Entry
  PROVE  /\ [f EXCEPT ![b][s] = e] \in [BANK -> [WSID -> Entry]]
         /\ \A c \in BANK, t \in WSID :
              [f EXCEPT ![b][s] = e][c][t] = IF c = b /\ t = s THEN e ELSE f[c][t]
<1>1. [f[b] EXCEPT ![s] = e] \in [WSID -> Entry]
  OBVIOUS
<1> QED
  BY <1>1

\* What a bank does when it takes a new request, or none, into its create
\* register.
LEMMA CreateEntryType ==
  ASSUME BankTypeOK, NEW b \in BANK, NEW next \in Create \cup {NONE},
         CreateEntry(b, next),
         crt[b] # NONE /\ TakesData(crt[b].entry) => crt[b].entry.mid \in CORE
  PROVE  BankTypeOK'
<1>1. crt' \in [BANK -> Create \cup {NONE}]
  BY DEF CreateEntry, BankTypeOK, Create
<1>2. CASE crt[b] = NONE
  BY <1>1, <1>2 DEF CreateEntry, BankTypeOK, Create
<1>3. CASE crt[b] # NONE
  <2>1. crt[b].sid \in WSID /\ crt[b].entry \in Entry
    BY <1>3 DEF BankTypeOK
  <2>2. sab' \in [BANK -> [WSID -> Entry]]
    <3>1. sab \in [BANK -> [WSID -> Entry]]
      BY DEF BankTypeOK
    <3>2. sab' = [sab EXCEPT ![b][crt[b].sid] = crt[b].entry]
      BY <1>3 DEF CreateEntry
    <3> QED
      BY <2>1, <3>1, <3>2, SetEntry
  <2>3. wd_sel_fifo' \in [BANK -> Seq(CORE)]
    <3>1. Append(wd_sel_fifo[b], crt[b].entry.mid) \in Seq(CORE) \/ ~TakesData(crt[b].entry)
      BY <1>3, SeqFacts DEF BankTypeOK
    <3> QED
      BY <1>3, <3>1 DEF CreateEntry, SelCreate, BankTypeOK
  <2> QED
    BY <1>1, <2>2, <2>3 DEF BankTypeOK, Create
<1> QED
  BY <1>2, <1>3

-----------------------------------------------------------------------------
(***************************************************************************)
(* The inductive invariant.                                                *)
(***************************************************************************)

\* What is in a create register: an entry that is free, a request that has no
\* data yet and, if it will have some, comes from a core.
CreateOK ==
  \A b \in BANK :
    crt[b] # NONE => /\ sab[b][crt[b].sid].kind = "none"
                     /\ crt[b].entry.kind # "none"
                     /\ crt[b].entry.data = <<>>
                     /\ TakesData(crt[b].entry) => crt[b].entry.mid \in CORE

\* The entries that wait for data.
Owed(b) == {s \in WSID : TakesData(sab[b][s]) /\ sab[b][s].data = <<>>}

\* A bank waits for no more packages than it has entries that need one.
SelOK == \A b \in BANK : Len(wd_sel_fifo[b]) <= Cardinality(Owed(b))

\* Requests are in the registers of the ports with the receivers of their kind.
RoutedOK ==
  \A p \in CORE : \A r \in {ws_dfifo[p], wns_dfifo[p]} \ {NONE} :
    r.dest \in Receivers(r.kind)

\* The last entry has nothing but victims.
VictimOK ==
  \A b \in BANK :
    /\ sab[b][LAST].kind \in {"none", "wb", "evict"}
    /\ crt[b] # NONE /\ crt[b].sid = LAST => crt[b].entry.kind \in {"wb", "evict"}

Inv == TypeOK /\ CreateOK /\ SelOK /\ RoutedOK /\ VictimOK

\* The entries that wait for data can be counted.
LEMMA OwedFacts ==
  ASSUME NEW b \in BANK
  PROVE  IsFiniteSet(Owed(b)) /\ Cardinality(Owed(b)) \in Nat
<1>1. IsFiniteSet(WSID)
  BY Sizes, FS_Interval DEF WSID
<1> QED
  BY <1>1, FS_Subset, FS_CardinalityType DEF Owed

\* The reason for WdSelRoom: of the entries, one is that of the create
\* register, and does not wait for data yet.
LEMMA RoomWhenCreated ==
  ASSUME Inv
  PROVE  WdSelRoom
<1> SUFFICES ASSUME NEW b \in BANK, crt[b] # NONE
             PROVE  Len(wd_sel_fifo[b]) < SEL_DEPTH
  BY DEF WdSelRoom
<1>1. crt[b].sid \in WSID /\ crt[b].sid \notin Owed(b) /\ Owed(b) \subseteq WSID
  BY DEF Inv, TypeOK, BankTypeOK, CreateOK, Owed, TakesData
<1>2. IsFiniteSet(WSID) /\ Cardinality(WSID) = WDEPTH
  BY Sizes, FS_Interval DEF WSID
<1>3. Cardinality(Owed(b)) < WDEPTH
  BY <1>1, <1>2, OwedFacts, Sizes, FS_Subset, FS_CardinalityType
<1>4. Len(wd_sel_fifo[b]) \in Nat /\ Len(wd_sel_fifo[b]) <= Cardinality(Owed(b))
  BY SeqFacts DEF Inv, TypeOK, BankTypeOK, SelOK
<1> QED
  BY <1>3, <1>4, OwedFacts, SizeAssumption

\* The reason for VictimSlot: a bank that is full has its last entry taken.
LEMMA VictimWhenFull ==
  ASSUME Inv
  PROVE  VictimSlot
<1> SUFFICES ASSUME NEW b \in BANK, sab_wentry_vld(b) = WSID
             PROVE  \/ \E s \in WSID : sab[b][s].kind \in {"wb", "evict"}
                    \/ crt[b] # NONE /\ crt[b].entry.kind \in {"wb", "evict"}
  BY DEF VictimSlot
<1>1. LAST \in sab_wentry_vld(b)
  BY Sizes
<1> QED
  BY <1>1, Sizes DEF sab_wentry_vld, Inv, VictimOK

\* The inductive invariant holds in the initial state.
LEMMA InvInit == Init => Inv
<1> SUFFICES ASSUME Init PROVE Inv
  OBVIOUS
<1>1. TypeOK
  BY TypeInit
<1>2. CreateOK /\ RoutedOK
  BY DEF Init, CreateOK, RoutedOK
<1>3. SelOK
  BY OwedFacts DEF Init, SelOK
<1>4. VictimOK
  BY Sizes DEF Init, VictimOK, IdleEntry
<1> QED
  BY <1>1, <1>2, <1>3, <1>4 DEF Inv

-----------------------------------------------------------------------------
(***************************************************************************)
(* The steps of a bank keep what the invariant says of it.                 *)
(***************************************************************************)

BankOK == BankTypeOK /\ CreateOK /\ SelOK /\ VictimOK

\* A step that leaves the banks alone keeps what is said of them.
LEMMA BankSame ==
  ASSUME BankOK, UNCHANGED snb
  PROVE  BankOK'
BY DEF BankOK, BankTypeOK, CreateOK, SelOK, Owed, VictimOK, TakesData, snb

\* The create register becomes an entry and takes a request for a free entry,
\* or none: wd_sel_fifo grows with the entries that wait for data.
LEMMA CreateStep ==
  ASSUME BankOK, NEW b \in BANK, NEW next \in Create \cup {NONE},
         CreateEntry(b, next),
         next # NONE => /\ next.sid \notin sab_wentry_vld(b)
                        /\ next.entry.kind # "none" /\ next.entry.data = <<>>
                        /\ TakesData(next.entry) => next.entry.mid \in CORE
                        /\ next.sid = LAST => next.entry.kind \in {"wb", "evict"}
  PROVE  BankOK'
<1>1. BankTypeOK'
  BY CreateEntryType DEF BankOK, CreateOK
<1>2. crt' = [crt EXCEPT ![b] = next] /\ crt \in [BANK -> Create \cup {NONE}]
  BY DEF CreateEntry, BankOK, BankTypeOK, Create
<1>3. ASSUME NEW c \in BANK, NEW s \in WSID
      PROVE  sab'[c][s] = IF c = b /\ crt[b] # NONE /\ s = crt[b].sid
                          THEN crt[b].entry ELSE sab[c][s]
  <2>1. CASE crt[b] = NONE
    BY <2>1 DEF CreateEntry
  <2>2. CASE crt[b] # NONE
    <3>1. crt[b].sid \in WSID /\ crt[b].entry \in Entry /\ sab \in [BANK -> [WSID -> Entry]]
      BY <2>2 DEF BankOK, BankTypeOK
    <3>2. sab' = [sab EXCEPT ![b][crt[b].sid] = crt[b].entry]
      BY <2>2 DEF CreateEntry
    <3> QED
      BY <2>2, <3>1, <3>2, SetEntry
  <2> QED
    BY <2>1, <2>2
<1>4. CreateOK'
  <2> SUFFICES ASSUME NEW c \in BANK, crt'[c] # NONE
               PROVE  /\ sab'[c][crt'[c].sid].kind = "none"
                      /\ crt'[c].entry.kind # "none"
                      /\ crt'[c].entry.data = <<>>
                      /\ TakesData(crt'[c].entry) => crt'[c].entry.mid \in CORE
    BY DEF CreateOK, TakesData
  <2>1. CASE c = b
    <3>1. crt'[c] = next /\ next \in Create /\ next.sid \in WSID
      BY <1>2, <2>1 DEF Create
    <3>2. sab[b][next.sid].kind = "none" /\ ~(crt[b] # NONE /\ crt[b].sid = next.sid)
      BY <3>1 DEF sab_wentry_vld
    <3> QED
      BY <1>3, <2>1, <3>1, <3>2
  <2>2. CASE c # b
    <3>1. crt'[c] = crt[c] /\ crt[c].sid \in WSID
      BY <1>2, <2>2 DEF Create
    <3> QED
      BY <1>3, <2>2, <3>1 DEF BankOK, CreateOK
  <2> QED
    BY <2>1, <2>2
<1>5. VictimOK'
  <2> SUFFICES ASSUME NEW c \in BANK
               PROVE  /\ sab'[c][LAST].kind \in {"none", "wb", "evict"}
                      /\ crt'[c] # NONE /\ crt'[c].sid = LAST
                           => crt'[c].entry.kind \in {"wb", "evict"}
    BY DEF VictimOK
  <2>1. sab'[c][LAST].kind \in {"none", "wb", "evict"}
    BY <1>3, Sizes DEF BankOK, VictimOK
  <2>2. crt'[c] = IF c = b THEN next ELSE crt[c]
    BY <1>2
  <2> QED
    BY <2>1, <2>2 DEF BankOK, VictimOK
<1>6. SelOK'
  <2> SUFFICES ASSUME NEW c \in BANK
               PROVE  Len(wd_sel_fifo'[c]) <= Cardinality(Owed(c)')
    BY DEF SelOK
  <2>1. Len(wd_sel_fifo[c]) <= Cardinality(Owed(c)) /\ wd_sel_fifo \in [BANK -> Seq(CORE)]
    BY DEF BankOK, SelOK, BankTypeOK
  <2>2. CASE c # b \/ crt[b] = NONE \/ ~TakesData(crt[b].entry)
    <3>1. wd_sel_fifo'[c] = wd_sel_fifo[c]
      BY <2>1, <2>2 DEF CreateEntry, SelCreate
    <3>2. Owed(c)' = Owed(c)
      BY <1>3, <2>2 DEF Owed, TakesData, BankOK, CreateOK
    <3> QED
      BY <2>1, <3>1, <3>2
  <2>3. CASE c = b /\ crt[b] # NONE /\ TakesData(crt[b].entry)
    <3> DEFINE s == crt[b].sid
    <3>1. s \in WSID /\ s \notin Owed(b) /\ crt[b].entry.mid \in CORE
      BY <2>3, <1>2 DEF BankOK, CreateOK, Create, Owed, TakesData
    <3>2. Owed(b)' = Owed(b) \cup {s}
      BY <1>3, <2>3, <3>1 DEF Owed, TakesData, BankOK, CreateOK
    <3>3. wd_sel_fifo'[b] = Append(wd_sel_fifo[b], crt[b].entry.mid)
      BY <2>1, <2>3 DEF CreateEntry, SelCreate
    <3>4. Cardinality(Owed(b)') = Cardinality(Owed(b)) + 1
      BY <3>1, <3>2, OwedFacts, FS_AddElement
    <3>5. Len(wd_sel_fifo'[b]) = Len(wd_sel_fifo[b]) + 1 /\ Len(wd_sel_fifo[b]) \in Nat
      BY <2>1, <3>1, <3>3, SeqFacts
    <3> QED
      BY <2>1, <2>3, <3>4, <3>5, OwedFacts
  <2> QED
    BY <2>2, <2>3
<1> QED
  BY <1>1, <1>4, <1>5, <1>6 DEF BankOK

\* A bank takes a package: wd_sel_fifo shrinks by one, and at most one entry
\* stops waiting for data.
LEMMA SnbWdGrantStep ==
  ASSUME PortTypeOK, BankOK, NEW p \in CORE, NEW b \in BANK, SnbWdGrant(p, b)
  PROVE  BankOK'
<1> DEFINE s == pkb[p].sid
           e == [sab[b][s] EXCEPT !.data = pkb[p].data]
<1>1. s \in WSID /\ pkb[p].data \in Data
  BY DEF SnbWdGrant, Packed, PortTypeOK, Package
<1>2. sab \in [BANK -> [WSID -> Entry]] /\ sab[b][s] \in Entry
  BY <1>1 DEF BankOK, BankTypeOK
<1>3. e \in Entry /\ e.kind = sab[b][s].kind
  BY <1>1, <1>2 DEF Entry
<1> HIDE DEF e
<1>4. sab' = [sab EXCEPT ![b][s] = e]
  BY <1>2 DEF SnbWdGrant, e
<1>5. /\ sab' \in [BANK -> [WSID -> Entry]]
      /\ \A c \in BANK, t \in WSID : sab'[c][t] = IF c = b /\ t = s THEN e ELSE sab[c][t]
  BY <1>1, <1>2, <1>3, <1>4, SetEntry
<1>6. \A c \in BANK, t \in WSID : sab'[c][t].kind = sab[c][t].kind
  BY <1>3, <1>5
<1>7. crt' = crt /\ wd_sel_fifo \in [BANK -> Seq(CORE)]
  BY DEF SnbWdGrant, BankOK, BankTypeOK
<1>8. wd_sel_fifo' \in [BANK -> Seq(CORE)]
  <2>1. Tail(wd_sel_fifo[b]) \in Seq(CORE)
    BY <1>7, SeqFacts DEF SnbWdGrant
  <2> QED
    BY <1>7, <2>1 DEF SnbWdGrant
<1>9. BankTypeOK'
  BY <1>5, <1>7, <1>8 DEF BankOK, BankTypeOK
<1>10. CreateOK' /\ VictimOK'
  <2>1. \A c \in BANK : crt[c] # NONE => crt[c].sid \in WSID
    BY DEF BankOK, BankTypeOK
  <2>2. CreateOK'
    BY <1>6, <1>7, <2>1 DEF BankOK, CreateOK, TakesData
  <2>3. VictimOK'
    BY <1>6, <1>7, Sizes DEF BankOK, VictimOK
  <2> QED
    BY <2>2, <2>3
<1>11. SelOK'
  <2> SUFFICES ASSUME NEW c \in BANK
               PROVE  Len(wd_sel_fifo'[c]) <= Cardinality(Owed(c)')
    BY DEF SelOK
  <2>1. Len(wd_sel_fifo[c]) <= Cardinality(Owed(c)) /\ Len(wd_sel_fifo[c]) \in Nat
    BY <1>7, SeqFacts DEF BankOK, SelOK
  <2>2. CASE c # b
    <3>1. wd_sel_fifo'[c] = wd_sel_fifo[c] /\ Owed(c)' = Owed(c)
      BY <1>5, <1>7, <2>2 DEF SnbWdGrant, Owed, TakesData
    <3> QED
      BY <2>1, <3>1
  <2>3. CASE c = b
    <3>1. Owed(b) \ {s} \subseteq Owed(b)'
      BY <1>5 DEF Owed, TakesData
    <3>2. Len(wd_sel_fifo'[b]) = Len(wd_sel_fifo[b]) - 1
      BY <1>7, SeqFacts DEF SnbWdGrant
    <3>3. IsFiniteSet(Owed(b)')
      <4>1. IsFiniteSet(WSID) /\ Owed(b)' \subseteq WSID
        BY Sizes, FS_Interval DEF WSID, Owed
      <4> QED
        BY <4>1, FS_Subset
    <3>4. Cardinality(Owed(b) \ {s}) <= Cardinality(Owed(b)')
      BY <3>1, <3>3, FS_Subset
    <3>5. Cardinality(Owed(b)) - 1 <= Cardinality(Owed(b) \ {s})
      <4>1. Cardinality(Owed(b) \ {s}) = IF s \in Owed(b) THEN Cardinality(Owed(b)) - 1
                                                     ELSE Cardinality(Owed(b))
        BY OwedFacts, FS_RemoveElement, Zenon
      <4> QED
        BY <4>1, OwedFacts
    <3>6. Cardinality(Owed(b) \ {s}) \in Nat /\ Cardinality(Owed(b)') \in Nat
      BY <3>3, OwedFacts, FS_RemoveElement, FS_CardinalityType
    <3> QED
      BY <2>1, <2>3, <3>2, <3>4, <3>5, <3>6, OwedFacts
  <2> QED
    BY <2>2, <2>3
<1> QED
  BY <1>9, <1>10, <1>11 DEF BankOK

\* An entry that is freed was not waiting for data.
LEMMA CompleteStep ==
  ASSUME BankOK, NEW b \in BANK, NEW s \in WSID, Complete(b, s)
  PROVE  BankOK'
<1>1. /\ sab' \in [BANK -> [WSID -> Entry]]
      /\ \A c \in BANK, t \in WSID :
           sab'[c][t] = IF c = b /\ t = s THEN IdleEntry ELSE sab[c][t]
  BY IdleType, SetEntry DEF Complete, BankOK, BankTypeOK
<1>2. crt' = crt /\ wd_sel_fifo' = wd_sel_fifo
  BY DEF Complete
<1>3. BankTypeOK'
  BY <1>1, <1>2 DEF BankOK, BankTypeOK
<1>4. IdleEntry.kind = "none"
  BY DEF IdleEntry
<1>5. CreateOK' /\ VictimOK'
  <2>1. \A c \in BANK : crt[c] # NONE => crt[c].sid \in WSID
    BY DEF BankOK, BankTypeOK
  <2>2. CreateOK'
    BY <1>1, <1>2, <1>4, <2>1 DEF BankOK, CreateOK, TakesData
  <2>3. VictimOK'
    BY <1>1, <1>2, <1>4, Sizes DEF BankOK, VictimOK
  <2> QED
    BY <2>2, <2>3
<1>6. \A c \in BANK : Owed(c)' = Owed(c)
  BY <1>1, <1>4 DEF Owed, TakesData, Complete
<1>7. SelOK'
  BY <1>2, <1>6 DEF BankOK, SelOK
<1> QED
  BY <1>3, <1>5, <1>7 DEF BankOK

-----------------------------------------------------------------------------
(***************************************************************************)
(* The steps of a core and its port.                                       *)
(***************************************************************************)

PortOK == PortTypeOK /\ NcqTypeOK /\ DepthOK /\ RoutedOK

\* A queue of a port takes a word, or gives one.
LEMMA AppendAt ==
  ASSUME NEW S, NEW f \in [CORE -> Seq(S)], NEW p \in CORE, NEW e \in S
  PROVE  /\ [f EXCEPT ![p] = Append(@, e)] \in [CORE -> Seq(S)]
         /\ \A q \in CORE : Len([f EXCEPT ![p] = Append(@, e)][q])
                              = IF q = p THEN Len(f[q]) + 1 ELSE Len(f[q])
<1>1. Append(f[p], e) \in Seq(S) /\ Len(Append(f[p], e)) = Len(f[p]) + 1
  BY SeqFacts
<1> QED
  BY <1>1

\* A queue of a port gives a word or stays; it keeps to its depth.
LEMMA TailAt ==
  ASSUME NEW S, NEW f \in [CORE -> Seq(S)], NEW p \in CORE, f[p] # <<>>,
         NEW g, g = [f EXCEPT ![p] = Tail(@)] \/ g = f,
         NEW n \in Nat, \A q \in CORE : Len(f[q]) <= n
  PROVE  /\ g \in [CORE -> Seq(S)]
         /\ \A q \in CORE : Len(g[q]) <= n
<1>1. /\ Tail(f[p]) \in Seq(S) /\ Len(Tail(f[p])) = Len(f[p]) - 1
      /\ \A q \in CORE : Len(f[q]) \in Nat
  BY SeqFacts
<1>2. CASE g = f
  BY <1>2
<1>3. CASE g = [f EXCEPT ![p] = Tail(@)]
  <2>1. \A q \in CORE : g[q] = IF q = p THEN Tail(f[p]) ELSE f[q]
    BY <1>3
  <2>2. \A q \in CORE : Len(g[q]) <= n
    BY SMTT(30), <1>1, <2>1
  <2> QED
    BY <1>1, <1>3, <2>2
<1> QED
  BY <1>2, <1>3

\* The steps that touch nothing of the ports but the room in a bank.
LEMMA PortSame ==
  ASSUME PortOK, UNCHANGED <<bus_arb_w_fifo, aw, wd_sid_fifo, wd, cd, pkb, ncq>>
  PROVE  PortOK'
BY DEF PortOK, PortTypeOK, NcqTypeOK, DepthOK, RoutedOK, aw, wd, cd, ncq

\* The core hands a request over.
LEMMA AwHandStep ==
  ASSUME PortOK, NEW p \in CORE, AwHand(p)
  PROVE  PortOK'
<1>0. PICK kind \in KINDS, n \in 0 .. MAX_WRITES - 1 :
        \E dest \in Receivers(kind), len \in Lengths(kind) :
          HandOver(p, [kind |-> kind, dest |-> dest, id |-> <<p, n>>, len |-> len])
  BY Zenon DEF AwHand
<1>1. PICK dest \in Receivers(kind), len \in Lengths(kind) :
        HandOver(p, [kind |-> kind, dest |-> dest, id |-> <<p, n>>, len |-> len])
  BY <1>0
<1> DEFINE r == [kind |-> kind, dest |-> dest, id |-> <<p, n>>, len |-> len]
           o == [id |-> r.id, wns |-> wns(r), left |-> r.len]
<1>2. /\ kind \in WriteKind /\ dest \in Receiver /\ <<p, n>> \in Id
      /\ len \in 0 .. LINE_BEATS /\ (kind # "evict" => len \in 1 .. LINE_BEATS)
  BY SizeAssumption DEF Receivers, Lengths, WriteKind, Receiver, Id
<1>3. /\ r \in Request /\ (r.kind # "evict" => o \in Order)
      /\ r.dest \in Receivers(r.kind)
  BY <1>2 DEF Request, Order, wns
<1> HIDE DEF r
<1>4. HandOver(p, r)
  BY <1>1 DEF r
<1>5. bus_arb_w_fifo' \in [CORE -> Seq(Order)]
  BY <1>3, <1>4, AppendAt DEF HandOver, PortOK, PortTypeOK
<1>6. /\ ws_dfifo' \in [CORE -> Request \cup {NONE}]
      /\ wns_dfifo' \in [CORE -> Request \cup {NONE}]
      /\ \A q \in CORE : /\ ws_dfifo'[q] \in {ws_dfifo[q], r}
                         /\ wns_dfifo'[q] \in {wns_dfifo[q], r}
  BY <1>3, <1>4 DEF HandOver, PortOK, PortTypeOK
<1>7. UNCHANGED <<wd_sid_fifo, wd, cd, pkb, ncq>>
  BY DEF AwHand
<1>8. PortTypeOK' /\ NcqTypeOK' /\ DepthOK'
  BY <1>5, <1>6, <1>7 DEF PortOK, PortTypeOK, NcqTypeOK, DepthOK, wd, cd, ncq
<1>9. RoutedOK'
  BY <1>3, <1>6 DEF PortOK, RoutedOK
<1> QED
  BY <1>8, <1>9 DEF PortOK

\* The core sends a beat: the queue of its class had room.
LEMMA WBeatStep ==
  ASSUME PortOK, NEW p \in CORE, WBeat(p)
  PROVE  PortOK'
<1> DEFINE w == Head(bus_arb_w_fifo[p])
           beat == [id |-> w.id, last |-> w.left = 1]
<1>1. bus_arb_w_fifo[p] \in Seq(Order) /\ bus_arb_w_fifo[p] # <<>>
  BY DEF WBeat, PortOK, PortTypeOK
<1>2. w \in Order /\ w = bus_arb_w_fifo[p][1]
  BY <1>1, SeqFacts
<1>3. beat \in Beat
  BY <1>2 DEF Order, Beat
<1>4. bus_arb_w_fifo' \in [CORE -> Seq(Order)]
  <2>1. CASE w.left = 1
    <3>1. bus_arb_w_fifo' = [bus_arb_w_fifo EXCEPT ![p] = Tail(@)]
      BY <2>1 DEF WBeat
    <3>2. Tail(bus_arb_w_fifo[p]) \in Seq(Order)
      BY <1>1, SeqFacts
    <3> QED
      BY <3>1, <3>2 DEF PortOK, PortTypeOK
  <2>2. CASE w.left # 1
    <3> DEFINE v == [w EXCEPT !.left = w.left - 1]
    <3>1. v \in Order
      BY <1>2, <2>2, Sizes DEF Order
    <3>2. [bus_arb_w_fifo[p] EXCEPT ![1] = v] \in Seq(Order)
      BY <1>1, <3>1
    <3>3. bus_arb_w_fifo' = [bus_arb_w_fifo EXCEPT ![p] =
                               [bus_arb_w_fifo[p] EXCEPT ![1] = v]]
      BY <1>2, <2>2 DEF WBeat
    <3> QED
      BY <3>2, <3>3 DEF PortOK, PortTypeOK
  <2> QED
    BY <2>1, <2>2
<1>5. CASE w.wns
  <2>1. /\ Len(wd_wns_dfifo[p]) < WNS_DEPTH /\ wd_ws_dfifo' = wd_ws_dfifo
        /\ wd_wns_dfifo' = [wd_wns_dfifo EXCEPT ![p] = Append(@, beat)]
    BY <1>5 DEF WBeat, wns_wready
  <2>2. /\ wd_wns_dfifo' \in [CORE -> Seq(Beat)]
        /\ \A q \in CORE : Len(wd_wns_dfifo'[q])
             = IF q = p THEN Len(wd_wns_dfifo[q]) + 1 ELSE Len(wd_wns_dfifo[q])
    <3> HIDE DEF beat
    <3> QED
      BY <1>3, <2>1, AppendAt DEF PortOK, PortTypeOK
  <2>3. Len(wd_wns_dfifo[p]) \in Nat
    BY SeqFacts DEF PortOK, PortTypeOK
  <2>4. UNCHANGED <<aw, wd_sid_fifo, cd, pkb, ncq>>
    BY DEF WBeat
  <2>5. PortTypeOK'
    BY <1>4, <2>1, <2>2, <2>4 DEF PortOK, PortTypeOK, aw, cd
  <2>6. DepthOK'
    BY <2>1, <2>2, <2>3, <2>4, SizeAssumption DEF PortOK, DepthOK, cd, ncq
  <2>7. NcqTypeOK' /\ RoutedOK'
    BY <2>4 DEF PortOK, NcqTypeOK, RoutedOK, aw, ncq
  <2> QED
    BY <2>5, <2>6, <2>7 DEF PortOK
<1>6. CASE ~w.wns
  <2>1. /\ Len(wd_ws_dfifo[p]) < WS_DEPTH /\ wd_wns_dfifo' = wd_wns_dfifo
        /\ wd_ws_dfifo' = [wd_ws_dfifo EXCEPT ![p] = Append(@, beat)]
    BY <1>6 DEF WBeat, ws_wready
  <2>2. /\ wd_ws_dfifo' \in [CORE -> Seq(Beat)]
        /\ \A q \in CORE : Len(wd_ws_dfifo'[q])
             = IF q = p THEN Len(wd_ws_dfifo[q]) + 1 ELSE Len(wd_ws_dfifo[q])
    <3> HIDE DEF beat
    <3> QED
      BY <1>3, <2>1, AppendAt DEF PortOK, PortTypeOK
  <2>3. Len(wd_ws_dfifo[p]) \in Nat
    BY SeqFacts DEF PortOK, PortTypeOK
  <2>4. UNCHANGED <<aw, wd_sid_fifo, cd, pkb, ncq>>
    BY DEF WBeat
  <2>5. PortTypeOK'
    BY <1>4, <2>1, <2>2, <2>4 DEF PortOK, PortTypeOK, aw, cd
  <2>6. DepthOK'
    BY <2>1, <2>2, <2>3, <2>4, SizeAssumption DEF PortOK, DepthOK, cd, ncq
  <2>7. NcqTypeOK' /\ RoutedOK'
    BY <2>4 DEF PortOK, NcqTypeOK, RoutedOK, aw, ncq
  <2> QED
    BY <2>5, <2>6, <2>7 DEF PortOK
<1> QED
  BY <1>5, <1>6

\* A snoop response with data, and a beat of it, arrive.
LEMMA CdStep ==
  ASSUME PortOK, NEW p \in CORE,
         CdBeat(p) \/ \E b \in BANK : CdResponse(p, b)
  PROVE  PortOK'
<1>1. CASE CdBeat(p)
  <2>1. /\ cd_dfifo' \in [CORE -> Nat]
        /\ \A q \in CORE : cd_dfifo'[q] \in {cd_dfifo[q], cd_dfifo[p] + 1}
                         /\ (q # p => cd_dfifo'[q] = cd_dfifo[q])
    BY <1>1 DEF CdBeat, PortOK, PortTypeOK
  <2>2. cd_dfifo[p] + 1 <= CDD_DEPTH
    BY <1>1, SizeAssumption DEF CdBeat, PortOK, PortTypeOK
  <2>3. UNCHANGED <<bus_arb_w_fifo, aw, wd_sid_fifo, wd, cd_sid_fifo, pkb, ncq>>
    BY <1>1 DEF CdBeat
  <2>4. PortTypeOK'
    BY <2>1, <2>3 DEF PortOK, PortTypeOK, aw, wd
  <2>5. DepthOK'
    BY <2>1, <2>2, <2>3 DEF PortOK, DepthOK, wd, ncq
  <2>6. NcqTypeOK' /\ RoutedOK'
    BY <2>3 DEF PortOK, NcqTypeOK, RoutedOK, aw, ncq
  <2> QED
    BY <2>4, <2>5, <2>6 DEF PortOK
<1>2. ASSUME NEW b \in BANK, CdResponse(p, b)
      PROVE  PortOK'
  <2>1. /\ cd_sid_fifo' \in [CORE -> Seq(BANK)]
        /\ \A q \in CORE : Len(cd_sid_fifo'[q])
             = IF q = p THEN Len(cd_sid_fifo[q]) + 1 ELSE Len(cd_sid_fifo[q])
    BY <1>2, AppendAt DEF CdResponse, PortOK, PortTypeOK
  <2>2. Len(cd_sid_fifo[p]) \in Nat
    BY SeqFacts DEF PortOK, PortTypeOK
  <2>3. /\ UNCHANGED <<bus_arb_w_fifo, aw, wd_sid_fifo, wd, cd_dfifo, pkb, ncq>>
        /\ Len(cd_sid_fifo[p]) < CD_DEPTH
    BY <1>2 DEF CdResponse
  <2>4. PortTypeOK'
    BY <2>1, <2>3 DEF PortOK, PortTypeOK, aw, wd
  <2>5. DepthOK'
    <3>1. Len(cd_sid_fifo[p]) + 1 <= CD_DEPTH
      BY <2>2, <2>3, SizeAssumption
    <3> QED
      BY <2>1, <2>3, <3>1 DEF PortOK, DepthOK, wd, ncq
  <2>6. NcqTypeOK' /\ RoutedOK'
    BY <2>3 DEF PortOK, NcqTypeOK, RoutedOK, aw, ncq
  <2> QED
    BY <2>4, <2>5, <2>6 DEF PortOK
<1> QED
  BY <1>1, <1>2

\* A request in a register has the receiver of its kind.
LEMMA RequestFacts ==
  ASSUME PortTypeOK, RoutedOK, NEW p \in CORE, aw_req_vld(p)
  PROVE  /\ aw_req(p) \in Request /\ aw_req(p).dest \in Receivers(aw_req(p).kind)
         /\ wns_dfifo[p] # NONE <=> aw_req(p) = wns_dfifo[p]
<1>1. aw_req(p) \in {ws_dfifo[p], wns_dfifo[p]} \ {NONE}
  BY DEF aw_req_vld, aw_req
<1>2. aw_req(p) \in Request
  BY <1>1 DEF PortTypeOK
<1>3. aw_req(p).dest \in Receivers(aw_req(p).kind)
  BY <1>1 DEF RoutedOK
<1>4. wns_dfifo[p] # NONE <=> aw_req(p) = wns_dfifo[p]
  BY <1>1 DEF aw_req
<1> QED
  BY <1>2, <1>3, <1>4

\* A grant by any receiver, whatever it does to the NCQ.
LEMMA AwGrantedStep ==
  ASSUME PortOK, NEW p \in CORE, NEW sid \in WSID, aw_req_vld(p),
         AwGranted(p, sid),
         NcqTypeOK', Len(woq)' <= WOQ_DEPTH, Len(wdq)' <= WDQ_DEPTH
  PROVE  PortOK'
<1> DEFINE e == [wns |-> wns_dfifo[p] # NONE, dest |-> aw_req(p).dest, sid |-> sid]
<1>1. e \in SidEntry
  BY RequestFacts DEF PortOK, Request, SidEntry
<1> HIDE DEF e
<1>2. wd_sid_fifo \in [CORE -> Seq(SidEntry)] /\ Len(wd_sid_fifo[p]) < SID_DEPTH
  BY DEF aw_req_vld, PortOK, PortTypeOK
<1>3. /\ wd_sid_fifo' \in [CORE -> Seq(SidEntry)]
      /\ \A q \in CORE : Len(wd_sid_fifo'[q]) <= SID_DEPTH
  <2>0. \A q \in CORE : Len(wd_sid_fifo[q]) <= SID_DEPTH
    BY DEF PortOK, DepthOK
  <2>1. CASE aw_req(p).kind = "evict"
    BY <1>2, <2>0, <2>1 DEF AwGranted, SidCreate
  <2>2. CASE aw_req(p).kind # "evict"
    <3>1. wd_sid_fifo' = [wd_sid_fifo EXCEPT ![p] = Append(@, e)]
      BY <2>2 DEF AwGranted, SidCreate, e
    <3>2. Len(wd_sid_fifo[p]) \in Nat
      BY <1>2, SeqFacts
    <3>3. Len(wd_sid_fifo[p]) + 1 <= SID_DEPTH
      BY <1>2, <3>2, SizeAssumption
    <3> QED
      BY <1>1, <1>2, <2>0, <3>1, <3>3, AppendAt
  <2> QED
    BY <2>1, <2>2
<1>4. /\ ws_dfifo' \in [CORE -> Request \cup {NONE}]
      /\ wns_dfifo' \in [CORE -> Request \cup {NONE}]
      /\ \A q \in CORE : /\ ws_dfifo'[q] \in {ws_dfifo[q], NONE}
                         /\ wns_dfifo'[q] \in {wns_dfifo[q], NONE}
  BY DEF AwGranted, PortOK, PortTypeOK
<1>5. UNCHANGED <<bus_arb_w_fifo, wd, cd, pkb>>
  BY DEF AwGranted
<1>6. PortTypeOK'
  BY <1>3, <1>4, <1>5 DEF PortOK, PortTypeOK, wd, cd
<1>7. DepthOK'
  BY <1>3, <1>5 DEF PortOK, DepthOK, wd, cd
<1>8. RoutedOK'
  BY <1>4 DEF PortOK, RoutedOK
<1> QED
  BY <1>6, <1>7, <1>8 DEF PortOK

\* The NCQ grants a request: woq had room.
LEMMA NcqAwGrantStep ==
  ASSUME PortOK, NEW p \in CORE, NcqAwGrant(p)
  PROVE  PortOK'
<1>1. aw_req(p).id \in Id
  BY RequestFacts DEF NcqAwGrant, PortOK, Request
<1>2. woq' \in Seq(Id) /\ Len(woq') = Len(woq) + 1 /\ Len(woq) \in Nat
  BY <1>1, SeqFacts DEF NcqAwGrant, PortOK, NcqTypeOK
<1>3. Len(woq') <= WOQ_DEPTH
  BY <1>2, SizeAssumption DEF NcqAwGrant
<1>4. NcqTypeOK' /\ Len(wdq') <= WDQ_DEPTH
  BY <1>2 DEF NcqAwGrant, PortOK, NcqTypeOK, DepthOK
<1> QED
  BY <1>3, <1>4, Sizes, AwGrantedStep DEF NcqAwGrant

\* A bank or the barrier merging buffer grants a request.
LEMMA BankAwGrantStep ==
  ASSUME PortOK, NEW p \in CORE,
         BmbAwGrant(p) \/ \E b \in BANK : SnbAwGrant(p, b)
  PROVE  PortOK'
<1>1. woq' = woq /\ wdq' = wdq
  BY DEF BmbAwGrant, SnbAwGrant, ncq
<1>2. NcqTypeOK' /\ Len(woq') <= WOQ_DEPTH /\ Len(wdq') <= WDQ_DEPTH
  BY <1>1 DEF PortOK, NcqTypeOK, DepthOK
<1>3. CASE BmbAwGrant(p)
  BY <1>2, <1>3, Sizes, AwGrantedStep DEF BmbAwGrant
<1>4. ASSUME NEW b \in BANK, SnbAwGrant(p, b)
      PROVE  PortOK'
  <2>1. wns(aw_req(p)) \in BOOLEAN
    BY DEF wns
  <2>2. sab_create1_ptr(b) \in WSID
    BY <1>4, <2>1, FreeEntry DEF SnbAwGrant
  <2> QED
    BY <1>2, <1>4, <2>2, AwGrantedStep DEF SnbAwGrant
<1> QED
  BY <1>3, <1>4

\* The data of a package gains a beat.
LEMMA DataGrows ==
  ASSUME PortTypeOK, NEW p \in CORE, NEW x \in Id \cup {NONE}
  PROVE  /\ <<x>> \in Data
         /\ pkb[p] # NONE => Append(pkb[p].data, x) \in Data
<1>1. <<x>> \in Data
  BY DEF Data
<1>2. ASSUME pkb[p] # NONE PROVE Append(pkb[p].data, x) \in Data
  <2>1. pkb[p].data \in Seq(Id \cup {NONE})
    BY <1>2 DEF PortTypeOK, Package, Data
  <2> QED
    BY <2>1, SeqFacts DEF Data
<1> QED
  BY <1>1, <1>2

\* The package buffer takes a beat of snoop data.
LEMMA PkbCdStep ==
  ASSUME PortOK, NEW p \in CORE, PkbCd(p)
  PROVE  PortOK'
<1> DEFINE data == IF pkb[p] = NONE THEN <<NONE>> ELSE Append(pkb[p].data, NONE)
           last == Len(data) = LINE_BEATS
           k == [cd |-> TRUE, dest |-> Head(cd_sid_fifo[p]), sid |-> 0,
                 data |-> data, rdy |-> last]
<1>1. data \in Data
  BY DataGrows DEF PortOK
<1>2. cd_sid_fifo[p] # <<>> /\ Head(cd_sid_fifo[p]) \in Receiver
  BY SeqFacts DEF PkbCd, pkb_cd_grant, cd_pkb_req, PortOK, PortTypeOK, Receiver
<1>3. k \in Package
  <2> HIDE DEF data
  <2> QED
    BY <1>1, <1>2, Sizes DEF Package
<1> HIDE DEF k, last
<1>4. pkb' = [pkb EXCEPT ![p] = k]
  BY DEF PkbCd, k, last
<1>5. /\ cd_sid_fifo' \in [CORE -> Seq(BANK)]
      /\ \A q \in CORE : Len(cd_sid_fifo'[q]) <= CD_DEPTH
  <2>1. /\ cd_sid_fifo \in [CORE -> Seq(BANK)]
        /\ CD_DEPTH \in Nat /\ \A q \in CORE : Len(cd_sid_fifo[q]) <= CD_DEPTH
    BY SizeAssumption DEF PortOK, PortTypeOK, DepthOK
  <2>2. \/ cd_sid_fifo' = [cd_sid_fifo EXCEPT ![p] = Tail(@)]
        \/ cd_sid_fifo' = cd_sid_fifo
    BY DEF PkbCd, PortOK, PortTypeOK
  <2> QED
    BY <1>2, <2>1, <2>2, TailAt
<1>6. /\ cd_dfifo' \in [CORE -> Nat]
      /\ \A q \in CORE : cd_dfifo'[q] <= cd_dfifo[q]
  BY DEF PkbCd, pkb_cd_grant, cd_pkb_req, PortOK, PortTypeOK
<1>7. UNCHANGED <<bus_arb_w_fifo, aw, wd_sid_fifo, wd, ncq>>
  BY DEF PkbCd
<1>8. PortTypeOK'
  BY <1>3, <1>4, <1>5, <1>6, <1>7 DEF PortOK, PortTypeOK, aw, wd
<1>9. DepthOK'
  <2>1. \A q \in CORE : cd_dfifo'[q] <= CDD_DEPTH
    <3>1. \A q \in CORE : /\ cd_dfifo[q] \in Nat /\ cd_dfifo[q] <= CDD_DEPTH
                         /\ cd_dfifo'[q] \in Nat
      BY <1>6 DEF PortOK, PortTypeOK, DepthOK
    <3> QED
      BY <1>6, <3>1, SizeAssumption
  <2> QED
    BY <1>5, <1>7, <2>1 DEF PortOK, DepthOK, wd, ncq
<1>10. NcqTypeOK' /\ RoutedOK'
  BY <1>7 DEF PortOK, NcqTypeOK, RoutedOK, aw, ncq
<1> QED
  BY <1>8, <1>9, <1>10 DEF PortOK

\* The package buffer takes a beat of write data.
LEMMA PkbWdStep ==
  ASSUME PortOK, NEW p \in CORE, PkbWd(p)
  PROVE  PortOK'
<1> DEFINE beat == Head(WdFifo(p))
           h == Head(wd_sid_fifo[p])
           data == IF pkb[p] = NONE THEN <<beat.id>> ELSE Append(pkb[p].data, beat.id)
           k == IF pkb[p] = NONE
                THEN [cd |-> FALSE, dest |-> h.dest, sid |-> h.sid,
                      data |-> data, rdy |-> beat.last]
                ELSE [pkb[p] EXCEPT !.data = data, !.rdy = beat.last]
<1>1. wd_sid_fifo[p] # <<>> /\ WdFifo(p) # <<>>
  BY DEF PkbWd, pkb_wd_grant, wd_pkb_req
<1>2. beat \in Beat /\ h \in SidEntry
  BY <1>1, SeqFacts DEF PortOK, PortTypeOK, WdFifo
<1>3. data \in Data
  BY <1>2, DataGrows DEF PortOK, Beat
<1>4. k \in Package
  <2>1. pkb[p] \in Package \cup {NONE}
    BY DEF PortOK, PortTypeOK
  <2> HIDE DEF data
  <2>2. beat.last \in BOOLEAN /\ h.dest \in Receiver /\ h.sid \in WSID
    BY <1>2 DEF Beat, SidEntry
  <2> HIDE DEF beat, h
  <2>3. CASE pkb[p] = NONE
    BY <1>3, <2>2, <2>3 DEF Package
  <2>4. CASE pkb[p] # NONE
    BY <1>3, <2>1, <2>2, <2>4 DEF Package
  <2> QED
    BY <2>3, <2>4
<1>5. pkb' = [pkb EXCEPT ![p] = k]
  BY DEF PkbWd, PortOK, PortTypeOK
<1> HIDE DEF k, data
<1>6. /\ wd_sid_fifo' \in [CORE -> Seq(SidEntry)]
      /\ \A q \in CORE : Len(wd_sid_fifo'[q]) <= SID_DEPTH
  <2>1. /\ wd_sid_fifo \in [CORE -> Seq(SidEntry)]
        /\ SID_DEPTH \in Nat /\ \A q \in CORE : Len(wd_sid_fifo[q]) <= SID_DEPTH
    BY SizeAssumption DEF PortOK, PortTypeOK, DepthOK
  <2>2. \/ wd_sid_fifo' = [wd_sid_fifo EXCEPT ![p] = Tail(@)]
        \/ wd_sid_fifo' = wd_sid_fifo
    BY DEF PkbWd, PortOK, PortTypeOK
  <2> QED
    BY <1>1, <2>1, <2>2, TailAt
<1>7. /\ wd_ws_dfifo' \in [CORE -> Seq(Beat)] /\ wd_wns_dfifo' \in [CORE -> Seq(Beat)]
      /\ \A q \in CORE : Len(wd_ws_dfifo'[q]) <= WS_DEPTH /\ Len(wd_wns_dfifo'[q]) <= WNS_DEPTH
  <2>1. /\ wd_ws_dfifo \in [CORE -> Seq(Beat)] /\ wd_wns_dfifo \in [CORE -> Seq(Beat)]
        /\ WS_DEPTH \in Nat /\ \A q \in CORE : Len(wd_ws_dfifo[q]) <= WS_DEPTH
        /\ WNS_DEPTH \in Nat /\ \A q \in CORE : Len(wd_wns_dfifo[q]) <= WNS_DEPTH
    BY SizeAssumption DEF PortOK, PortTypeOK, DepthOK
  <2>2. CASE wd_dfifo_sel_wns(p)
    <3>1. /\ wd_wns_dfifo' = [wd_wns_dfifo EXCEPT ![p] = Tail(@)]
          /\ wd_ws_dfifo' = wd_ws_dfifo /\ wd_wns_dfifo[p] # <<>>
      BY <1>1, <2>2 DEF PkbWd, WdFifo
    <3> QED
      BY <2>1, <3>1, TailAt
  <2>3. CASE ~wd_dfifo_sel_wns(p)
    <3>1. /\ wd_ws_dfifo' = [wd_ws_dfifo EXCEPT ![p] = Tail(@)]
          /\ wd_wns_dfifo' = wd_wns_dfifo /\ wd_ws_dfifo[p] # <<>>
      BY <1>1, <2>3 DEF PkbWd, WdFifo
    <3> QED
      BY <2>1, <3>1, TailAt
  <2> QED
    BY <2>2, <2>3
<1>8. UNCHANGED <<bus_arb_w_fifo, aw, cd, ncq>>
  BY DEF PkbWd
<1>9. PortTypeOK'
  BY <1>4, <1>5, <1>6, <1>7, <1>8 DEF PortOK, PortTypeOK, aw, cd
<1>10. DepthOK'
  BY <1>6, <1>7, <1>8 DEF PortOK, DepthOK, cd, ncq
<1>11. NcqTypeOK' /\ RoutedOK'
  BY <1>8 DEF PortOK, NcqTypeOK, RoutedOK, aw, ncq
<1> QED
  BY <1>9, <1>10, <1>11 DEF PortOK

\* A receiver takes a package, or the bus a write of the NCQ.
LEMMA WdStepPort ==
  ASSUME PortOK, NEW p \in CORE, WdStep(p)
  PROVE  PortOK'
<1>1. /\ pkb' = [pkb EXCEPT ![p] = NONE]
      /\ UNCHANGED <<bus_arb_w_fifo, aw, wd_sid_fifo, wd, cd>>
  BY DEF WdStep, NcqWcdGrant, BmbWcdGrant, SnbCdGrant, SnbWdGrant, Unpack
<1>2. PortTypeOK' /\ RoutedOK'
  BY <1>1 DEF PortOK, PortTypeOK, RoutedOK, aw, wd, cd
<1>3. NcqTypeOK' /\ Len(woq') <= WOQ_DEPTH /\ Len(wdq') <= WDQ_DEPTH
  <2>1. CASE UNCHANGED ncq
    BY <2>1 DEF PortOK, NcqTypeOK, DepthOK, ncq
  <2>2. CASE NcqWcdGrant(p)
    <3> DEFINE e == [id |-> Head(woq), data |-> pkb[p].data]
    <3>1. woq # <<>> /\ woq \in Seq(Id) /\ pkb[p] \in Package
      BY <2>2 DEF NcqWcdGrant, Packed, PortOK, PortTypeOK, NcqTypeOK
    <3>2. e \in [id : Id, data : Data]
      BY <3>1, SeqFacts DEF Package
    <3> HIDE DEF e
    <3>3. wdq' = Append(wdq, e) /\ woq' = Tail(woq) /\ Len(wdq) < WDQ_DEPTH
      BY <2>2 DEF NcqWcdGrant, e
    <3>4. woq' \in Seq(Id) /\ Len(woq') = Len(woq) - 1 /\ Len(woq) \in Nat
      BY <3>1, <3>3, SeqFacts
    <3>5. /\ wdq' \in Seq([id : Id, data : Data])
          /\ Len(wdq') = Len(wdq) + 1 /\ Len(wdq) \in Nat
      BY <3>2, <3>3, SeqFacts DEF PortOK, NcqTypeOK
    <3> QED
      BY <3>3, <3>4, <3>5, SizeAssumption DEF PortOK, NcqTypeOK, DepthOK
  <2>3. UNCHANGED ncq \/ NcqWcdGrant(p)
    BY DEF WdStep, BmbWcdGrant, SnbCdGrant, SnbWdGrant
  <2> QED
    BY <2>1, <2>2, <2>3
<1>4. DepthOK'
  BY <1>1, <1>3 DEF PortOK, DepthOK, wd, cd
<1> QED
  BY <1>2, <1>3, <1>4 DEF PortOK

\* The bus takes a write from the NCQ.
LEMMA NcqPopStep ==
  ASSUME PortOK, NcqPop
  PROVE  PortOK'
<1>1. wdq \in Seq([id : Id, data : Data]) /\ wdq # <<>> /\ wdq' = Tail(wdq)
  BY DEF NcqPop, PortOK, NcqTypeOK
<1>2. /\ wdq' \in Seq([id : Id, data : Data])
      /\ Len(wdq') = Len(wdq) - 1 /\ Len(wdq) \in Nat
  BY <1>1, SeqFacts
<1>3. UNCHANGED <<bus_arb_w_fifo, aw, wd_sid_fifo, wd, cd, pkb, woq>>
  BY DEF NcqPop
<1>4. Len(wdq') <= WDQ_DEPTH
  BY <1>2, SizeAssumption DEF PortOK, DepthOK
<1> QED
  BY <1>2, <1>3, <1>4
  DEF PortOK, PortTypeOK, NcqTypeOK, DepthOK, RoutedOK, aw, wd, cd

-----------------------------------------------------------------------------
(***************************************************************************)
(* Every step keeps the invariant.                                         *)
(***************************************************************************)

\* A grant by a bank gives a free entry to the request of a core.
LEMMA SnbAwGrantStep ==
  ASSUME PortOK, BankOK, NEW p \in CORE, NEW b \in BANK, SnbAwGrant(p, b)
  PROVE  BankOK'
<1> DEFINE r == aw_req(p)
           sid == sab_create1_ptr(b)
           next == [sid |-> sid,
                    entry |-> [kind |-> r.kind, mid |-> p, id |-> r.id,
                               len |-> r.len, data |-> <<>>]]
<1>1. r \in Request /\ r.dest \in Receivers(r.kind) /\ r.dest = b
  BY RequestFacts DEF SnbAwGrant, PortOK
<1>2. r.kind \in WriteKind \ {"nc", "bar"}
  BY <1>1, Sizes DEF Request, Receivers, WriteKind
<1>3. wns(r) \in BOOLEAN
  BY DEF wns
<1>4. sid \in WSID \ sab_wentry_vld(b) /\ (~wns(r) => sid # LAST)
  BY <1>3, FreeEntry DEF SnbAwGrant
<1>5. next \in Create
  <2>1. <<>> \in Data
    BY DEF Data
  <2>2. r.id \in Id /\ r.len \in 0 .. LINE_BEATS
    BY <1>1 DEF Request
  <2> HIDE DEF r, sid
  <2> QED
    BY <1>2, <1>4, <2>1, <2>2 DEF Create, Entry
<1>6. next.sid = LAST => next.entry.kind \in {"wb", "evict"}
  BY <1>2, <1>4 DEF wns, WriteKind
<1>7. next.entry.kind # "none" /\ next.entry.data = <<>> /\ next.entry.mid \in CORE
  BY <1>2 DEF WriteKind
<1>8. CreateEntry(b, next)
  BY DEF SnbAwGrant
<1>9. next.sid \notin sab_wentry_vld(b)
  BY <1>4
<1> HIDE DEF next
<1> QED
  BY <1>5, <1>6, <1>7, <1>8, <1>9, CreateStep

\* A barrier never gets the last entry.
LEMMA SnbBarGrantStep ==
  ASSUME BankOK, NEW b \in BANK, SnbBarGrant(b)
  PROVE  BankOK'
<1> DEFINE next == [sid |-> sab_create1_ptr(b), entry |-> [IdleEntry EXCEPT !.kind = "bar"]]
<1>1. sab_create1_ptr(b) \in WSID \ sab_wentry_vld(b) /\ sab_create1_ptr(b) # LAST
  BY FreeEntry DEF SnbBarGrant
<1>2. /\ next.entry.kind = "bar" /\ next.entry.data = <<>>
      /\ next.sid = sab_create1_ptr(b)
  BY DEF IdleEntry
<1>3. next \in Create /\ CreateEntry(b, next)
  BY <1>1, IdleType DEF SnbBarGrant, Create
<1> HIDE DEF next
<1>4. ~TakesData(next.entry)
  BY <1>2 DEF TakesData
<1> QED
  BY <1>1, <1>2, <1>3, <1>4, CreateStep

\* The invariant is what is said of the ports and of the banks.
LEMMA InvParts == Inv <=> PortOK /\ BankOK
BY DEF Inv, TypeOK, PortOK, BankOK

\* Every step keeps the invariant.
LEMMA InvStep == Inv /\ [Next]_vars => Inv'
<1> SUFFICES ASSUME PortOK, BankOK, [Next]_vars PROVE PortOK' /\ BankOK'
  BY InvParts DEF Inv, TypeOK, PortOK, BankOK
<1>0. PortTypeOK
  BY DEF PortOK
<1>1. ASSUME NEW p \in CORE, CoreStep(p) \/ PortStep(p)
      PROVE  PortOK' /\ BankOK'
  <2>1. UNCHANGED snb
    BY <1>1 DEF CoreStep, PortStep, AwHand, WBeat, CdBeat, CdResponse, PkbCd, PkbWd
  <2>2. PortOK'
    BY <1>1, AwHandStep, WBeatStep, CdStep, PkbCdStep, PkbWdStep DEF CoreStep, PortStep
  <2> QED
    BY <2>1, <2>2, BankSame
<1>2. ASSUME NEW p \in CORE, AwStep(p)
      PROVE  PortOK' /\ BankOK'
  <2>1. CASE NcqAwGrant(p) \/ BmbAwGrant(p)
    <3>1. UNCHANGED snb
      BY <2>1 DEF NcqAwGrant, BmbAwGrant, snb
    <3> QED
      BY <2>1, <3>1, NcqAwGrantStep, BankAwGrantStep, BankSame
  <2>2. ASSUME NEW b \in BANK, SnbAwGrant(p, b)
        PROVE  PortOK' /\ BankOK'
    BY <2>2, BankAwGrantStep, SnbAwGrantStep
  <2> QED
    BY <1>2, <2>1, <2>2 DEF AwStep
<1>3. ASSUME NEW p \in CORE, WdStep(p)
      PROVE  PortOK' /\ BankOK'
  <2>1. PortOK'
    BY <1>3, WdStepPort
  <2>2. ASSUME NEW b \in BANK, SnbWdGrant(p, b)
        PROVE  BankOK'
    BY <1>0, <2>2, SnbWdGrantStep
  <2>3. CASE NcqWcdGrant(p) \/ BmbWcdGrant(p) \/ \E b \in BANK : SnbCdGrant(p, b)
    <3>1. UNCHANGED snb
      BY <2>3 DEF NcqWcdGrant, BmbWcdGrant, SnbCdGrant
    <3> QED
      BY <2>1, <3>1, BankSame
  <2> QED
    BY <1>3, <2>1, <2>2, <2>3 DEF WdStep
<1>4. ASSUME NEW b \in BANK, BankStep(b)
      PROVE  PortOK' /\ BankOK'
  <2>1. PortOK'
    BY <1>4, PortSame DEF BankStep, AwCreate, SnbBarGrant, Complete
  <2>2. CASE AwCreate(b)
    BY <2>1, <2>2, CreateStep DEF AwCreate
  <2>3. CASE SnbBarGrant(b)
    BY <2>1, <2>3, SnbBarGrantStep
  <2>4. ASSUME NEW s \in WSID, Complete(b, s)
        PROVE  BankOK'
    BY <2>4, CompleteStep
  <2> QED
    BY <1>4, <2>1, <2>2, <2>3, <2>4 DEF BankStep
<1>5. CASE NcqPop
  BY <1>5, NcqPopStep, BankSame DEF NcqPop, snb
<1>6. CASE UNCHANGED vars
  <2>1. UNCHANGED snb /\ UNCHANGED <<bus_arb_w_fifo, aw, wd_sid_fifo, wd, cd, pkb, ncq>>
    BY <1>6 DEF vars
  <2> QED
    BY <2>1, PortSame, BankSame
<1> QED
  BY <1>1, <1>2, <1>3, <1>4, <1>5, <1>6 DEF Next

\* The inductive invariant holds in every reachable state.
LEMMA InvAlways == Spec => []Inv
<1>1. Init => Inv
  BY InvInit
<1>2. Inv /\ [Next]_vars => Inv'
  BY InvStep
<1> QED
  BY <1>1, <1>2, PTL DEF Spec

-----------------------------------------------------------------------------
(***************************************************************************)
(* The theorems.                                                           *)
(***************************************************************************)

\* The variables have their types, and no queue that is tested for full is
\* ever longer than its depth (ct_piu_other_io 878-1044, ct_ciu_ncq 977-1070).
THEOREM TypeCorrect == Spec => []TypeOK
<1>1. Inv => TypeOK
  BY DEF Inv
<1> QED
  BY <1>1, InvAlways, PTL

\* wd_sel_fifo has room one clock after the grant, when a bank fills it
\* without a test (ct_ciu_snb_arb 777, 928): it has no more words than entries
\* wait for data, and the request in the create register has an entry too, that
\* does not wait yet.
THEOREM WdSelNeverOverflows == Spec => []WdSelRoom
<1>1. Inv => WdSelRoom
  BY RoomWhenCreated
<1> QED
  BY <1>1, InvAlways, PTL

\* A full bank has a victim among its writes (sab_wentry_full,
\* ct_ciu_snb_arb 873).
THEOREM VictimKeepsSlot == Spec => []VictimSlot
<1>1. Inv => VictimSlot
  BY VictimWhenFull
<1> QED
  BY <1>1, InvAlways, PTL

-----------------------------------------------------------------------------
(***************************************************************************)
(* Which data meets which request.                                         *)
(*                                                                         *)
(* The circuit ties them together by order alone, and no state says which  *)
(* write a word of wd_sid_fifo or of wd_sel_fifo is for.  The invariant    *)
(* says that there is a ledger that does: an account of the writes whose   *)
(* data is under way, that agrees with all of the queues at once.  Each    *)
(* class of a port has its beats numbered in the order of the hand-overs,  *)
(* and each write has a range of these numbers.                            *)
(***************************************************************************)
CLASS == {"ws", "wns"}
ClassOf(w) == IF w THEN "wns" ELSE "ws"

Ledger ==
  [due     : SUBSET Id,                 \* the writes not packed yet
   class   : [Id -> CLASS],
   from    : [Id -> Nat],               \* a write has the beats after from,
   to      : [Id -> Nat],               \* up to to
   handed  : [Id -> Nat],               \* when it was handed over
   granted : [Id -> Nat],               \* when it was granted
   owner   : [CORE -> Seq(Id)],         \* the writes of wd_sid_fifo
   owed    : [BANK -> Seq(Id)],         \* the writes of wd_sel_fifo and crt
   packed  : [CORE -> [CLASS -> Nat]],  \* the beats packed so far
   total   : [CORE -> [CLASS -> Nat]],  \* the beats handed over so far
   now     : Nat]

\* The AW register and the data queue of a class.
Register(p, c) == IF c = "wns" THEN wns_dfifo[p] ELSE ws_dfifo[p]
Beats(p, c) == IF c = "wns" THEN wd_wns_dfifo[p] ELSE wd_ws_dfifo[p]

HasData(r) == r # NONE /\ r.kind # "evict"

\* A package with write data that is not complete, or is, and its write.
HalfWay(p) == Filling(p) /\ ~pkb[p].cd
Ready(p) == pkb[p] # NONE /\ pkb[p].rdy /\ ~pkb[p].cd
Packet(p) == pkb[p].data[1]

\* Data of n beats, all of one write.
AllOf(d, n, i) == d = [k \in 1 .. n |-> i]

\* An entry, or the request on its way into it.
Slot(b, s) ==
  IF crt[b] # NONE /\ crt[b].sid = s THEN crt[b].entry ELSE sab[b][s]

\* The writes of a class that are not packed yet, and how many of its beats
\* the core has sent.
Stream(g, p, c) == {i \in g.due : i[1] = p /\ g.class[i] = c}
Sent(g, p, c) == g.packed[p][c] + Len(Beats(p, c))

\* The writes of a class have ranges of beats, one after the other in the
\* order of the hand-overs, that leave out none.
StreamAt(g, p) ==
  \A c \in CLASS :
    /\ Sent(g, p, c) <= g.total[p][c]
    /\ \A i \in Stream(g, p, c) :
         /\ g.packed[p][c] < g.to[i] /\ g.to[i] <= g.total[p][c]
         /\ g.from[i] < g.to[i] /\ g.to[i] <= g.from[i] + LINE_BEATS
    /\ \A i, j \in Stream(g, p, c) : g.handed[i] < g.handed[j] => g.to[i] <= g.from[j]
    /\ \A n \in g.packed[p][c] + 1 .. g.total[p][c] :
         \E i \in Stream(g, p, c) : g.from[i] < n /\ n <= g.to[i]

StampOK(g) ==
  /\ \A i \in g.due : g.handed[i] < g.now
  /\ \A i, j \in g.due : i[1] = j[1] /\ i # j => g.handed[i] # g.handed[j]

\* The data queues hold the beats that come next.
BeatOK(g, p, c, k) ==
  LET b == Beats(p, c)[k]
      n == g.packed[p][c] + k IN
  /\ b.id \in Stream(g, p, c)
  /\ g.from[b.id] < n /\ n <= g.to[b.id]
  /\ b.last <=> n = g.to[b.id]

BeatsAt(g, p) == \A c \in CLASS : \A k \in 1 .. Len(Beats(p, c)) : BeatOK(g, p, c, k)

\* The core holds the rest of what was handed over, in this order.
OrderOK(g, p, w) ==
  LET sent == Sent(g, p, ClassOf(w.wns)) IN
  /\ w.id \in Stream(g, p, ClassOf(w.wns))
  /\ sent < g.to[w.id]
  /\ w.left = g.to[w.id] - (IF g.from[w.id] < sent THEN sent ELSE g.from[w.id])

BusAt(g, p) ==
  LET q == bus_arb_w_fifo[p] IN
  /\ \A k \in 1 .. Len(q) : OrderOK(g, p, q[k])
  /\ \A j, k \in 1 .. Len(q) : j < k => g.handed[q[j].id] < g.handed[q[k].id]
  /\ \A c \in CLASS : \A i \in Stream(g, p, c) :
       Sent(g, p, c) < g.to[i] => \E k \in 1 .. Len(q) : q[k].id = i

\* The registers hold requests of their class, and the last of it.
RegisterAt(g, p) ==
  \A c \in CLASS :
    LET r == Register(p, c) IN
    /\ r # NONE => /\ r.dest \in Receivers(r.kind) /\ r.len \in Lengths(r.kind)
                   /\ ClassOf(wns(r)) = c /\ r.id[1] = p
    /\ HasData(r) => /\ r.id \in Stream(g, p, c) /\ g.to[r.id] = g.from[r.id] + r.len
                     /\ \A i \in Stream(g, p, c) : i # r.id => g.handed[i] < g.handed[r.id]

\* wd_sid_fifo holds what was granted, in the order of the grants, which is
\* for each class that of the hand-overs.
GrantAt(g, p) ==
  LET q == wd_sid_fifo[p]
      o == g.owner[p] IN
  /\ Len(o) = Len(q)
  /\ \A k \in 1 .. Len(q) : o[k] \in Stream(g, p, ClassOf(q[k].wns)) /\ g.granted[o[k]] < g.now
  /\ \A j, k \in 1 .. Len(q) :
       j < k => /\ g.granted[o[j]] < g.granted[o[k]]
                /\ q[j].wns = q[k].wns => g.handed[o[j]] < g.handed[o[k]]
  /\ \A c \in CLASS : \A i \in Stream(g, p, c) :
       \/ \E k \in 1 .. Len(q) : o[k] = i
       \/ HasData(Register(p, c)) /\ Register(p, c).id = i
  /\ \A c \in CLASS : HasData(Register(p, c)) =>
       \A k \in 1 .. Len(q) : o[k] # Register(p, c).id

\* The package buffer holds the first beats of the oldest grant, or all of a
\* write that was granted before.
PackAt(g, p) ==
  /\ HalfWay(p) =>
       LET h == wd_sid_fifo[p][1]
           i == g.owner[p][1]
           c == ClassOf(h.wns) IN
       /\ wd_sid_fifo[p] # <<>> /\ pkb[p].dest = h.dest /\ pkb[p].sid = h.sid
       /\ g.from[i] < g.packed[p][c]
       /\ AllOf(pkb[p].data, g.packed[p][c] - g.from[i], i)
  /\ Ready(p) =>
       LET i == Packet(p) IN
       /\ i \in Id /\ i[1] = p /\ i \notin g.due
       /\ Len(pkb[p].data) > 0
       /\ AllOf(pkb[p].data, Len(pkb[p].data), i)
       /\ g.granted[i] < g.now
       /\ \A k \in 1 .. Len(g.owner[p]) : g.granted[i] < g.granted[g.owner[p][k]]
  /\ \A c \in CLASS : \A i \in Stream(g, p, c) :
       g.packed[p][c] <= g.from[i] \/ (HalfWay(p) /\ g.owner[p][1] = i)

\* A write i of n beats that a port has still to deliver to an entry s of d.
Delivers(g, i, d, s, n) ==
  LET p == i[1] IN
  \/ \E k \in 1 .. Len(wd_sid_fifo[p]) :
       /\ g.owner[p][k] = i /\ n = g.to[i] - g.from[i]
       /\ wd_sid_fifo[p][k].dest = d /\ wd_sid_fifo[p][k].sid = s
  \/ /\ Ready(p) /\ Packet(p) = i /\ n = Len(pkb[p].data)
     /\ pkb[p].dest = d /\ pkb[p].sid = s

Waits(b, s, i, n) ==
  LET e == Slot(b, s) IN
  TakesData(e) /\ e.mid = i[1] /\ e.id = i /\ e.len = n /\ e.data = <<>>

\* The entry it is for waits for it.
SlotOK(g) ==
  \A i \in Id, d \in Receiver, s \in WSID, n \in Nat :
    Delivers(g, i, d, s, n) => /\ d \in BANK => Waits(d, s, i, n)
                               /\ d = "ncq" => n = 1

\* A receiver awaits what the ports deliver to it, in the order of the grants.
Awaits(g, q, d) ==
  /\ \A k \in 1 .. Len(q) : \E s \in WSID, n \in Nat : Delivers(g, q[k], d, s, n)
  /\ \A i \in Id, s \in WSID, n \in Nat : Delivers(g, i, d, s, n) => \E k \in 1 .. Len(q) : q[k] = i
  /\ \A j, k \in 1 .. Len(q) : j < k => g.granted[q[j]] < g.granted[q[k]]

ReceiveOK(g) ==
  /\ \A b \in BANK :
       /\ Len(g.owed[b]) = Len(Awaited(b))
       /\ \A k \in 1 .. Len(Awaited(b)) : g.owed[b][k][1] = Awaited(b)[k]
       /\ Awaits(g, g.owed[b], b)
  /\ Awaits(g, woq, "ncq")

\* Who is overtaken: of each victim granted, at most one store handed over
\* before it; of each store, no victim.
Late(g, p, k, i) ==
  /\ g.handed[i] < g.handed[g.owner[p][k]]
  /\ \A j \in 1 .. k - 1 : g.owner[p][j] # i

OvertakenAt(g, p) ==
  \A k \in 1 .. Len(wd_sid_fifo[p]) :
    /\ wd_sid_fifo[p][k].wns =>
         \A i, j \in Stream(g, p, "ws") : Late(g, p, k, i) /\ Late(g, p, k, j) => i = j
    /\ ~wd_sid_fifo[p][k].wns => \A i \in Stream(g, p, "wns") : ~Late(g, p, k, i)

PortAt(g, p) ==
  /\ StreamAt(g, p) /\ BeatsAt(g, p) /\ BusAt(g, p) /\ RegisterAt(g, p)
  /\ GrantAt(g, p) /\ PackAt(g, p) /\ OvertakenAt(g, p)

PortsOK(g) == StampOK(g) /\ \A p \in CORE : PortAt(g, p)

\* What a bank has granted but not made an entry of is what it awaits last.
LastOK(g) ==
  \A b \in BANK :
    crt[b] # NONE /\ TakesData(crt[b].entry) =>
      g.owed[b][Len(g.owed[b])] = crt[b].entry.id

LedgerOK(g) == PortsOK(g) /\ SlotOK(g) /\ ReceiveOK(g) /\ LastOK(g)

\* There is such an account.
Accounted == \E g \in Ledger : LedgerOK(g)

\* Snoop data goes to banks only.
CdOK == \A p \in CORE : pkb[p] # NONE /\ pkb[p].cd => pkb[p].dest \in BANK

DataInv == Inv /\ CdOK /\ DataMeetsRequest /\ Accounted

\* The fields of an account.
LEMMA LedgerFields ==
  ASSUME NEW g \in Ledger
  PROVE  /\ g.owner \in [CORE -> Seq(Id)] /\ g.owed \in [BANK -> Seq(Id)]
         /\ g.due \subseteq Id /\ g.now \in Nat /\ g.class \in [Id -> CLASS]
         /\ g.from \in [Id -> Nat] /\ g.to \in [Id -> Nat]
         /\ g.handed \in [Id -> Nat] /\ g.granted \in [Id -> Nat]
         /\ g.packed \in [CORE -> [CLASS -> Nat]] /\ g.total \in [CORE -> [CLASS -> Nat]]
BY DEF Ledger

\* The types of an account.
LEMMA LedgerTypes ==
  ASSUME NEW g \in Ledger
  PROVE  /\ g.due \subseteq Id /\ g.now \in Nat
         /\ \A i \in Id : /\ i[1] \in CORE /\ g.class[i] \in CLASS
                          /\ g.from[i] \in Nat /\ g.to[i] \in Nat
                          /\ g.handed[i] \in Nat /\ g.granted[i] \in Nat
         /\ \A p \in CORE : /\ g.owner[p] \in Seq(Id) /\ Len(g.owner[p]) \in Nat
                            /\ \A k \in 1 .. Len(g.owner[p]) : g.owner[p][k] \in Id
         /\ \A p \in CORE, c \in CLASS : g.packed[p][c] \in Nat /\ g.total[p][c] \in Nat
         /\ \A b \in BANK : /\ g.owed[b] \in Seq(Id) /\ Len(g.owed[b]) \in Nat
                            /\ \A k \in 1 .. Len(g.owed[b]) : g.owed[b][k] \in Id
<1>1. \A q \in Seq(Id) : Len(q) \in Nat /\ \A k \in 1 .. Len(q) : q[k] \in Id
  OBVIOUS
<1>2. \A i \in Id : i[1] \in CORE
  BY DEF Id
<1> QED
  BY <1>1, <1>2, LedgerFields

\* The types of a port's queues.
LEMMA PortTypes ==
  ASSUME PortTypeOK, NEW p \in CORE
  PROVE  /\ \A c \in CLASS : /\ Beats(p, c) \in Seq(Beat) /\ Len(Beats(p, c)) \in Nat
                             /\ \A k \in 1 .. Len(Beats(p, c)) : Beats(p, c)[k] \in Beat
                             /\ Register(p, c) \in Request \cup {NONE}
         /\ bus_arb_w_fifo[p] \in Seq(Order) /\ Len(bus_arb_w_fifo[p]) \in Nat
         /\ \A k \in 1 .. Len(bus_arb_w_fifo[p]) : bus_arb_w_fifo[p][k] \in Order
         /\ wd_sid_fifo[p] \in Seq(SidEntry) /\ Len(wd_sid_fifo[p]) \in Nat
         /\ \A k \in 1 .. Len(wd_sid_fifo[p]) : wd_sid_fifo[p][k] \in SidEntry
         /\ pkb[p] \in Package \cup {NONE}
<1>1. \A S : \A q \in Seq(S) : Len(q) \in Nat /\ \A k \in 1 .. Len(q) : q[k] \in S
  OBVIOUS
<1>2. /\ wd_wns_dfifo[p] \in Seq(Beat) /\ wd_ws_dfifo[p] \in Seq(Beat)
      /\ wns_dfifo[p] \in Request \cup {NONE} /\ ws_dfifo[p] \in Request \cup {NONE}
      /\ bus_arb_w_fifo[p] \in Seq(Order) /\ wd_sid_fifo[p] \in Seq(SidEntry)
      /\ pkb[p] \in Package \cup {NONE}
  BY DEF PortTypeOK
<1>3. ASSUME NEW c \in CLASS
      PROVE  Beats(p, c) \in Seq(Beat) /\ Register(p, c) \in Request \cup {NONE}
  BY <1>2 DEF Beats, Register
<1> QED
  BY <1>1, <1>2, <1>3

\* A write is of one of the two classes.
LEMMA ClassType == \A w : ClassOf(w) \in CLASS
BY DEF ClassOf, CLASS

\* Of a write in a stream all is known that an account says.
LEMMA StreamType ==
  ASSUME NEW g \in Ledger, NEW p, NEW c, NEW i \in Stream(g, p, c)
  PROVE  /\ i \in Id /\ i \in g.due /\ i[1] = p /\ g.class[i] = c
         /\ g.from[i] \in Nat /\ g.to[i] \in Nat /\ g.handed[i] \in Nat /\ g.granted[i] \in Nat
BY LedgerTypes DEF Stream

-----------------------------------------------------------------------------
(***************************************************************************)
(* Steps that move no write data: the account stays as it is.              *)
(***************************************************************************)

\* A package buffer stays, or holds no write data before and after.
PackSameAt(p) ==
  \/ pkb'[p] = pkb[p]
  \/ ~HalfWay(p) /\ ~Ready(p) /\ ~HalfWay(p)' /\ ~Ready(p)'
PackSame == \A p \in CORE : PackSameAt(p)

\* The queues and registers of a port stay.
PortStays(p) ==
  /\ bus_arb_w_fifo'[p] = bus_arb_w_fifo[p] /\ wd_sid_fifo'[p] = wd_sid_fifo[p]
  /\ ws_dfifo'[p] = ws_dfifo[p] /\ wns_dfifo'[p] = wns_dfifo[p]
  /\ wd_ws_dfifo'[p] = wd_ws_dfifo[p] /\ wd_wns_dfifo'[p] = wd_wns_dfifo[p]
  /\ PackSameAt(p)

\* Two accounts say the same of a core.
SameFor(g, h, p) ==
  /\ h.owner[p] = g.owner[p] /\ h.packed[p] = g.packed[p] /\ h.total[p] = g.total[p]
  /\ \A i \in Id : i[1] = p =>
       /\ i \in h.due <=> i \in g.due
       /\ h.class[i] = g.class[i] /\ h.from[i] = g.from[i] /\ h.to[i] = g.to[i]
       /\ h.handed[i] = g.handed[i] /\ h.granted[i] = g.granted[i]

\* What is read of a package buffer that stays stays too.
LEMMA PackSameParts ==
  ASSUME NEW p \in CORE, PackSameAt(p)
  PROVE  /\ HalfWay(p)' <=> HalfWay(p)
         /\ Ready(p)' <=> Ready(p)
         /\ HalfWay(p) \/ Ready(p) => pkb'[p] = pkb[p]
         /\ Packet(p)' = Packet(p) \/ ~Ready(p)
BY DEF PackSameAt, HalfWay, Ready, Filling, Packet

\* Who is overtaken is a matter of the account, of wd_sid_fifo and of what is
\* still to be packed.
LEMMA OvertakenKept ==
  ASSUME NEW g, NEW h, NEW p, OvertakenAt(g, p),
         wd_sid_fifo'[p] = wd_sid_fifo[p], h.owner[p] = g.owner[p], h.handed = g.handed,
         \A c : Stream(h, p, c)' = Stream(g, p, c)
  PROVE  OvertakenAt(h, p)'
<1>1. \A k, i : Late(h, p, k, i) <=> Late(g, p, k, i)
  BY DEF Late
<1>2. PICK q : q = wd_sid_fifo[p]
  OBVIOUS
<1>3. PICK a, b : a = Stream(g, p, "ws") /\ b = Stream(g, p, "wns")
  OBVIOUS
<1>4. ASSUME NEW k \in 1 .. Len(q)
      PROVE  /\ q[k].wns => \A i, j \in a : Late(h, p, k, i) /\ Late(h, p, k, j) => i = j
             /\ ~q[k].wns => \A i \in b : ~Late(h, p, k, i)
  BY <1>1, <1>2, <1>3, <1>4 DEF OvertakenAt
<1> QED
  BY <1>2, <1>3, <1>4 DEF OvertakenAt, Late

\* A port that stays keeps what an account says of it.
LEMMA PortKept ==
  ASSUME NEW g \in Ledger, NEW h \in Ledger, NEW p \in CORE, PortAt(g, p),
         SameFor(g, h, p), g.now <= h.now, PortStays(p), PortTypeOK
  PROVE  PortAt(h, p)'
<1>1. \A c : Beats(p, c)' = Beats(p, c) /\ Register(p, c)' = Register(p, c)
  BY DEF Beats, Register, PortStays
<1>2. \A c : Stream(h, p, c) = Stream(g, p, c)
  BY LedgerTypes DEF Stream, SameFor
<1>3. \A c : \A i \in Stream(g, p, c) :
        /\ h.from[i] = g.from[i] /\ h.to[i] = g.to[i]
        /\ h.handed[i] = g.handed[i] /\ h.granted[i] = g.granted[i]
  BY StreamType DEF SameFor
<1>4. /\ \A c : Stream(h, p, c)' = Stream(g, p, c) /\ Sent(h, p, c)' = Sent(g, p, c)
      /\ h.owner[p] = g.owner[p] /\ h.packed[p] = g.packed[p] /\ h.total[p] = g.total[p]
  BY <1>1, <1>2 DEF Stream, Sent, SameFor
<1>5. /\ bus_arb_w_fifo'[p] = bus_arb_w_fifo[p] /\ wd_sid_fifo'[p] = wd_sid_fifo[p]
  BY DEF PortStays
<1>6. StreamAt(h, p)'
  BY <1>3, <1>4 DEF PortAt, StreamAt
<1>7. BeatsAt(h, p)'
  BY <1>1, <1>3, <1>4 DEF PortAt, BeatsAt, BeatOK
<1>8. BusAt(h, p)'
  <2>1. PICK q : q = bus_arb_w_fifo[p]
    OBVIOUS
  <2>2. \A k \in 1 .. Len(q) : OrderOK(h, p, q[k])'
    <3>1. ASSUME NEW k \in 1 .. Len(q) PROVE OrderOK(h, p, q[k])'
      <4>1. OrderOK(g, p, q[k])
        BY <2>1 DEF PortAt, BusAt
      <4> QED
        BY <1>3, <1>4, <4>1 DEF OrderOK
    <3> QED
      BY <3>1
  <2>3. /\ \A k \in 1 .. Len(q) : \E c : q[k].id \in Stream(g, p, c)
        /\ \A j, k \in 1 .. Len(q) : j < k => g.handed[q[j].id] < g.handed[q[k].id]
    BY <2>1 DEF PortAt, BusAt, OrderOK
  <2>4. \A j, k \in 1 .. Len(q) : j < k => h.handed[q[j].id] < h.handed[q[k].id]
    BY <1>3, <2>3
  <2>5. \A c \in CLASS : \A i \in Stream(g, p, c) :
          Sent(g, p, c) < g.to[i] => \E k \in 1 .. Len(q) : q[k].id = i
    BY <2>1 DEF PortAt, BusAt
  <2>6. \A c \in CLASS : \A i \in Stream(h, p, c)' :
          Sent(h, p, c)' < h.to[i] => \E k \in 1 .. Len(q) : q[k].id = i
    BY <1>3, <1>4, <2>5
  <2> QED
    BY <1>5, <2>1, <2>2, <2>4, <2>6 DEF BusAt, OrderOK
<1>9. RegisterAt(h, p)'
  BY <1>1, <1>3, <1>4 DEF PortAt, RegisterAt, HasData
<1>10. /\ Len(g.owner[p]) = Len(wd_sid_fifo[p])
       /\ \A k \in 1 .. Len(g.owner[p]) :
            LET i == g.owner[p][k] IN
            /\ i \in Stream(g, p, ClassOf(wd_sid_fifo[p][k].wns))
            /\ g.granted[i] < g.now
            /\ g.granted[i] \in Nat /\ h.granted[i] = g.granted[i]
            /\ h.handed[i] = g.handed[i]
  <2>1. GrantAt(g, p)
    BY DEF PortAt
  <2> QED
    BY <1>3, <2>1, StreamType DEF GrantAt
<1>11. GrantAt(h, p)'
  <2>1. \A k \in 1 .. Len(g.owner[p]) : h.granted[g.owner[p][k]] < h.now
    BY <1>10, LedgerTypes
  <2>2. \A c \in CLASS : \A i \in Stream(g, p, c) :
          \/ \E k \in 1 .. Len(wd_sid_fifo[p]) : g.owner[p][k] = i
          \/ HasData(Register(p, c)) /\ Register(p, c).id = i
    BY DEF PortAt, GrantAt
  <2>3. \A j, k \in 1 .. Len(g.owner[p]) :
          j < k => /\ g.granted[g.owner[p][j]] < g.granted[g.owner[p][k]]
                   /\ wd_sid_fifo[p][j].wns = wd_sid_fifo[p][k].wns =>
                        g.handed[g.owner[p][j]] < g.handed[g.owner[p][k]]
    BY <1>10 DEF PortAt, GrantAt
  <2>4. \A j, k \in 1 .. Len(g.owner[p]) :
          j < k => /\ h.granted[g.owner[p][j]] < h.granted[g.owner[p][k]]
                   /\ wd_sid_fifo[p][j].wns = wd_sid_fifo[p][k].wns =>
                        h.handed[g.owner[p][j]] < h.handed[g.owner[p][k]]
    BY <1>10, <2>3
  <2>5. \A c \in CLASS : HasData(Register(p, c)) =>
          \A k \in 1 .. Len(wd_sid_fifo[p]) : g.owner[p][k] # Register(p, c).id
    BY DEF PortAt, GrantAt
  <2> QED
    BY <1>1, <1>4, <1>5, <1>10, <2>1, <2>2, <2>4, <2>5 DEF GrantAt, HasData
<1>12. PackAt(h, p)'
  <2>1. /\ HalfWay(p)' => HalfWay(p) /\ pkb'[p] = pkb[p]
        /\ Ready(p)' => Ready(p) /\ pkb'[p] = pkb[p] /\ Packet(p)' = Packet(p)
        /\ HalfWay(p) => HalfWay(p)'
    BY PackSameParts DEF PortStays
  <2>2. PackAt(g, p)
    BY DEF PortAt
  <2>3. ASSUME HalfWay(p)'
        PROVE  LET w == wd_sid_fifo[p][1]
                   i == g.owner[p][1]
                   c == ClassOf(w.wns) IN
               /\ wd_sid_fifo[p] # <<>> /\ pkb'[p].dest = w.dest /\ pkb'[p].sid = w.sid
               /\ h.from[i] < g.packed[p][c]
               /\ AllOf(pkb'[p].data, g.packed[p][c] - h.from[i], i)
    <3>1. HalfWay(p) /\ pkb'[p] = pkb[p]
      BY <2>1, <2>3
    <3>2. LET w == wd_sid_fifo[p][1]
              i == g.owner[p][1]
              c == ClassOf(w.wns) IN
          /\ wd_sid_fifo[p] # <<>> /\ pkb[p].dest = w.dest /\ pkb[p].sid = w.sid
          /\ g.from[i] < g.packed[p][c]
          /\ AllOf(pkb[p].data, g.packed[p][c] - g.from[i], i)
      BY <2>2, <3>1 DEF PackAt
    <3>3. h.from[g.owner[p][1]] = g.from[g.owner[p][1]]
      <4>1. wd_sid_fifo[p] # <<>> /\ wd_sid_fifo[p] \in Seq(SidEntry)
        BY <3>2, PortTypes
      <4>2. 1 \in 1 .. Len(g.owner[p])
        BY <1>10, <4>1
      <4> QED
        BY <1>3, <1>10, <4>2
    <3> QED
      BY <3>1, <3>2, <3>3, Zenon
  <2>4. ASSUME Ready(p)'
        PROVE  LET i == Packet(p) IN
               /\ i \in Id /\ i[1] = p /\ i \notin h.due
               /\ Len(pkb'[p].data) > 0
               /\ AllOf(pkb'[p].data, Len(pkb'[p].data), i)
               /\ h.granted[i] < h.now
               /\ \A k \in 1 .. Len(g.owner[p]) : h.granted[i] < h.granted[g.owner[p][k]]
    <3>1. Ready(p) /\ pkb'[p] = pkb[p]
      BY <2>1, <2>4
    <3>2. LET i == Packet(p) IN
          /\ i \in Id /\ i[1] = p /\ i \notin g.due
          /\ Len(pkb[p].data) > 0
          /\ AllOf(pkb[p].data, Len(pkb[p].data), i)
          /\ g.granted[i] < g.now
          /\ \A k \in 1 .. Len(g.owner[p]) : g.granted[i] < g.granted[g.owner[p][k]]
      BY <2>2, <3>1 DEF PackAt
    <3>3. LET i == Packet(p) IN h.granted[i] = g.granted[i] /\ (i \in h.due <=> i \in g.due)
      BY <3>2 DEF SameFor
    <3>4. h.granted[Packet(p)] < h.now
      BY <3>2, <3>3, LedgerTypes
    <3>5. \A k \in 1 .. Len(g.owner[p]) : h.granted[Packet(p)] < h.granted[g.owner[p][k]]
      BY <1>10, <3>2, <3>3
    <3>6. /\ Len(pkb'[p].data) > 0
          /\ AllOf(pkb'[p].data, Len(pkb'[p].data), Packet(p))
      BY <3>1, <3>2, Zenon
    <3> QED
      BY <3>2, <3>3, <3>4, <3>5, <3>6, Zenon
  <2>5. \A c \in CLASS : \A i \in Stream(g, p, c) :
          g.packed[p][c] <= h.from[i] \/ (HalfWay(p)' /\ g.owner[p][1] = i)
    BY <1>3, <2>1, <2>2 DEF PackAt
  <2>6. Ready(p)' => Packet(p)' = Packet(p)
    BY <2>1
  <2> QED
    BY <1>4, <1>5, <2>3, <2>4, <2>5, <2>6 DEF PackAt
<1>13. OvertakenAt(h, p)'
  BY <1>3, <1>4, <1>5, <1>10 DEF PortAt, OvertakenAt, Late
<1> QED
  BY <1>6, <1>7, <1>8, <1>9, <1>11, <1>12, <1>13 DEF PortAt

\* So do all ports.
LEMMA PortsKept ==
  ASSUME NEW g \in Ledger, PortsOK(g), PackSame, PortTypeOK,
         UNCHANGED <<bus_arb_w_fifo, aw, wd_sid_fifo, wd>>
  PROVE  PortsOK(g)'
<1>1. ASSUME NEW p \in CORE PROVE PortAt(g, p)'
  <2>1. PortStays(p)
    BY DEF PortStays, PackSame, aw, wd
  <2>2. SameFor(g, g, p) /\ g.now <= g.now
    BY LedgerTypes DEF SameFor
  <2> QED
    BY <2>1, <2>2, PortKept DEF PortsOK
<1>2. StampOK(g)'
  BY DEF PortsOK, StampOK
<1> QED
  BY <1>1, <1>2 DEF PortsOK

\* What a port that stays has to deliver.
LEMMA DeliversSame ==
  ASSUME NEW g, NEW h, NEW i \in Id, NEW d, NEW s, NEW n,
         SameFor(g, h, i[1]), PackSameAt(i[1]), wd_sid_fifo'[i[1]] = wd_sid_fifo[i[1]]
  PROVE  Delivers(h, i, d, s, n)' <=> Delivers(g, i, d, s, n)
<1> DEFINE p == i[1]
<1>1. p \in CORE
  BY DEF Id
<1>2. /\ h.owner[p] = g.owner[p] /\ h.to[i] = g.to[i] /\ h.from[i] = g.from[i]
      /\ wd_sid_fifo'[p] = wd_sid_fifo[p]
  BY DEF SameFor
<1> HIDE DEF p
<1>3. /\ Ready(p)' <=> Ready(p)
      /\ Ready(p) => pkb'[p] = pkb[p] /\ Packet(p)' = Packet(p)
  BY <1>1, PackSameParts DEF p
<1> QED
  BY <1>2, <1>3 DEF Delivers, p

\* Receivers for which nothing changes but entries that wait for no data.
LEMMA ReceiversKept ==
  ASSUME NEW g \in Ledger, NEW h \in Ledger, SlotOK(g), ReceiveOK(g),
         \A i \in Id : \A d, s, n : Delivers(h, i, d, s, n)' <=> Delivers(g, i, d, s, n),
         \A i \in Id : h.granted[i] = g.granted[i],
         h.owed = g.owed, woq' = woq, woq \in Seq(Id),
         \A b \in BANK, s \in WSID :
           TakesData(Slot(b, s)) /\ Slot(b, s).data = <<>> => Slot(b, s)' = Slot(b, s),
         \A b \in BANK : Awaited(b)' = Awaited(b)
  PROVE  SlotOK(h)' /\ ReceiveOK(h)'
<1>1. SlotOK(h)'
  <2> SUFFICES ASSUME NEW i \in Id, NEW d \in Receiver, NEW s \in WSID, NEW n \in Nat,
                      Delivers(h, i, d, s, n)'
               PROVE  /\ d \in BANK => Waits(d, s, i, n)'
                      /\ d = "ncq" => n = 1
    BY DEF SlotOK
  <2>1. /\ d \in BANK => Waits(d, s, i, n)
        /\ d = "ncq" => n = 1
    BY DEF SlotOK
  <2>2. d \in BANK => Waits(d, s, i, n)'
    BY <2>1 DEF Waits, TakesData
  <2> QED
    BY <2>1, <2>2
<1>2. ASSUME NEW d, NEW q, \A k \in 1 .. Len(q) : q[k] \in Id, Awaits(g, q, d)
      PROVE  Awaits(h, q, d)'
  BY <1>2 DEF Awaits
<1>3. \A b \in BANK : Awaits(h, h.owed[b], b)'
  BY <1>2, LedgerTypes DEF ReceiveOK
<1>4. Awaits(h, woq, "ncq")'
  <2>1. \A k \in 1 .. Len(woq) : woq[k] \in Id
    OBVIOUS
  <2>2. PICK q : q = woq
    OBVIOUS
  <2>3. Awaits(h, q, "ncq")'
    BY <1>2, <2>1, <2>2 DEF ReceiveOK
  <2>4. woq' = q
    BY <2>2
  <2> QED
    BY <2>3, <2>4 DEF Awaits
<1>5. ReceiveOK(h)'
  <2>1. \A b \in BANK : /\ Len(g.owed[b]) = Len(Awaited(b))
                        /\ \A k \in 1 .. Len(Awaited(b)) : g.owed[b][k][1] = Awaited(b)[k]
    BY DEF ReceiveOK
  <2> QED
    BY <1>3, <1>4, <2>1 DEF ReceiveOK
<1> QED
  BY <1>1, <1>5

\* Banks that keep the entries that wait for data, and what they await.
LEMMA BankKept ==
  ASSUME NEW g \in Ledger, SlotOK(g), ReceiveOK(g), PackSame,
         UNCHANGED <<wd_sid_fifo, woq>>, woq \in Seq(Id),
         \A b \in BANK, s \in WSID :
           TakesData(Slot(b, s)) /\ Slot(b, s).data = <<>> => Slot(b, s)' = Slot(b, s),
         \A b \in BANK : Awaited(b)' = Awaited(b)
  PROVE  SlotOK(g)' /\ ReceiveOK(g)'
<1>1. \A i \in Id : \A d, s, n : Delivers(g, i, d, s, n)' <=> Delivers(g, i, d, s, n)
  <2> TAKE i \in Id
  <2>1. SameFor(g, g, i[1]) /\ i[1] \in CORE
    BY LedgerTypes DEF SameFor
  <2> QED
    BY <2>1, DeliversSame DEF PackSame
<1> QED
  BY <1>1, ReceiversKept

\* The create register becomes an entry: what was on its way is there.
LEMMA CreateSlots ==
  ASSUME BankOK, NEW b \in BANK, NEW next \in Create \cup {NONE}, CreateEntry(b, next)
  PROVE  /\ \A c \in BANK, s \in WSID :
              Slot(c, s)' = IF c = b /\ next # NONE /\ next.sid = s THEN next.entry ELSE Slot(c, s)
         /\ \A c \in BANK :
              Awaited(c)' = IF c = b /\ next # NONE /\ TakesData(next.entry)
                            THEN Append(Awaited(b), next.entry.mid) ELSE Awaited(c)
<1>1. /\ crt' = [crt EXCEPT ![b] = next] /\ crt \in [BANK -> Create \cup {NONE}]
      /\ wd_sel_fifo \in [BANK -> Seq(CORE)] /\ sab \in [BANK -> [WSID -> Entry]]
  BY DEF CreateEntry, BankOK, BankTypeOK, Create
<1>2. \A c \in BANK : crt'[c] = IF c = b THEN next ELSE crt[c]
  BY <1>1
<1>3. ASSUME NEW c \in BANK, NEW s \in WSID
      PROVE  sab'[c][s] = IF c = b /\ crt[b] # NONE /\ s = crt[b].sid
                          THEN crt[b].entry ELSE sab[c][s]
  <2>1. CASE crt[b] = NONE
    BY <2>1 DEF CreateEntry
  <2>2. CASE crt[b] # NONE
    <3>1. crt[b].sid \in WSID /\ crt[b].entry \in Entry
      BY <1>1, <2>2 DEF Create
    <3>2. sab' = [sab EXCEPT ![b][crt[b].sid] = crt[b].entry]
      BY <2>2 DEF CreateEntry
    <3> QED
      BY <1>1, <2>2, <3>1, <3>2, SetEntry
  <2> QED
    BY <2>1, <2>2
<1>4. \A c \in BANK, s \in WSID :
        Slot(c, s)' = IF c = b /\ next # NONE /\ next.sid = s THEN next.entry ELSE Slot(c, s)
  BY <1>2, <1>3 DEF Slot
<1>5. ASSUME NEW c \in BANK
      PROVE  wd_sel_fifo'[c] = IF c = b THEN Awaited(b) ELSE wd_sel_fifo[c]
  <2>1. CASE crt[b] = NONE
    BY <2>1 DEF CreateEntry, Awaited
  <2>2. CASE crt[b] # NONE
    BY <1>1, <2>2 DEF CreateEntry, Awaited, SelCreate
  <2> QED
    BY <2>1, <2>2
<1>6. ASSUME NEW c \in BANK
      PROVE  Awaited(c)' = IF c = b /\ next # NONE /\ TakesData(next.entry)
                           THEN Append(Awaited(b), next.entry.mid) ELSE Awaited(c)
  <2>1. Awaited(c) = IF crt[c] = NONE THEN wd_sel_fifo[c]
                     ELSE IF TakesData(crt[c].entry)
                          THEN Append(wd_sel_fifo[c], crt[c].entry.mid) ELSE wd_sel_fifo[c]
    BY <1>1 DEF Awaited, SelCreate
  <2>2. wd_sel_fifo' \in [BANK -> Seq(CORE)]
    BY CreateEntryType DEF BankOK, CreateOK, BankTypeOK
  <2>3. Awaited(c)' = IF crt'[c] = NONE THEN wd_sel_fifo'[c]
                      ELSE IF TakesData(crt'[c].entry)
                           THEN Append(wd_sel_fifo'[c], crt'[c].entry.mid) ELSE wd_sel_fifo'[c]
    BY <2>2 DEF Awaited, SelCreate, TakesData
  <2>4. CASE c = b
    BY <1>2, <1>5, <2>3, <2>4 DEF TakesData
  <2>5. CASE c # b
    BY <1>2, <1>5, <2>1, <2>3, <2>5
  <2> QED
    BY <2>4, <2>5
<1> QED
  BY <1>4, <1>6

\* No grant for data comes to a create register, and the account of what is
\* owed stays.
LEMMA LastKept ==
  ASSUME NEW g, NEW h, LastOK(g), h.owed = g.owed,
         \A b \in BANK : crt'[b] # NONE /\ TakesData(crt'[b].entry) => crt'[b] = crt[b]
  PROVE  LastOK(h)'
BY DEF LastOK, TakesData

\* The steps of a bank.
LEMMA BankStepLedger ==
  ASSUME Inv, NEW g \in Ledger, LedgerOK(g), NEW b \in BANK, BankStep(b)
  PROVE  LedgerOK(g)'
<1>1. UNCHANGED <<bus_arb_w_fifo, aw, wd_sid_fifo, wd, cd, pkb, ncq>>
  BY DEF BankStep, AwCreate, SnbBarGrant, Complete
<1>2. PackSame /\ UNCHANGED <<wd_sid_fifo, woq>> /\ woq \in Seq(Id)
  BY <1>1 DEF PackSame, PackSameAt, ncq, Inv, TypeOK, NcqTypeOK
<1>3. PortsOK(g)'
  BY <1>1, <1>2, PortsKept DEF LedgerOK, Inv, TypeOK
<1>4. BankOK /\ BankTypeOK
  BY DEF Inv, TypeOK, BankOK
<1>5. /\ \A c \in BANK, s \in WSID :
           TakesData(Slot(c, s)) /\ Slot(c, s).data = <<>> => Slot(c, s)' = Slot(c, s)
      /\ \A c \in BANK : Awaited(c)' = Awaited(c)
  <2>1. CASE AwCreate(b)
    <3>1. CreateEntry(b, NONE)
      BY <2>1 DEF AwCreate
    <3>2. \A c \in BANK, s \in WSID : Slot(c, s)' = Slot(c, s)
      BY <1>4, <3>1, CreateSlots
    <3>3. \A c \in BANK : Awaited(c)' = Awaited(c)
      BY <1>4, <3>1, CreateSlots
    <3> QED
      BY <3>2, <3>3
  <2>2. CASE SnbBarGrant(b)
    <3> DEFINE next == [sid |-> sab_create1_ptr(b), entry |-> [IdleEntry EXCEPT !.kind = "bar"]]
    <3>1. sab_create1_ptr(b) \in WSID \ sab_wentry_vld(b)
      BY <2>2, FreeEntry DEF SnbBarGrant
    <3>2. next.entry.kind = "bar" /\ next.sid = sab_create1_ptr(b)
      BY DEF IdleEntry
    <3>3. next \in Create /\ CreateEntry(b, next)
      BY <2>2, <3>1, IdleType DEF SnbBarGrant, Create
    <3> HIDE DEF next
    <3>4. ~TakesData(next.entry)
      BY <3>2 DEF TakesData
    <3>5. ~TakesData(Slot(b, next.sid))
      BY <3>1, <3>2 DEF Slot, sab_wentry_vld, TakesData
    <3>6. \A c \in BANK : Awaited(c)' = Awaited(c)
      BY <1>4, <3>3, <3>4, CreateSlots
    <3>7. \A c \in BANK, s \in WSID :
            Slot(c, s)' = IF c = b /\ next # NONE /\ next.sid = s THEN next.entry ELSE Slot(c, s)
      BY <1>4, <3>3, CreateSlots
    <3> QED
      BY <3>5, <3>6, <3>7
  <2>3. ASSUME NEW s \in WSID, Complete(b, s)
        PROVE  /\ \A c \in BANK, t \in WSID :
                    TakesData(Slot(c, t)) /\ Slot(c, t).data = <<>> => Slot(c, t)' = Slot(c, t)
               /\ \A c \in BANK : Awaited(c)' = Awaited(c)
    <3>1. \A c \in BANK, t \in WSID :
            sab'[c][t] = IF c = b /\ t = s THEN IdleEntry ELSE sab[c][t]
      BY <1>4, <2>3, IdleType, SetEntry DEF Complete, BankTypeOK
    <3>2. crt' = crt /\ wd_sel_fifo' = wd_sel_fifo
      BY <2>3 DEF Complete
    <3>3. TakesData(sab[b][s]) => sab[b][s].data # <<>>
      BY <2>3 DEF Complete
    <3>4. \A c \in BANK : Awaited(c)' = Awaited(c)
      BY <3>2 DEF Awaited, SelCreate, TakesData
    <3> QED
      BY <3>1, <3>2, <3>3, <3>4 DEF Slot
  <2> QED
    BY <2>1, <2>2, <2>3 DEF BankStep
<1>6. SlotOK(g)' /\ ReceiveOK(g)'
  BY <1>2, <1>5, BankKept DEF LedgerOK
<1>7. LastOK(g)'
  <2>1. crt \in [BANK -> Create \cup {NONE}]
    BY <1>4 DEF BankTypeOK, Create
  <2>2. \A c \in BANK : crt'[c] # NONE /\ TakesData(crt'[c].entry) => crt'[c] = crt[c]
    <3>1. CASE AwCreate(b)
      BY <2>1, <3>1 DEF AwCreate, CreateEntry
    <3>2. CASE SnbBarGrant(b)
      <4> DEFINE bar == [sid |-> sab_create1_ptr(b), entry |-> [IdleEntry EXCEPT !.kind = "bar"]]
      <4>1. ~TakesData(bar.entry)
        BY DEF TakesData, IdleEntry
      <4> HIDE DEF bar
      <4>2. crt' = [crt EXCEPT ![b] = bar]
        BY <3>2 DEF SnbBarGrant, CreateEntry, bar
      <4> QED
        BY <2>1, <4>1, <4>2
    <3>3. CASE \E s \in WSID : Complete(b, s)
      BY <3>3 DEF Complete
    <3> QED
      BY <3>1, <3>2, <3>3 DEF BankStep
  <2> QED
    BY <2>2, LastKept DEF LedgerOK
<1>8. LedgerOK(g)' <=> PortsOK(g)' /\ SlotOK(g)' /\ ReceiveOK(g)' /\ LastOK(g)'
  BY DEF LedgerOK, PortsOK
<1> QED
  BY <1>3, <1>6, <1>7, <1>8

\* Snoop data, and the bus taking writes from the NCQ, change nothing that
\* the account is about.
LEMMA QuietLedger ==
  ASSUME Inv, NEW g \in Ledger, LedgerOK(g), PackSame,
         UNCHANGED <<bus_arb_w_fifo, aw, wd_sid_fifo, wd, snb, woq>>
  PROVE  LedgerOK(g)'
<1>1. PortsOK(g)'
  BY PortsKept DEF LedgerOK, Inv, TypeOK
<1>2. \A b, s : Slot(b, s)' = Slot(b, s)
  BY DEF Slot, snb
<1>3. \A b : Awaited(b)' = Awaited(b)
  BY DEF Awaited, SelCreate, TakesData, snb
<1>4. woq \in Seq(Id) /\ UNCHANGED <<wd_sid_fifo, woq>>
  BY DEF Inv, TypeOK, NcqTypeOK
<1>5. SlotOK(g)' /\ ReceiveOK(g)'
  BY <1>2, <1>3, <1>4, BankKept DEF LedgerOK
<1>6. LastOK(g)'
  BY LastKept DEF LedgerOK, snb
<1>7. LedgerOK(g)' <=> PortsOK(g)' /\ SlotOK(g)' /\ ReceiveOK(g)' /\ LastOK(g)'
  BY DEF LedgerOK, PortsOK
<1> QED
  BY <1>1, <1>5, <1>6, <1>7

-----------------------------------------------------------------------------
(***************************************************************************)
(* The core sends a beat: the account stays as it is.                      *)
(***************************************************************************)

\* The beat the core sends is the next one of its class.
LEMMA NextBeat ==
  ASSUME Inv, NEW g \in Ledger, LedgerOK(g), NEW p \in CORE, bus_arb_w_fifo[p] # <<>>
  PROVE  LET w == bus_arb_w_fifo[p][1]
             sent == Sent(g, p, ClassOf(w.wns)) IN
         /\ w.id \in Stream(g, p, ClassOf(w.wns)) /\ sent \in Nat
         /\ g.from[w.id] <= sent /\ sent < g.to[w.id] /\ w.left = g.to[w.id] - sent
<1> DEFINE q == bus_arb_w_fifo[p]
           w == q[1]
           c == ClassOf(w.wns)
           sent == Sent(g, p, c)
<1>1. q \in Seq(Order) /\ Len(q) \in Nat /\ Len(q) > 0 /\ c \in CLASS
  BY PortTypes, ClassType DEF Inv, TypeOK
<1>2. g.packed[p][c] \in Nat /\ g.total[p][c] \in Nat /\ sent \in Nat /\ g.packed[p][c] <= sent
  BY <1>1, LedgerTypes, PortTypes DEF Sent, Inv, TypeOK
<1>3. /\ w.id \in Stream(g, p, c) /\ sent < g.to[w.id]
      /\ w.left = g.to[w.id] - (IF g.from[w.id] < sent THEN sent ELSE g.from[w.id])
  BY <1>1 DEF LedgerOK, PortsOK, PortAt, BusAt, OrderOK
<1>4. g.to[w.id] \in Nat /\ g.from[w.id] \in Nat /\ g.to[w.id] <= g.total[p][c]
  BY <1>1, <1>3, StreamType DEF LedgerOK, PortsOK, PortAt, StreamAt
<1>5. g.from[w.id] <= sent
  <2> SUFFICES ASSUME g.from[w.id] > sent PROVE FALSE
    BY <1>2, <1>4
  <2>1. sent + 1 \in g.packed[p][c] + 1 .. g.total[p][c]
    BY <1>2, <1>3, <1>4
  <2>2. PICK i \in Stream(g, p, c) : g.from[i] < sent + 1 /\ sent + 1 <= g.to[i]
    BY <1>1, <2>1 DEF LedgerOK, PortsOK, PortAt, StreamAt
  <2>3. g.from[i] \in Nat /\ g.to[i] \in Nat
    BY StreamType
  <2>4. i # w.id
    BY <1>2, <1>4, <2>2
  <2>5. PICK k \in 1 .. Len(q) : q[k].id = i
    BY <1>1, <1>2, <2>2, <2>3 DEF LedgerOK, PortsOK, PortAt, BusAt
  <2>6. g.handed[w.id] < g.handed[i]
    <3>1. 1 < k /\ 1 \in 1 .. Len(q)
      BY <1>1, <2>4, <2>5
    <3> QED
      BY <2>5, <3>1 DEF LedgerOK, PortsOK, PortAt, BusAt
  <2>7. g.to[w.id] <= g.from[i]
    BY <1>1, <1>3, <2>6 DEF LedgerOK, PortsOK, PortAt, StreamAt
  <2> QED
    BY <1>2, <1>3, <1>4, <2>2, <2>3, <2>7
<1> QED
  BY <1>2, <1>3, <1>4, <1>5

\* The words of a queue after one came or went.
LEMMA WordFacts ==
  ASSUME NEW S, NEW q \in Seq(S)
  PROVE  /\ \A e \in S : /\ Len(Append(q, e)) = Len(q) + 1
                         /\ Append(q, e)[Len(q) + 1] = e
                         /\ \A k \in 1 .. Len(q) : Append(q, e)[k] = q[k]
         /\ q # <<>> => /\ Len(q) > 0 /\ Head(q) = q[1]
                        /\ Len(Tail(q)) = Len(q) - 1
                        /\ \A k \in 1 .. Len(q) - 1 : Tail(q)[k] = q[k + 1]
         /\ \A e \in S : /\ Len([q EXCEPT ![1] = e]) = Len(q)
                         /\ \A k \in 1 .. Len(q) :
                              [q EXCEPT ![1] = e][k] = IF k = 1 THEN e ELSE q[k]
<1>1. \A e \in S : /\ Len(Append(q, e)) = Len(q) + 1
                  /\ Append(q, e)[Len(q) + 1] = e
                  /\ \A k \in 1 .. Len(q) : Append(q, e)[k] = q[k]
  OBVIOUS
<1>2. q # <<>> => /\ Len(q) > 0 /\ Head(q) = q[1]
                  /\ Len(Tail(q)) = Len(q) - 1
                  /\ \A k \in 1 .. Len(q) - 1 : Tail(q)[k] = q[k + 1]
  OBVIOUS
<1>3. ASSUME NEW e \in S
      PROVE  /\ Len([q EXCEPT ![1] = e]) = Len(q)
             /\ \A k \in 1 .. Len(q) :
                  [q EXCEPT ![1] = e][k] = IF k = 1 THEN e ELSE q[k]
  <2>1. DOMAIN q = 1 .. Len(q) /\ Len(q) \in Nat /\ q = [k \in 1 .. Len(q) |-> q[k]]
    OBVIOUS
  <2>2. DOMAIN [q EXCEPT ![1] = e] = 1 .. Len(q)
    BY <2>1
  <2>3. PICK r : r = [q EXCEPT ![1] = e]
    OBVIOUS
  <2>4. r \in Seq(S)
    <3>1. DOMAIN r = 1 .. Len(q) /\ \A k \in 1 .. Len(q) : r[k] \in S
      BY <2>1, <2>2, <2>3
    <3>2. r = [k \in 1 .. Len(q) |-> r[k]]
      BY <2>1, <2>3, <3>1
    <3> QED
      BY <2>1, <3>1, <3>2
  <2>5. DOMAIN r = 1 .. Len(r) /\ Len(r) \in Nat
    BY <2>4
  <2>6. Len(r) = Len(q)
    <3>1. 1 .. Len(r) = 1 .. Len(q)
      BY <2>2, <2>3, <2>5
    <3>2. \A m, n \in Nat : 1 .. m = 1 .. n => m = n
      <4> SUFFICES ASSUME NEW m \in Nat, NEW n \in Nat, 1 .. m = 1 .. n PROVE m = n
        OBVIOUS
      <4>1. m > 0 => m \in 1 .. n
        OBVIOUS
      <4>2. n > 0 => n \in 1 .. m
        OBVIOUS
      <4> QED
        BY <4>1, <4>2
    <3> QED
      BY <2>1, <2>5, <3>1, <3>2
  <2>7. \A k \in 1 .. Len(q) : r[k] = IF k = 1 THEN e ELSE q[k]
    BY <2>1, <2>3
  <2> QED
    BY <2>3, <2>6, <2>7
<1> QED
  BY <1>1, <1>2, <1>3

\* A write of a class other than the oldest in the core has all its beats after
\* those of the oldest.
LEMMA LaterWrite ==
  ASSUME NEW g \in Ledger, LedgerOK(g), NEW p \in CORE, NEW c \in CLASS,
         NEW k, 1 < k, k \in 1 .. Len(bus_arb_w_fifo[p]), Len(bus_arb_w_fifo[p]) \in Nat,
         ClassOf(bus_arb_w_fifo[p][1].wns) = c, ClassOf(bus_arb_w_fifo[p][k].wns) = c
  PROVE  g.to[bus_arb_w_fifo[p][1].id] <= g.from[bus_arb_w_fifo[p][k].id]
<1>1. 1 \in 1 .. Len(bus_arb_w_fifo[p])
  OBVIOUS
<1>2. /\ bus_arb_w_fifo[p][1].id \in Stream(g, p, c)
      /\ bus_arb_w_fifo[p][k].id \in Stream(g, p, c)
      /\ g.handed[bus_arb_w_fifo[p][1].id] < g.handed[bus_arb_w_fifo[p][k].id]
  BY <1>1 DEF LedgerOK, PortsOK, PortAt, BusAt, OrderOK
<1> QED
  BY <1>2 DEF LedgerOK, PortsOK, PortAt, StreamAt

\* With a beat sent the same account holds: the stream has moved by one.
LEMMA WBeatLedger ==
  ASSUME Inv, NEW g \in Ledger, LedgerOK(g), NEW p \in CORE, WBeat(p)
  PROVE  LedgerOK(g)'
<1>1. PICK q, c : q = bus_arb_w_fifo[p] /\ c = ClassOf(q[1].wns)
  OBVIOUS
<1>2. PICK off \in {0, 1} : off = 1 <=> q[1].left = 1
  OBVIOUS
<1>3. /\ q # <<>> /\ Len(q) \in Nat /\ Len(q) > 0 /\ c \in CLASS
      /\ Len(bus_arb_w_fifo'[p]) = Len(q) - off
      /\ \A k \in 1 .. Len(q) - off :
           /\ bus_arb_w_fifo'[p][k].id = q[k + off].id
           /\ bus_arb_w_fifo'[p][k].wns = q[k + off].wns
           /\ bus_arb_w_fifo'[p][k].left = IF off = 0 /\ k = 1 THEN q[1].left - 1
                                           ELSE q[k + off].left
      /\ \A r \in CORE : r # p => bus_arb_w_fifo'[r] = bus_arb_w_fifo[r]
      /\ Beats(p, c)' = Append(Beats(p, c), [id |-> q[1].id, last |-> q[1].left = 1])
      /\ \A r \in CORE, d \in CLASS : r # p \/ d # c => Beats(r, d)' = Beats(r, d)
      /\ UNCHANGED <<aw, wd_sid_fifo, cd, pkb, snb, ncq>>
  <2> DEFINE w == q[1]
             beat == [id |-> w.id, last |-> w.left = 1]
  <2>1. q # <<>> /\ q \in Seq(Order) /\ Len(q) \in Nat /\ Len(q) > 0 /\ Head(q) = w
    BY <1>1, PortTypes DEF WBeat, Inv, TypeOK
  <2>2. bus_arb_w_fifo \in [CORE -> Seq(Order)]
    BY DEF Inv, TypeOK, PortTypeOK
  <2>3. bus_arb_w_fifo' = [bus_arb_w_fifo EXCEPT ![p] =
          IF w.left = 1 THEN Tail(@) ELSE [@ EXCEPT ![1].left = w.left - 1]]
    BY <1>1, <2>1 DEF WBeat
  <2>4. \A r \in CORE : r # p => bus_arb_w_fifo'[r] = bus_arb_w_fifo[r]
    BY <2>2, <2>3
  <2>5. /\ Len(bus_arb_w_fifo'[p]) = Len(q) - off
        /\ \A k \in 1 .. Len(q) - off :
             /\ bus_arb_w_fifo'[p][k].id = q[k + off].id
             /\ bus_arb_w_fifo'[p][k].wns = q[k + off].wns
             /\ bus_arb_w_fifo'[p][k].left = IF off = 0 /\ k = 1 THEN q[1].left - 1
                                             ELSE q[k + off].left
    <3>0. w \in Order /\ w.left \in 1 .. LINE_BEATS /\ LINE_BEATS \in Nat
      <4>1. w \in Order
        BY <2>1
      <4> HIDE DEF w
      <4> QED
        BY <4>1, Sizes DEF Order
    <3>1. CASE w.left = 1
      <4>1. bus_arb_w_fifo'[p] = Tail(q) /\ off = 1
        BY <1>1, <1>2, <2>2, <2>3, <3>1
      <4>2. Len(Tail(q)) = Len(q) - 1 /\ \A k \in 1 .. Len(q) - 1 : Tail(q)[k] = q[k + 1]
        BY <2>1, WordFacts
      <4>3. \A k \in 1 .. Len(q) - off : bus_arb_w_fifo'[p][k] = q[k + off]
        BY <2>1, <4>1, <4>2
      <4>4. Len(bus_arb_w_fifo'[p]) = Len(q) - off
        BY <2>1, <4>1, <4>2
      <4>5. off # 0
        BY <4>1
      <4> QED
        BY <4>3, <4>4, <4>5, Zenon
    <3>2. CASE w.left # 1
      <4> DEFINE v == [w EXCEPT !.left = w.left - 1]
      <4>1. v \in Order /\ v.id = w.id /\ v.wns = w.wns /\ v.left = w.left - 1
        BY <3>0, <3>2 DEF Order
      <4>2. bus_arb_w_fifo'[p] = [q EXCEPT ![1] = v] /\ off = 0
        BY <1>1, <1>2, <2>2, <2>3, <3>2
      <4> HIDE DEF v
      <4>3. /\ Len([q EXCEPT ![1] = v]) = Len(q)
            /\ \A k \in 1 .. Len(q) : [q EXCEPT ![1] = v][k] = IF k = 1 THEN v ELSE q[k]
        BY <2>1, <4>1, WordFacts
      <4>4. \A k \in 1 .. Len(q) - off :
              k + off = k /\ bus_arb_w_fifo'[p][k] = IF k = 1 THEN v ELSE q[k]
        BY <2>1, <4>2, <4>3
      <4>5. Len(bus_arb_w_fifo'[p]) = Len(q)
        BY <4>2, <4>3, Zenon
      <4>6. Len(bus_arb_w_fifo'[p]) = Len(q) - off
        <5>1. off = 0
          BY <4>2
        <5> QED
          BY <2>1, <4>5, <5>1
      <4>7. ASSUME NEW k \in 1 .. Len(q) - off
            PROVE  /\ bus_arb_w_fifo'[p][k].id = q[k + off].id
                   /\ bus_arb_w_fifo'[p][k].wns = q[k + off].wns
                   /\ bus_arb_w_fifo'[p][k].left = IF off = 0 /\ k = 1 THEN q[1].left - 1
                                                   ELSE q[k + off].left
        BY <4>1, <4>2, <4>4
      <4> QED
        BY <4>6, <4>7, Zenon
    <3> QED
      BY <3>1, <3>2
  <2>6. wd_wns_dfifo \in [CORE -> Seq(Beat)] /\ wd_ws_dfifo \in [CORE -> Seq(Beat)]
    BY DEF Inv, TypeOK, PortTypeOK
  <2>7. /\ Beats(p, c)' = Append(Beats(p, c), beat)
        /\ \A r \in CORE, d \in CLASS : r # p \/ d # c => Beats(r, d)' = Beats(r, d)
    <3> HIDE DEF beat
    <3>1. CASE w.wns
      <4>1. /\ wd_wns_dfifo' = [wd_wns_dfifo EXCEPT ![p] = Append(@, beat)]
            /\ wd_ws_dfifo' = wd_ws_dfifo
        BY <1>1, <2>1, <3>1 DEF WBeat, beat
      <4>2. c = "wns"
        BY <1>1, <3>1 DEF ClassOf
      <4> QED
        BY <2>6, <4>1, <4>2 DEF Beats, CLASS
    <3>2. CASE ~w.wns
      <4>1. /\ wd_ws_dfifo' = [wd_ws_dfifo EXCEPT ![p] = Append(@, beat)]
            /\ wd_wns_dfifo' = wd_wns_dfifo
        BY <1>1, <2>1, <3>2 DEF WBeat, beat
      <4>2. c = "ws"
        BY <1>1, <3>2 DEF ClassOf
      <4> QED
        BY <2>6, <4>1, <4>2 DEF Beats, CLASS
    <3> QED
      BY <3>1, <3>2
  <2>8. UNCHANGED <<aw, wd_sid_fifo, cd, pkb, snb, ncq>>
    BY DEF WBeat
  <2>9. c \in CLASS
    BY <1>1, ClassType
  <2>10. off \in {0, 1} /\ (off = 1 <=> q[1].left = 1)
    BY <1>2, Zenon
  <2>11. q # <<>> /\ Len(q) \in Nat /\ Len(q) > 0
    BY <2>1, Zenon
  <2>12. Beats(p, c)' = Append(Beats(p, c), [id |-> q[1].id, last |-> q[1].left = 1])
    BY <2>7, Zenon
  <2>13. \A r \in CORE, d \in CLASS : r # p \/ d # c => Beats(r, d)' = Beats(r, d)
    BY <2>7, Zenon
  <2> QED
    BY <2>4, <2>5, <2>8, <2>9, <2>11, <2>12, <2>13, Zenon
<1>4. PICK i, n : i = q[1].id /\ n = Sent(g, p, c)
  OBVIOUS
<1>5. /\ i \in Stream(g, p, c) /\ n \in Nat /\ g.from[i] <= n /\ n < g.to[i]
      /\ q[1].left = g.to[i] - n
  BY <1>1, <1>3, <1>4, NextBeat
<1>6. g.from[i] \in Nat /\ g.to[i] \in Nat /\ g.to[i] <= g.total[p][c]
  BY <1>3, <1>5, StreamType DEF LedgerOK, PortsOK, PortAt, StreamAt
<1>7. /\ g.packed[p][c] \in Nat /\ g.total[p][c] \in Nat
      /\ Len(Beats(p, c)) \in Nat /\ n = g.packed[p][c] + Len(Beats(p, c))
      /\ Beats(p, c) \in Seq(Beat)
  BY <1>3, <1>4, LedgerTypes, PortTypes DEF Sent, Inv, TypeOK
<1>8. PICK b : b = [id |-> i, last |-> q[1].left = 1]
  OBVIOUS
<1>9. b \in Beat /\ b.id = i /\ (b.last <=> n + 1 = g.to[i])
  <2>1. i \in Id
    BY <1>5, StreamType
  <2>2. b \in Beat /\ b.id = i /\ (b.last <=> q[1].left = 1)
    BY <1>8, <2>1 DEF Beat
  <2> QED
    BY <1>5, <1>6, <2>2
<1>10. /\ Len(Beats(p, c)') = Len(Beats(p, c)) + 1
       /\ Beats(p, c)'[Len(Beats(p, c)) + 1] = b
       /\ \A k \in 1 .. Len(Beats(p, c)) : Beats(p, c)'[k] = Beats(p, c)[k]
  <2>1. Beats(p, c)' = Append(Beats(p, c), b)
    BY <1>3, <1>4, <1>8
  <2> QED
    BY <1>7, <1>9, <2>1, WordFacts
<1>11. /\ Sent(g, p, c)' = n + 1
       /\ \A r \in CORE, d \in CLASS : r # p \/ d # c => Sent(g, r, d)' = Sent(g, r, d)
       /\ \A r, d : Stream(g, r, d)' = Stream(g, r, d)
       /\ \A r, d : Register(r, d)' = Register(r, d)
  <2>1. Sent(g, p, c)' = n + 1
    <3>1. Sent(g, p, c)' = g.packed[p][c] + (Len(Beats(p, c)) + 1)
      BY <1>10 DEF Sent
    <3> QED
      BY <1>7, <3>1
  <2>2. \A r \in CORE, d \in CLASS : r # p \/ d # c => Sent(g, r, d)' = Sent(g, r, d)
    BY <1>3 DEF Sent
  <2>3. UNCHANGED aw
    BY <1>3
  <2> QED
    BY <2>1, <2>2, <2>3 DEF Stream, Register, aw
<1>12. \A x \in CORE : StreamAt(g, x)' /\ StampOK(g)'
  <2>1. Sent(g, p, c)' <= g.total[p][c]
    <3>1. n + 1 <= g.to[i]
      BY <1>5, <1>6
    <3>2. n + 1 <= g.total[p][c]
      BY SMTT(30), <1>5, <1>6, <1>7, <3>1
    <3> QED
      BY <1>11, <3>2
  <2>2. \A x \in CORE : StreamAt(g, x)
    BY DEF LedgerOK, PortsOK, PortAt
  <2>3. ASSUME NEW x \in CORE PROVE StreamAt(g, x)'
    <3>1. \A d \in CLASS : Sent(g, x, d)' <= g.total[x][d]
      BY <1>11, <2>1, <2>2 DEF StreamAt
    <3> QED
      BY <1>11, <2>2, <3>1 DEF StreamAt
  <2> QED
    BY <2>3 DEF LedgerOK, PortsOK, StampOK
<1>13. (\A x \in CORE : BeatsAt(g, x)')
  <2> SUFFICES ASSUME NEW r \in CORE, NEW d \in CLASS, NEW k \in 1 .. Len(Beats(r, d)')
               PROVE  BeatOK(g, r, d, k)'
    BY DEF PortsOK, PortAt, BeatsAt
  <2>1. CASE r # p \/ d # c
    <3>1. Beats(r, d)' = Beats(r, d)
      BY <1>3, <2>1
    <3>2. BeatOK(g, r, d, k)
      BY <3>1 DEF LedgerOK, PortsOK, PortAt, BeatsAt
    <3> QED
      BY <1>11, <3>1, <3>2 DEF BeatOK
  <2>2. CASE r = p /\ d = c /\ k = Len(Beats(p, c)) + 1
    <3>1. Beats(p, c)'[k] = b
      BY <1>10, <2>2
    <3>4. n + 1 = g.packed[p][c] + k
      BY <1>7, <2>2
    <3>2. BeatOK(g, p, c, k)' <=>
            LET x == Beats(p, c)'[k]
                m == g.packed[p][c] + k IN
            /\ x.id \in Stream(g, p, c)
            /\ g.from[x.id] < m /\ m <= g.to[x.id]
            /\ x.last <=> m = g.to[x.id]
      BY <1>11 DEF BeatOK
    <3>3. g.from[i] < n + 1 /\ n + 1 <= g.to[i]
      BY <1>5, <1>6
    <3> QED
      BY <1>5, <1>9, <2>2, <3>1, <3>2, <3>3, <3>4
  <2>3. CASE r = p /\ d = c /\ k \in 1 .. Len(Beats(p, c))
    <3>1. Beats(p, c)'[k] = Beats(p, c)[k] /\ BeatOK(g, p, c, k)
      BY <1>10, <2>3 DEF LedgerOK, PortsOK, PortAt, BeatsAt
    <3> QED
      BY <1>11, <2>3, <3>1 DEF BeatOK
  <2>4. r = p /\ d = c => k = Len(Beats(p, c)) + 1 \/ k \in 1 .. Len(Beats(p, c))
    BY <1>7, <1>10
  <2> QED
    BY <2>1, <2>2, <2>3, <2>4
<1>14. ASSUME NEW k \in 1 .. Len(q) - off
       PROVE  /\ k + off \in 1 .. Len(q)
              /\ OrderOK(g, p, bus_arb_w_fifo[p][k])'
  <2> DEFINE x == bus_arb_w_fifo'[p][k]
  <2>1. k + off \in 1 .. Len(q) /\ 1 \in 1 .. Len(q) /\ (k + off = 1 => off = 0 /\ k = 1)
    BY <1>2, <1>3
  <2>2. /\ x.id = q[k + off].id /\ x.wns = q[k + off].wns
        /\ x.left = IF off = 0 /\ k = 1 THEN q[1].left - 1 ELSE q[k + off].left
    BY <1>3
  <2>3. PICK m, d : m = q[k + off].id /\ d = ClassOf(q[k + off].wns)
    OBVIOUS
  <2>4. /\ m \in Stream(g, p, d) /\ Sent(g, p, d) < g.to[m]
        /\ q[k + off].left = g.to[m] - (IF g.from[m] < Sent(g, p, d) THEN Sent(g, p, d)
                                        ELSE g.from[m])
    BY <1>1, <2>1, <2>3 DEF LedgerOK, PortsOK, PortAt, BusAt, OrderOK
  <2>5. d \in CLASS /\ g.from[m] \in Nat /\ g.to[m] \in Nat /\ Sent(g, p, d) \in Nat
    <3>1. d \in CLASS
      BY <2>3, ClassType
    <3>2. g.from[m] \in Nat /\ g.to[m] \in Nat
      BY <2>4, StreamType
    <3>3. Sent(g, p, d) \in Nat
      BY <3>1, LedgerTypes, PortTypes DEF Sent, Inv, TypeOK
    <3> QED
      BY <3>1, <3>2, <3>3
  <2>6. /\ Sent(g, p, d)' < g.to[m]
        /\ x.left = g.to[m] - (IF g.from[m] < Sent(g, p, d)' THEN Sent(g, p, d)' ELSE g.from[m])
    <3>1. CASE d # c
      <4>1. Sent(g, p, d)' = Sent(g, p, d)
        BY <1>11, <2>5, <3>1
      <4>2. k + off # 1
        BY <1>1, <2>3, <3>1
      <4> QED
        BY <2>1, <2>2, <2>4, <4>1, <4>2
    <3>2. CASE d = c /\ k + off = 1
      <4>1. off = 0 /\ k = 1 /\ m = i /\ Sent(g, p, d)' = n + 1
        BY <1>4, <1>11, <2>1, <2>3, <3>2
      <4>2. g.to[i] # n + 1
        BY <1>2, <1>5, <1>6, <4>1
      <4>3. x.left = g.to[i] - n - 1
        BY <1>5, <2>2, <4>1
      <4>4. g.from[i] < n + 1 /\ n + 1 < g.to[i]
        BY <1>5, <1>6, <4>2
      <4> QED
        BY <1>5, <1>6, <4>1, <4>3, <4>4
    <3>3. CASE d = c /\ k + off # 1
      <4>1. 1 < k + off
        BY <2>1, <3>3
      <4>2. g.to[i] <= g.from[m]
        <5>1. k + off \in 1 .. Len(q) /\ ClassOf(q[k + off].wns) = c /\ q[k + off].id = m
          BY <2>1, <2>3, <3>3
        <5>2. LedgerOK(g) /\ q[1].id = i /\ ClassOf(q[1].wns) = c /\ Len(q) \in Nat
          BY <1>1, <1>3, <1>4
        <5> QED
          BY <1>1, <1>3, <4>1, <5>1, <5>2, LaterWrite
      <4>3. Sent(g, p, d)' = n + 1 /\ Sent(g, p, d) = n
        BY <1>4, <1>11, <3>3
      <4>4. x.left = q[k + off].left
        BY <2>2, <3>3
      <4>5. g.from[m] < g.to[m]
        BY <2>4, <2>5 DEF LedgerOK, PortsOK, PortAt, StreamAt
      <4>6. g.from[m] >= n + 1
        BY <1>5, <1>6, <2>5, <4>2
      <4> QED
        BY <1>5, <2>4, <2>5, <4>3, <4>4, <4>5, <4>6
    <3> QED
      BY <3>1, <3>2, <3>3
  <2>7. Stream(g, p, d)' = Stream(g, p, d)
    BY <1>11
  <2>8. x.id = m /\ ClassOf(x.wns) = d
    BY <2>2, <2>3
  <2>9. PICK y : y = x
    OBVIOUS
  <2> HIDE DEF x
  <2>10. OrderOK(g, p, y)'
    BY <2>4, <2>6, <2>7, <2>8, <2>9 DEF OrderOK
  <2> QED
    BY <2>1, <2>9, <2>10 DEF OrderOK, x
<1>15. (\A x \in CORE : BusAt(g, x)')
  <2> SUFFICES ASSUME NEW r \in CORE
               PROVE  /\ \A k \in 1 .. Len(bus_arb_w_fifo'[r]) : OrderOK(g, r, bus_arb_w_fifo[r][k])'
                      /\ \A j, k \in 1 .. Len(bus_arb_w_fifo'[r]) :
                           j < k => g.handed[bus_arb_w_fifo'[r][j].id]
                                      < g.handed[bus_arb_w_fifo'[r][k].id]
                      /\ \A d \in CLASS : \A x \in Stream(g, r, d)' :
                           Sent(g, r, d)' < g.to[x] =>
                             \E k \in 1 .. Len(bus_arb_w_fifo'[r]) : bus_arb_w_fifo'[r][k].id = x
    BY DEF PortsOK, PortAt, BusAt
  <2>1. CASE r # p
    <3>1. bus_arb_w_fifo'[r] = bus_arb_w_fifo[r]
      BY <1>3, <2>1
    <3>2. \A d \in CLASS : Sent(g, r, d)' = Sent(g, r, d) /\ Stream(g, r, d)' = Stream(g, r, d)
      BY <1>11, <2>1
    <3>3. \A k \in 1 .. Len(bus_arb_w_fifo[r]) : OrderOK(g, r, bus_arb_w_fifo[r][k])'
      BY <3>1, <3>2, ClassType DEF LedgerOK, PortsOK, PortAt, BusAt, OrderOK
    <3>4. \A d \in CLASS : \A x \in Stream(g, r, d)' :
            Sent(g, r, d)' < g.to[x] =>
              \E k \in 1 .. Len(bus_arb_w_fifo[r]) : bus_arb_w_fifo[r][k].id = x
      BY <3>2 DEF LedgerOK, PortsOK, PortAt, BusAt
    <3>5. \A j, k \in 1 .. Len(bus_arb_w_fifo[r]) :
            j < k => g.handed[bus_arb_w_fifo[r][j].id] < g.handed[bus_arb_w_fifo[r][k].id]
      BY DEF LedgerOK, PortsOK, PortAt, BusAt
    <3> QED
      BY <3>1, <3>3, <3>4, <3>5
  <2>2. CASE r = p
    <3>1. \A k \in 1 .. Len(bus_arb_w_fifo'[p]) : OrderOK(g, p, bus_arb_w_fifo[p][k])'
      BY <1>3, <1>14
    <3>2. ASSUME NEW j \in 1 .. Len(bus_arb_w_fifo'[p]),
                 NEW k \in 1 .. Len(bus_arb_w_fifo'[p]), j < k
          PROVE  g.handed[bus_arb_w_fifo'[p][j].id] < g.handed[bus_arb_w_fifo'[p][k].id]
      <4>1. /\ j + off \in 1 .. Len(q) /\ k + off \in 1 .. Len(q) /\ j + off < k + off
            /\ bus_arb_w_fifo'[p][j].id = q[j + off].id
            /\ bus_arb_w_fifo'[p][k].id = q[k + off].id
        BY <1>2, <1>3, <1>14, <3>2
      <4> QED
        BY <1>1, <4>1 DEF LedgerOK, PortsOK, PortAt, BusAt
    <3>3. ASSUME NEW d \in CLASS, NEW x \in Stream(g, p, d)', Sent(g, p, d)' < g.to[x]
          PROVE  \E k \in 1 .. Len(bus_arb_w_fifo'[p]) : bus_arb_w_fifo'[p][k].id = x
      <4>1. x \in Stream(g, p, d) /\ g.to[x] \in Nat
        BY <1>11, <3>3, StreamType
      <4>2. Sent(g, p, d) <= Sent(g, p, d)' /\ Sent(g, p, d) \in Nat
        <5>1. Sent(g, p, d) \in Nat
          BY LedgerTypes, PortTypes DEF Sent, Inv, TypeOK
        <5> QED
          BY <1>4, <1>11, <5>1
      <4>3. Sent(g, p, d)' \in Nat
        BY <1>4, <1>5, <1>11, <4>2
      <4>4. Sent(g, p, d) < g.to[x]
        BY <3>3, <4>1, <4>2, <4>3
      <4>5. PICK k \in 1 .. Len(q) : q[k].id = x
        BY <1>1, <4>1, <4>4 DEF LedgerOK, PortsOK, PortAt, BusAt
      <4>6. ~(off = 1 /\ k = 1)
        <5> SUFFICES ASSUME off = 1, k = 1 PROVE FALSE
          OBVIOUS
        <5>1. x = i /\ g.to[i] = n + 1
          BY <1>2, <1>4, <1>5, <1>6, <4>5
        <5>2. d = c
          BY <1>5, <4>1, <5>1, StreamType
        <5> QED
          BY <1>5, <1>11, <3>3, <5>1, <5>2
      <4>7. k - off \in 1 .. Len(q) - off /\ (k - off) + off = k
        BY <1>2, <1>3, <4>6
      <4>8. bus_arb_w_fifo'[p][k - off].id = q[(k - off) + off].id
        BY <1>3, <4>7
      <4> QED
        BY <1>3, <4>5, <4>7, <4>8
    <3> QED
      BY <2>2, <3>1, <3>2, <3>3
  <2> QED
    BY <2>1, <2>2
<1>16. (\A x \in CORE : RegisterAt(g, x)') /\ (\A x \in CORE : GrantAt(g, x)') /\ (\A x \in CORE : OvertakenAt(g, x)')
  <2>1. wd_sid_fifo' = wd_sid_fifo
    BY <1>3
  <2>2. (\A x \in CORE : RegisterAt(g, x)')
    BY <1>11 DEF LedgerOK, PortsOK, PortAt, RegisterAt, HasData
  <2>3. (\A x \in CORE : GrantAt(g, x)')
    BY <1>11, <2>1 DEF LedgerOK, PortsOK, PortAt, GrantAt, HasData
  <2>4. (\A x \in CORE : OvertakenAt(g, x)')
    BY <1>11, <2>1 DEF LedgerOK, PortsOK, PortAt, OvertakenAt
  <2> QED
    BY <2>2, <2>3, <2>4
<1>17. (\A x \in CORE : PackAt(g, x)')
  <2>1. UNCHANGED <<wd_sid_fifo, pkb>>
    BY <1>3
  <2> QED
    BY <1>11, <2>1 DEF LedgerOK, PortsOK, PortAt, PackAt, HalfWay, Filling, Ready, Packet
<1>18. SlotOK(g)' /\ ReceiveOK(g)'
  <2>1. UNCHANGED <<wd_sid_fifo, pkb, woq, snb>> /\ woq \in Seq(Id)
    BY <1>3 DEF ncq, Inv, TypeOK, NcqTypeOK
  <2>2. \A b1, s1 : Slot(b1, s1)' = Slot(b1, s1)
    BY <2>1 DEF Slot, snb
  <2>3. \A b1 : Awaited(b1)' = Awaited(b1)
    BY <2>1 DEF Awaited, SelCreate, TakesData, snb
  <2>4. PackSame
    BY <2>1 DEF PackSame, PackSameAt
  <2> QED
    BY <2>1, <2>2, <2>3, <2>4, BankKept DEF LedgerOK
<1>19. LastOK(g)'
  BY <1>3, LastKept DEF LedgerOK, snb
<1> QED
  BY <1>12, <1>13, <1>15, <1>16, <1>17, <1>18, <1>19 DEF LedgerOK, PortsOK, PortAt

-----------------------------------------------------------------------------
(***************************************************************************)
(* The core hands over a write: it gets the next beats of its class.       *)
(***************************************************************************)

\* An identity nobody holds is not in the account.
LEMMA Fresh ==
  ASSUME Inv, NEW g \in Ledger, LedgerOK(g), NEW i \in Id, ~UnderWay(i)
  PROVE  /\ i \notin g.due
         /\ ~(Ready(i[1]) /\ Packet(i[1]) = i)
         /\ \A k \in 1 .. Len(g.owner[i[1]]) : g.owner[i[1]][k] # i
<1>1. PICK p \in CORE : p = i[1]
  BY DEF Id
<1>2. /\ \A k \in DOMAIN bus_arb_w_fifo[p] : bus_arb_w_fifo[p][k].id # i
      /\ \A k \in DOMAIN wd_ws_dfifo[p] : wd_ws_dfifo[p][k].id # i
      /\ \A k \in DOMAIN wd_wns_dfifo[p] : wd_wns_dfifo[p][k].id # i
      /\ pkb[p] # NONE => \A k \in DOMAIN pkb[p].data : pkb[p].data[k] # i
  BY <1>1 DEF UnderWay
<1>3. PortTypeOK /\ PortAt(g, p) /\ StampOK(g)
  BY DEF Inv, TypeOK, LedgerOK, PortsOK
<1>4. /\ \A c \in CLASS : \A k \in 1 .. Len(Beats(p, c)) : Beats(p, c)[k].id # i
      /\ \A k \in 1 .. Len(bus_arb_w_fifo[p]) : bus_arb_w_fifo[p][k].id # i
  BY <1>2, <1>3 DEF Beats, PortTypeOK
<1>5. i \notin g.due
  <2> SUFFICES ASSUME i \in g.due PROVE FALSE
    OBVIOUS
  <2>1. PICK c \in CLASS : c = g.class[i]
    BY LedgerTypes
  <2>2. i \in Stream(g, p, c)
    BY <1>1, <2>1 DEF Stream
  <2>3. g.to[i] <= Sent(g, p, c)
    BY <1>3, <1>4, <2>2, LedgerTypes, PortTypes DEF PortAt, BusAt, Sent
  <2> DEFINE k == g.to[i] - g.packed[p][c]
  <2>4. k \in 1 .. Len(Beats(p, c)) /\ g.packed[p][c] + k = g.to[i]
    <3>1. g.packed[p][c] < g.to[i]
      BY <1>3, <2>2 DEF PortAt, StreamAt
    <3> QED
      BY <1>3, <2>3, <3>1, LedgerTypes, PortTypes DEF Sent
  <2>5. PICK j \in Stream(g, p, c) :
          j = Beats(p, c)[k].id /\ g.from[j] < g.to[i] /\ g.to[i] <= g.to[j]
    BY <1>3, <2>4 DEF PortAt, BeatsAt, BeatOK
  <2>6. j # i
    BY <1>4, <2>4, <2>5
  <2>7. g.handed[i] < g.handed[j] \/ g.handed[j] < g.handed[i]
    BY <1>3, <2>2, <2>6, StreamType DEF StampOK
  <2>8. g.to[i] <= g.from[j] \/ g.to[j] <= g.from[i]
    BY <1>3, <2>2, <2>7 DEF PortAt, StreamAt
  <2>9. g.from[i] < g.to[i]
    BY <1>3, <2>2 DEF PortAt, StreamAt
  <2> QED
    BY <2>2, <2>5, <2>8, <2>9, StreamType
<1>6. ~(Ready(p) /\ Packet(p) = i)
  <2> SUFFICES ASSUME Ready(p), Packet(p) = i PROVE FALSE
    OBVIOUS
  <2>1. Len(pkb[p].data) > 0 /\ pkb[p] # NONE /\ pkb[p] \in Package
    BY <1>3, PortTypes DEF PortAt, PackAt, Ready
  <2>2. 1 \in DOMAIN pkb[p].data
    BY <2>1 DEF Package, Data
  <2> QED
    BY <1>2, <2>1, <2>2 DEF Packet
<1>7. \A k \in 1 .. Len(g.owner[p]) : g.owner[p][k] \in g.due
  <2>1. GrantAt(g, p)
    BY <1>3 DEF PortAt
  <2>2. \A k \in 1 .. Len(g.owner[p]) :
          g.owner[p][k] \in Stream(g, p, ClassOf(wd_sid_fifo[p][k].wns))
    BY <2>1 DEF GrantAt
  <2> QED
    BY <2>2, StreamType
<1> QED
  BY <1>1, <1>5, <1>6, <1>7

\* What a hand-over does to the queues and registers of the ports.
LEMMA HandFacts ==
  ASSUME Inv, NEW p \in CORE, AwHand(p)
  PROVE  \E r \in Request :
           /\ r # NONE /\ r.id \in Id /\ r.id[1] = p /\ ~UnderWay(r.id)
           /\ r.dest \in Receivers(r.kind) /\ r.len \in Lengths(r.kind)
           /\ r.len <= LINE_BEATS /\ (r.kind # "evict" => r.len > 0)
           /\ HandOver(p, r)
<1>0. PICK kind \in KINDS, n \in 0 .. MAX_WRITES - 1 :
        /\ ~UnderWay(<<p, n>>)
        /\ \E dest \in Receivers(kind), len \in Lengths(kind) :
             HandOver(p, [kind |-> kind, dest |-> dest, id |-> <<p, n>>, len |-> len])
  BY Zenon DEF AwHand
<1>1. PICK dest \in Receivers(kind), len \in Lengths(kind) :
        HandOver(p, [kind |-> kind, dest |-> dest, id |-> <<p, n>>, len |-> len])
  BY <1>0
<1>2. /\ kind \in WriteKind /\ dest \in Receiver /\ <<p, n>> \in Id
      /\ len \in 0 .. LINE_BEATS /\ (kind # "evict" => len \in 1 .. LINE_BEATS)
  BY SizeAssumption DEF Receivers, Lengths, WriteKind, Receiver, Id
<1>3. PICK r \in Request :
        r = [kind |-> kind, dest |-> dest, id |-> <<p, n>>, len |-> len]
  BY <1>2 DEF Request
<1>4. HandOver(p, r)
  BY <1>1, <1>3
<1>5. r # NONE /\ r.id \in Id /\ r.id[1] = p
  BY <1>2, <1>3, NoneAssumption
<1>6. r.dest \in Receivers(r.kind) /\ r.len \in Lengths(r.kind)
  BY <1>3
<1>7. r.len <= LINE_BEATS /\ (r.kind # "evict" => r.len > 0)
  BY <1>2, <1>3
<1>8. ~UnderWay(r.id)
  BY <1>0, <1>3
<1> QED
  BY <1>4, <1>5, <1>6, <1>7, <1>8

\* What the hand-over of a write changes in its port.
LEMMA HandState ==
  ASSUME Inv, NEW p \in CORE, NEW r \in Request, HandOver(p, r), AwHand(p)
  PROVE  LET c == ClassOf(wns(r)) IN
         /\ c \in CLASS /\ Register(p, c) = NONE /\ Register(p, c)' = r
         /\ \A d \in CLASS : d # c => Register(p, d)' = Register(p, d)
         /\ \A d : Beats(p, d)' = Beats(p, d)
         /\ wd_sid_fifo' = wd_sid_fifo /\ pkb' = pkb
         /\ bus_arb_w_fifo'[p] =
              IF r.kind = "evict" THEN bus_arb_w_fifo[p]
              ELSE Append(bus_arb_w_fifo[p], [id |-> r.id, wns |-> wns(r), left |-> r.len])
         /\ \A q \in CORE : q # p => PortStays(q)
<1>1. UNCHANGED <<wd_sid_fifo, wd, cd, pkb, snb, ncq>> /\ PortTypeOK
  BY DEF AwHand, Inv, TypeOK
<1>2. /\ bus_arb_w_fifo \in [CORE -> Seq(Order)]
      /\ ws_dfifo \in [CORE -> Request \cup {NONE}]
      /\ wns_dfifo \in [CORE -> Request \cup {NONE}]
  BY <1>1 DEF PortTypeOK
<1>3. bus_arb_w_fifo'[p] =
              IF r.kind = "evict" THEN bus_arb_w_fifo[p]
              ELSE Append(bus_arb_w_fifo[p], [id |-> r.id, wns |-> wns(r), left |-> r.len])
  BY <1>2 DEF HandOver
<1>4. \A q \in CORE : q # p => PortStays(q)
  BY <1>1, <1>2 DEF HandOver, PortStays, PackSameAt, wd
<1>5. \A d : Beats(p, d)' = Beats(p, d)
  BY <1>1 DEF Beats, wd
<1>6. /\ wns(r) => /\ wns_dfifo[p] = NONE /\ wns_dfifo'[p] = r /\ ws_dfifo'[p] = ws_dfifo[p]
      /\ ~wns(r) => /\ ws_dfifo[p] = NONE /\ ws_dfifo'[p] = r /\ wns_dfifo'[p] = wns_dfifo[p]
  BY <1>2 DEF HandOver
<1>7. CASE wns(r)
  BY <1>1, <1>3, <1>4, <1>5, <1>6, <1>7 DEF ClassOf, CLASS, Register
<1>8. CASE ~wns(r)
  BY <1>1, <1>3, <1>4, <1>5, <1>6, <1>8 DEF ClassOf, CLASS, Register
<1> QED
  BY <1>7, <1>8

\* An Evict has no data: the account stays.
LEMMA HandEvict ==
  ASSUME Inv, NEW g \in Ledger, LedgerOK(g), NEW p \in CORE, AwHand(p),
         NEW r \in Request, r # NONE, HandOver(p, r), r.kind = "evict",
         r.id[1] = p, r.dest \in Receivers(r.kind), r.len \in Lengths(r.kind)
  PROVE  LedgerOK(g)'
<1> DEFINE c == ClassOf(wns(r))
<1>1. /\ c \in CLASS /\ Register(p, c) = NONE /\ Register(p, c)' = r
      /\ \A d \in CLASS : d # c => Register(p, d)' = Register(p, d)
      /\ \A d : Beats(p, d)' = Beats(p, d)
      /\ wd_sid_fifo' = wd_sid_fifo /\ pkb' = pkb
      /\ bus_arb_w_fifo'[p] = bus_arb_w_fifo[p]
      /\ \A q \in CORE : q # p => PortStays(q)
  BY HandState
<1>2. PortTypeOK /\ PortsOK(g)
  BY DEF Inv, TypeOK, LedgerOK
<1>3. ASSUME NEW q \in CORE, q # p PROVE PortAt(g, q)'
  <2>1. SameFor(g, g, q) /\ g.now <= g.now
    BY LedgerTypes DEF SameFor
  <2> QED
    BY <1>1, <1>2, <1>3, <2>1, PortKept DEF PortsOK
<1>4. PortAt(g, p)'
  <2>1. PortAt(g, p)
    BY <1>2 DEF PortsOK
  <2>2. \A d : Stream(g, p, d)' = Stream(g, p, d) /\ Sent(g, p, d)' = Sent(g, p, d)
    BY <1>1 DEF Stream, Sent
  <2>3. \A d \in CLASS : /\ HasData(Register(p, d))' <=> HasData(Register(p, d))
                         /\ HasData(Register(p, d)) => Register(p, d)' = Register(p, d)
    BY <1>1 DEF HasData
  <2>4. /\ HalfWay(p)' <=> HalfWay(p)
        /\ Ready(p)' <=> Ready(p)
        /\ Packet(p)' = Packet(p)
    BY <1>1 DEF HalfWay, Filling, Ready, Packet
  <2>5. StreamAt(g, p)' /\ BeatsAt(g, p)'
    BY <1>1, <2>1, <2>2 DEF PortAt, StreamAt, BeatsAt, BeatOK
  <2>6. BusAt(g, p)'
    BY <1>1, <2>1, <2>2 DEF PortAt, BusAt, OrderOK
  <2>7. RegisterAt(g, p)'
    <3>1. ASSUME NEW d \in CLASS
          PROVE  LET x == Register(p, d)' IN
                 /\ x # NONE => /\ x.dest \in Receivers(x.kind) /\ x.len \in Lengths(x.kind)
                                /\ ClassOf(wns(x)) = d /\ x.id[1] = p
      <4>1. CASE d = c
        BY <1>1, <4>1
      <4>2. CASE d # c
        BY <1>1, <2>1, <4>2 DEF PortAt, RegisterAt
      <4> QED
        BY <4>1, <4>2
    <3>2. ASSUME NEW d \in CLASS, HasData(Register(p, d))'
          PROVE  LET x == Register(p, d)' IN
                 /\ x.id \in Stream(g, p, d) /\ g.to[x.id] = g.from[x.id] + x.len
                 /\ \A i \in Stream(g, p, d) : i # x.id => g.handed[i] < g.handed[x.id]
      BY <2>1, <2>3, <3>2 DEF PortAt, RegisterAt
    <3> QED
      BY <2>2, <3>1, <3>2 DEF RegisterAt
  <2>8. GrantAt(g, p)'
    BY <1>1, <2>1, <2>2, <2>3 DEF PortAt, GrantAt
  <2>9. PackAt(g, p)'
    BY <1>1, <2>1, <2>2, <2>4 DEF PortAt, PackAt
  <2>10. OvertakenAt(g, p)'
    <3>1. OvertakenAt(g, p)
      BY <2>1 DEF PortAt
    <3>2. wd_sid_fifo'[p] = wd_sid_fifo[p]
      BY <1>1
    <3> QED
      BY <2>2, <3>1, <3>2, OvertakenKept
  <2> QED
    BY <2>5, <2>6, <2>7, <2>8, <2>9, <2>10 DEF PortAt
<1>5. PortsOK(g)'
  BY <1>2, <1>3, <1>4 DEF PortsOK, StampOK
<1>6. /\ UNCHANGED <<wd_sid_fifo, woq>> /\ woq \in Seq(Id) /\ PackSame
      /\ \A b, s : Slot(b, s)' = Slot(b, s)
      /\ \A b : Awaited(b)' = Awaited(b)
  BY <1>1 DEF AwHand, Inv, TypeOK, NcqTypeOK, snb, ncq, Slot, Awaited, SelCreate, TakesData,
              PackSame, PackSameAt
<1>7. LastOK(g)'
  BY <1>1, LastKept DEF LedgerOK, AwHand, snb
<1>8. SlotOK(g)' /\ ReceiveOK(g)'
  BY <1>6, BankKept DEF LedgerOK
<1> QED
  BY <1>5, <1>7, <1>8 DEF LedgerOK

\* The account h follows from g when the write r is handed over.
Handed(g, h, p, r) ==
  LET i == r.id
      c == ClassOf(wns(r)) IN
  /\ h.due = g.due \cup {i} /\ h.now = g.now + 1
  /\ h.owner = g.owner /\ h.owed = g.owed /\ h.packed = g.packed /\ h.granted = g.granted
  /\ \A j \in Id : j # i =>
       /\ h.class[j] = g.class[j] /\ h.from[j] = g.from[j] /\ h.to[j] = g.to[j]
       /\ h.handed[j] = g.handed[j]
  /\ h.class[i] = c /\ h.from[i] = g.total[p][c] /\ h.to[i] = g.total[p][c] + r.len
  /\ h.handed[i] = g.now
  /\ \A q \in CORE, d \in CLASS :
       h.total[q][d] = IF q = p /\ d = c THEN g.total[p][c] + r.len ELSE g.total[q][d]
  /\ \A q \in CORE : q # p => h.total[q] = g.total[q]

\* There is an account that is continued by a hand-over.
LEMMA HandedLedger ==
  ASSUME NEW g \in Ledger, NEW p \in CORE, NEW r \in Request, r.id \in Id
  PROVE  \E h \in Ledger : Handed(g, h, p, r)
<1> DEFINE i == r.id
           c == ClassOf(wns(r))
           n == g.total[p][c] + r.len
<1>1. c \in CLASS
  BY ClassType
<1>2. /\ g.owner \in [CORE -> Seq(Id)] /\ g.owed \in [BANK -> Seq(Id)]
      /\ g.due \subseteq Id /\ g.now \in Nat /\ g.class \in [Id -> CLASS]
      /\ g.from \in [Id -> Nat] /\ g.to \in [Id -> Nat]
      /\ g.handed \in [Id -> Nat] /\ g.granted \in [Id -> Nat]
      /\ g.packed \in [CORE -> [CLASS -> Nat]] /\ g.total \in [CORE -> [CLASS -> Nat]]
  BY LedgerFields
<1>3. n \in Nat /\ g.total[p][c] \in Nat
  BY <1>1, <1>2, SizeAssumption DEF Request
<1> HIDE DEF i, c, n
<1> DEFINE cl == [g.class EXCEPT ![i] = c]
           fr == [g.from EXCEPT ![i] = g.total[p][c]]
           t  == [g.to EXCEPT ![i] = n]
           ha == [g.handed EXCEPT ![i] = g.now]
           tp == [g.total[p] EXCEPT ![c] = n]
           tt == [g.total EXCEPT ![p] = tp]
<1>4. i \in Id
  BY DEF i
<1>5. /\ cl \in [Id -> CLASS] /\ cl[i] = c /\ \A j \in Id : j # i => cl[j] = g.class[j]
      /\ fr \in [Id -> Nat] /\ fr[i] = g.total[p][c] /\ \A j \in Id : j # i => fr[j] = g.from[j]
      /\ t \in [Id -> Nat] /\ t[i] = n /\ \A j \in Id : j # i => t[j] = g.to[j]
      /\ ha \in [Id -> Nat] /\ ha[i] = g.now /\ \A j \in Id : j # i => ha[j] = g.handed[j]
  BY <1>1, <1>2, <1>3, <1>4
<1>6. /\ tp \in [CLASS -> Nat] /\ \A d \in CLASS : tp[d] = IF d = c THEN n ELSE g.total[p][d]
  BY <1>1, <1>2, <1>3
<1> HIDE DEF tp
<1>7. /\ tt \in [CORE -> [CLASS -> Nat]] /\ tt[p] = tp
      /\ \A q \in CORE : q # p => tt[q] = g.total[q]
  BY <1>2, <1>6
<1> HIDE DEF cl, fr, t, ha, tt
<1> DEFINE h == [due |-> g.due \cup {i}, class |-> cl, from |-> fr, to |-> t, handed |-> ha,
                 granted |-> g.granted, owner |-> g.owner, owed |-> g.owed,
                 packed |-> g.packed, total |-> tt, now |-> g.now + 1]
<1>8. h \in Ledger
  <2>1. g.due \cup {i} \in SUBSET Id /\ g.now + 1 \in Nat
    BY SMTT(30), <1>2, <1>4
  <2>2. /\ cl \in [Id -> CLASS] /\ fr \in [Id -> Nat] /\ t \in [Id -> Nat]
        /\ ha \in [Id -> Nat] /\ tt \in [CORE -> [CLASS -> Nat]]
    BY <1>5, <1>7
  <2>3. /\ g.owner \in [CORE -> Seq(Id)] /\ g.owed \in [BANK -> Seq(Id)]
        /\ g.granted \in [Id -> Nat] /\ g.packed \in [CORE -> [CLASS -> Nat]]
    BY <1>2
  <2> QED
    BY <2>1, <2>2, <2>3, Zenon DEF Ledger
<1>9. Handed(g, h, p, r)
  BY <1>1, <1>5, <1>6, <1>7 DEF Handed, i, c, n
<1> QED
  BY <1>8, <1>9

\* The port that got the write agrees with the account continued.
LEMMA HandPort ==
  ASSUME Inv, NEW g \in Ledger, NEW h \in Ledger, LedgerOK(g), NEW p \in CORE, AwHand(p),
         NEW r \in Request, r # NONE, HandOver(p, r), r.kind # "evict",
         r.id \in Id, r.id[1] = p, r.dest \in Receivers(r.kind), r.len \in Lengths(r.kind),
         r.len <= LINE_BEATS, r.len > 0, ~UnderWay(r.id), Handed(g, h, p, r)
  PROVE  PortAt(h, p)'
<1>1. PICK c \in CLASS, i \in Id : c = ClassOf(wns(r)) /\ i = r.id
  BY ClassType
<1>2. /\ Register(p, c) = NONE /\ Register(p, c)' = r
      /\ \A d \in CLASS : d # c => Register(p, d)' = Register(p, d)
      /\ \A d : Beats(p, d)' = Beats(p, d)
      /\ wd_sid_fifo' = wd_sid_fifo /\ pkb' = pkb
  BY <1>1, HandState
<1>3. PICK w \in Order : w.id = i /\ w.wns = wns(r) /\ w.left = r.len
                         /\ bus_arb_w_fifo'[p] = Append(bus_arb_w_fifo[p], w)
  <2>1. bus_arb_w_fifo'[p] =
          Append(bus_arb_w_fifo[p], [id |-> r.id, wns |-> wns(r), left |-> r.len])
    BY HandState
  <2>2. [id |-> r.id, wns |-> wns(r), left |-> r.len] \in Order
    <3>1. r.len \in 1 .. LINE_BEATS
      BY SizeAssumption DEF Request
    <3> QED
      BY <1>1, <3>1 DEF Order, wns
  <2> QED
    BY <1>1, <2>1, <2>2
<1>4. i \notin g.due /\ ~(Ready(p) /\ Packet(p) = i)
      /\ \A k \in 1 .. Len(g.owner[p]) : g.owner[p][k] # i
  BY <1>1, Fresh
<1>5. PortTypeOK /\ PortAt(g, p) /\ StampOK(g) /\ i[1] = p
  BY <1>1 DEF Inv, TypeOK, LedgerOK, PortsOK
<1>6. /\ h.class[i] = c /\ h.from[i] = g.total[p][c] /\ h.to[i] = g.total[p][c] + r.len
      /\ h.handed[i] = g.now /\ h.total[p][c] = g.total[p][c] + r.len
      /\ g.total[p][c] \in Nat /\ r.len \in Nat /\ g.now \in Nat /\ h.now = g.now + 1
      /\ h.owner = g.owner /\ h.packed = g.packed /\ h.granted = g.granted
      /\ \A d \in CLASS : d # c => h.total[p][d] = g.total[p][d]
  <2>1. r.len \in Nat /\ g.total[p][c] \in Nat /\ g.now \in Nat
    BY LedgerTypes, SizeAssumption DEF Request
  <2>2. \A q \in CORE, d \in CLASS :
          h.total[q][d] = IF q = p /\ d = c THEN g.total[p][c] + r.len ELSE g.total[q][d]
    BY <1>1 DEF Handed
  <2>3. /\ h.class[i] = c /\ h.from[i] = g.total[p][c] /\ h.to[i] = g.total[p][c] + r.len
        /\ h.handed[i] = g.now /\ h.now = g.now + 1
        /\ h.owner = g.owner /\ h.packed = g.packed /\ h.granted = g.granted
    BY <1>1 DEF Handed
  <2> QED
    BY <2>1, <2>2, <2>3
<1>7. \A j \in g.due : /\ j # i /\ j \in Id /\ h.class[j] = g.class[j] /\ h.from[j] = g.from[j]
                       /\ h.to[j] = g.to[j] /\ h.handed[j] = g.handed[j]
                       /\ g.handed[j] < g.now
  BY <1>1, <1>4, <1>5, LedgerTypes DEF Handed, StampOK
<1>8. Stream(h, p, c) = Stream(g, p, c) \cup {i}
      /\ \A d \in CLASS : d # c => Stream(h, p, d) = Stream(g, p, d)
  BY <1>1, <1>5, <1>6, <1>7 DEF Stream, Handed
<1>9. \A d : \A j \in Stream(g, p, d) :
        /\ j # i /\ j \in Id /\ h.from[j] = g.from[j] /\ h.to[j] = g.to[j] /\ h.handed[j] = g.handed[j]
        /\ h.granted[j] = g.granted[j] /\ g.handed[j] < g.now /\ j[1] = p
        /\ g.from[j] \in Nat /\ g.to[j] \in Nat /\ g.handed[j] \in Nat
  BY <1>6, <1>7, StreamType
<1>10. \A d : Stream(h, p, d)' = Stream(h, p, d) /\ Sent(h, p, d)' = Sent(g, p, d)
  BY <1>2, <1>6 DEF Stream, Sent
<1>11. \A d \in CLASS : /\ Sent(g, p, d) \in Nat /\ g.packed[p][d] \in Nat /\ g.total[p][d] \in Nat
                        /\ g.packed[p][d] <= Sent(g, p, d) /\ Sent(g, p, d) <= g.total[p][d]
  BY <1>5, LedgerTypes, PortTypes DEF Sent, PortAt, StreamAt
<1>12. /\ Stream(h, p, c)' = Stream(g, p, c) \cup {i}
       /\ \A d \in CLASS : d # c => Stream(h, p, d)' = Stream(g, p, d)
  BY <1>8, <1>10
<1>13. StreamAt(h, p)'
  <2> SUFFICES ASSUME NEW d \in CLASS
               PROVE  /\ Sent(g, p, d) <= h.total[p][d]
                      /\ \A j \in Stream(h, p, d)' :
                           /\ g.packed[p][d] < h.to[j] /\ h.to[j] <= h.total[p][d]
                           /\ h.from[j] < h.to[j] /\ h.to[j] <= h.from[j] + LINE_BEATS
                      /\ \A j, k \in Stream(h, p, d)' :
                           h.handed[j] < h.handed[k] => h.to[j] <= h.from[k]
                      /\ \A n \in g.packed[p][d] + 1 .. h.total[p][d] :
                           \E j \in Stream(h, p, d)' : h.from[j] < n /\ n <= h.to[j]
    BY <1>6, <1>10 DEF StreamAt
  <2>1. /\ \A j \in Stream(g, p, d) :
              /\ g.packed[p][d] < g.to[j] /\ g.to[j] <= g.total[p][d]
              /\ g.from[j] < g.to[j] /\ g.to[j] <= g.from[j] + LINE_BEATS
        /\ \A j, k \in Stream(g, p, d) : g.handed[j] < g.handed[k] => g.to[j] <= g.from[k]
        /\ \A n \in g.packed[p][d] + 1 .. g.total[p][d] :
             \E j \in Stream(g, p, d) : g.from[j] < n /\ n <= g.to[j]
    BY <1>5 DEF PortAt, StreamAt
  <2>2. CASE d # c
    BY <1>6, <1>9, <1>11, <1>12, <2>1, <2>2
  <2>3. CASE d = c
    <3>1. Sent(g, p, d) <= h.total[p][d]
      BY <1>6, <1>11, <2>3
    <3>2. \A j \in Stream(h, p, d)' :
            /\ g.packed[p][d] < h.to[j] /\ h.to[j] <= h.total[p][d]
            /\ h.from[j] < h.to[j] /\ h.to[j] <= h.from[j] + LINE_BEATS
      BY <1>6, <1>9, <1>11, <1>12, <2>1, <2>3, SizeAssumption
    <3>3. \A j, k \in Stream(h, p, d)' : h.handed[j] < h.handed[k] => h.to[j] <= h.from[k]
      BY <1>6, <1>9, <1>11, <1>12, <2>1, <2>3
    <3>4. ASSUME NEW n \in g.packed[p][d] + 1 .. h.total[p][d]
          PROVE  \E j \in Stream(h, p, d)' : h.from[j] < n /\ n <= h.to[j]
      <4>1. CASE n <= g.total[p][d]
        BY <1>9, <1>11, <1>12, <2>1, <2>3, <3>4, <4>1
      <4>2. CASE n > g.total[p][d]
        BY <1>6, <1>11, <1>12, <2>3, <3>4, <4>2
      <4> QED
        BY <1>6, <1>11, <2>3, <4>1, <4>2
    <3> QED
      BY <3>1, <3>2, <3>3, <3>4
  <2> QED
    BY <2>2, <2>3
<1>14. BeatsAt(h, p)'
  <2> SUFFICES ASSUME NEW d \in CLASS, NEW k \in 1 .. Len(Beats(p, d))
               PROVE  LET b == Beats(p, d)[k]
                          n == g.packed[p][d] + k IN
                      /\ b.id \in Stream(h, p, d)'
                      /\ h.from[b.id] < n /\ n <= h.to[b.id]
                      /\ b.last <=> n = h.to[b.id]
    BY <1>2, <1>6, <1>10 DEF BeatsAt, BeatOK
  <2>1. LET b == Beats(p, d)[k]
            n == g.packed[p][d] + k IN
        /\ b.id \in Stream(g, p, d)
        /\ g.from[b.id] < n /\ n <= g.to[b.id]
        /\ b.last <=> n = g.to[b.id]
    BY <1>5 DEF PortAt, BeatsAt, BeatOK
  <2>2. Stream(g, p, d) \subseteq Stream(h, p, d)'
    BY <1>12
  <2> QED
    BY <1>9, <2>1, <2>2
<1>15. BusAt(h, p)'
  <2> DEFINE q == bus_arb_w_fifo[p]
             qq == bus_arb_w_fifo'[p]
  <2>1. /\ q \in Seq(Order) /\ Len(q) \in Nat /\ Len(qq) = Len(q) + 1 /\ qq[Len(q) + 1] = w
        /\ \A k \in 1 .. Len(q) : qq[k] = q[k]
    BY <1>3, <1>5, PortTypes, WordFacts
  <2>2. /\ \A k \in 1 .. Len(q) : OrderOK(g, p, q[k])
        /\ \A j, k \in 1 .. Len(q) : j < k => g.handed[q[j].id] < g.handed[q[k].id]
        /\ \A d \in CLASS : \A j \in Stream(g, p, d) :
             Sent(g, p, d) < g.to[j] => \E k \in 1 .. Len(q) : q[k].id = j
    BY <1>5 DEF PortAt, BusAt
  <2>3. ClassOf(w.wns) = c
    BY <1>1, <1>3
  <2> HIDE DEF q, qq
  <2>4. \A k \in 1 .. Len(q) : \E d \in CLASS :
          /\ d = ClassOf(q[k].wns) /\ q[k].id \in Stream(g, p, d)
          /\ Sent(g, p, d) < g.to[q[k].id]
          /\ q[k].left = g.to[q[k].id] - (IF g.from[q[k].id] < Sent(g, p, d) THEN Sent(g, p, d)
                                          ELSE g.from[q[k].id])
    BY <2>2, ClassType DEF OrderOK
  <2>5. ASSUME NEW k \in 1 .. Len(qq)
        PROVE  \E d \in CLASS :
                 /\ d = ClassOf(qq[k].wns) /\ qq[k].id \in Stream(h, p, d)'
                 /\ Sent(g, p, d) < h.to[qq[k].id]
                 /\ qq[k].left = h.to[qq[k].id] - (IF h.from[qq[k].id] < Sent(g, p, d) THEN Sent(g, p, d)
                                                   ELSE h.from[qq[k].id])
    <3>1. CASE k = Len(q) + 1
      <4>1. qq[k] = w /\ ClassOf(qq[k].wns) = c
        BY <2>1, <2>3, <3>1
      <4>2. i \in Stream(h, p, c)'
        BY <1>12
      <4> QED
        BY <1>3, <1>6, <1>11, <4>1, <4>2
    <3>2. CASE k # Len(q) + 1
      <4>1. k \in 1 .. Len(q) /\ qq[k] = q[k]
        BY <2>1, <2>5, <3>2
      <4>2. PICK d \in CLASS :
              /\ d = ClassOf(q[k].wns) /\ q[k].id \in Stream(g, p, d)
              /\ Sent(g, p, d) < g.to[q[k].id]
              /\ q[k].left = g.to[q[k].id] - (IF g.from[q[k].id] < Sent(g, p, d) THEN Sent(g, p, d)
                                              ELSE g.from[q[k].id])
        BY <2>4, <4>1
      <4>3. q[k].id \in Stream(h, p, d)'
        BY <1>12, <4>2
      <4> QED
        <5>1. h.to[q[k].id] = g.to[q[k].id] /\ h.from[q[k].id] = g.from[q[k].id]
          BY <1>9, <4>2
        <5>2. qq[k] = q[k]
          BY <4>1
        <5> QED
          BY <4>2, <4>3, <5>1, <5>2, Zenon
    <3> QED
      BY <3>1, <3>2
  <2>6. \A j, k \in 1 .. Len(qq) : j < k => h.handed[qq[j].id] < h.handed[qq[k].id]
    <3>1. \A k \in 1 .. Len(q) : h.handed[q[k].id] = g.handed[q[k].id] /\ g.handed[q[k].id] < g.now
      BY <1>9, <2>4
    <3> QED
      <4> SUFFICES ASSUME NEW j \in 1 .. Len(qq), NEW k \in 1 .. Len(qq), j < k
                   PROVE  h.handed[qq[j].id] < h.handed[qq[k].id]
        OBVIOUS
      <4>1. j \in 1 .. Len(q) /\ qq[j] = q[j]
        BY <2>1
      <4>2. CASE k = Len(q) + 1
        <5>1. qq[k].id = i
          BY <1>3, <2>1, <4>2
        <5> QED
          BY <1>6, <3>1, <4>1, <5>1
      <4>3. CASE k # Len(q) + 1
        <5>1. k \in 1 .. Len(q) /\ qq[k] = q[k]
          BY <2>1, <4>3
        <5> QED
          BY <2>2, <3>1, <4>1, <5>1
      <4> QED
        BY <4>2, <4>3
  <2>7. ASSUME NEW d \in CLASS, NEW j \in Stream(h, p, d)', Sent(g, p, d) < h.to[j]
        PROVE  \E k \in 1 .. Len(qq) : qq[k].id = j
    <3>1. CASE j = i
      BY <1>3, <2>1, <3>1
    <3>2. CASE j # i
      <4>1. j \in Stream(g, p, d)
        BY <1>12, <2>7, <3>2
      <4>2. PICK k \in 1 .. Len(q) : q[k].id = j
        BY <1>9, <2>2, <2>7, <4>1
      <4> QED
        BY <2>1, <4>2
    <3> QED
      BY <3>1, <3>2
  <2>8. \A k \in 1 .. Len(qq) : OrderOK(h, p, bus_arb_w_fifo[p][k])'
    <3>1. \A k \in 1 .. Len(qq) : \E d \in CLASS :
            /\ d = ClassOf(bus_arb_w_fifo'[p][k].wns)
            /\ bus_arb_w_fifo'[p][k].id \in Stream(h, p, d)'
            /\ Sent(h, p, d)' < h.to[bus_arb_w_fifo'[p][k].id]
            /\ bus_arb_w_fifo'[p][k].left =
                 h.to[bus_arb_w_fifo'[p][k].id]
                   - (IF h.from[bus_arb_w_fifo'[p][k].id] < Sent(h, p, d)' THEN Sent(h, p, d)'
                      ELSE h.from[bus_arb_w_fifo'[p][k].id])
      BY <1>10, <2>5 DEF qq
    <3> QED
      BY <3>1 DEF OrderOK
  <2> QED
    BY <1>10, <2>6, <2>7, <2>8 DEF BusAt, qq
<1>16. RegisterAt(h, p)'
  <2> SUFFICES ASSUME NEW d \in CLASS
               PROVE  LET x == Register(p, d)' IN
                      /\ x # NONE => /\ x.dest \in Receivers(x.kind) /\ x.len \in Lengths(x.kind)
                                     /\ ClassOf(wns(x)) = d /\ x.id[1] = p
                      /\ HasData(x) => /\ x.id \in Stream(h, p, d)'
                                       /\ h.to[x.id] = h.from[x.id] + x.len
                                       /\ \A j \in Stream(h, p, d)' :
                                            j # x.id => h.handed[j] < h.handed[x.id]
    BY DEF RegisterAt, HasData
  <2>1. CASE d = c
    BY <1>1, <1>2, <1>5, <1>6, <1>9, <1>12, <2>1
  <2>2. CASE d # c
    <3>1. Register(p, d)' = Register(p, d) /\ Stream(h, p, d)' = Stream(g, p, d)
      BY <1>2, <1>12, <2>2
    <3>2. LET x == Register(p, d) IN
          /\ x # NONE => /\ x.dest \in Receivers(x.kind) /\ x.len \in Lengths(x.kind)
                         /\ ClassOf(wns(x)) = d /\ x.id[1] = p
          /\ HasData(x) => /\ x.id \in Stream(g, p, d)
                           /\ g.to[x.id] = g.from[x.id] + x.len
                           /\ \A j \in Stream(g, p, d) : j # x.id => g.handed[j] < g.handed[x.id]
      BY <1>5 DEF PortAt, RegisterAt
    <3> QED
      BY <1>9, <3>1, <3>2
  <2> QED
    BY <2>1, <2>2
<1>17. /\ Len(g.owner[p]) = Len(wd_sid_fifo[p])
       /\ \A k \in 1 .. Len(g.owner[p]) :
            /\ g.owner[p][k] \in Stream(g, p, ClassOf(wd_sid_fifo[p][k].wns))
            /\ g.granted[g.owner[p][k]] < g.now /\ h.handed[g.owner[p][k]] = g.handed[g.owner[p][k]]
            /\ g.granted[g.owner[p][k]] \in Nat
  <2>1. GrantAt(g, p)
    BY <1>5 DEF PortAt
  <2> QED
    BY <1>9, <2>1, LedgerTypes, StreamType DEF GrantAt
<1>18. GrantAt(h, p)'
  <2>1. \A k \in 1 .. Len(wd_sid_fifo[p]) :
          /\ g.owner[p][k] \in Stream(h, p, ClassOf(wd_sid_fifo[p][k].wns))'
          /\ g.granted[g.owner[p][k]] < h.now
    <3>1. \A d \in CLASS : Stream(g, p, d) \subseteq Stream(h, p, d)'
      BY <1>12
    <3> QED
      BY <1>2, <1>6, <1>17, <3>1, ClassType, LedgerTypes
  <2>2. \A j, k \in 1 .. Len(wd_sid_fifo[p]) :
          j < k => /\ g.granted[g.owner[p][j]] < g.granted[g.owner[p][k]]
                   /\ wd_sid_fifo[p][j].wns = wd_sid_fifo[p][k].wns =>
                        h.handed[g.owner[p][j]] < h.handed[g.owner[p][k]]
    BY <1>5, <1>17 DEF PortAt, GrantAt
  <2>3. \A d \in CLASS : \A j \in Stream(h, p, d)' :
          \/ \E k \in 1 .. Len(wd_sid_fifo[p]) : g.owner[p][k] = j
          \/ HasData(Register(p, d))' /\ (Register(p, d).id)' = j
    <3> TAKE d \in CLASS
    <3> TAKE j \in Stream(h, p, d)'
    <3>1. CASE j = i
      <4>1. d = c
        BY <1>9, <1>12, <3>1
      <4> QED
        BY <1>1, <1>2, <3>1, <4>1 DEF HasData
    <3>2. CASE j # i
      <4>1. j \in Stream(g, p, d)
        BY <1>12, <3>2
      <4>2. \/ \E k \in 1 .. Len(wd_sid_fifo[p]) : g.owner[p][k] = j
            \/ HasData(Register(p, d)) /\ Register(p, d).id = j
        BY <1>5, <4>1 DEF PortAt, GrantAt
      <4>3. HasData(Register(p, d)) => Register(p, d)' = Register(p, d)
        BY <1>2 DEF HasData
      <4> QED
        BY <4>2, <4>3 DEF HasData
    <3> QED
      BY <3>1, <3>2
  <2>4. ASSUME NEW d \in CLASS, HasData(Register(p, d))'
        PROVE  \A k \in 1 .. Len(wd_sid_fifo[p]) : g.owner[p][k] # (Register(p, d).id)'
    <3>1. CASE d = c
      BY <1>1, <1>2, <1>4, <1>17, <3>1
    <3>2. CASE d # c
      BY <1>2, <1>5, <2>4, <3>2 DEF PortAt, GrantAt, HasData
    <3> QED
      BY <3>1, <3>2
  <2>5. /\ h.owner[p] = g.owner[p] /\ wd_sid_fifo'[p] = wd_sid_fifo[p]
        /\ Len(g.owner[p]) = Len(wd_sid_fifo[p])
        /\ \A j : h.granted[j] = g.granted[j]
    BY <1>2, <1>6, <1>17
  <2>6. ASSUME NEW k \in 1 .. Len(wd_sid_fifo'[p])
        PROVE  /\ h.owner[p][k] \in Stream(h, p, ClassOf(wd_sid_fifo[p][k].wns))'
               /\ h.granted[h.owner[p][k]] < h.now
    <3>1. k \in 1 .. Len(wd_sid_fifo[p]) /\ h.owner[p][k] = g.owner[p][k]
          /\ wd_sid_fifo'[p][k] = wd_sid_fifo[p][k]
      BY <2>5
    <3>2. h.granted[h.owner[p][k]] = g.granted[g.owner[p][k]]
      BY <2>5, <3>1
    <3> QED
      BY <2>1, <3>1, <3>2
  <2>7. ASSUME NEW j \in 1 .. Len(wd_sid_fifo'[p]), NEW k \in 1 .. Len(wd_sid_fifo'[p]), j < k
        PROVE  /\ h.granted[h.owner[p][j]] < h.granted[h.owner[p][k]]
               /\ wd_sid_fifo'[p][j].wns = wd_sid_fifo'[p][k].wns =>
                    h.handed[h.owner[p][j]] < h.handed[h.owner[p][k]]
    <3>1. j \in 1 .. Len(wd_sid_fifo[p]) /\ k \in 1 .. Len(wd_sid_fifo[p])
      BY <2>5
    <3> QED
      BY <2>2, <2>5, <2>7, <3>1
  <2>8. \A d \in CLASS : \A j \in Stream(h, p, d)' :
          \/ \E k \in 1 .. Len(wd_sid_fifo'[p]) : h.owner[p][k] = j
          \/ HasData(Register(p, d))' /\ (Register(p, d).id)' = j
    BY <2>3, <2>5
  <2>9. \A d \in CLASS : HasData(Register(p, d))' =>
          \A k \in 1 .. Len(wd_sid_fifo'[p]) : h.owner[p][k] # (Register(p, d).id)'
    BY <2>4, <2>5
  <2> QED
    BY <2>5, <2>6, <2>7, <2>8, <2>9 DEF GrantAt
<1>19. /\ HalfWay(p)' <=> HalfWay(p)
       /\ Ready(p)' <=> Ready(p)
       /\ Packet(p)' = Packet(p)
  BY <1>2 DEF HalfWay, Filling, Ready, Packet
<1>20. PackAt(h, p)'
  <2>1. HalfWay(p) =>
          LET x == wd_sid_fifo[p][1]
              j == g.owner[p][1]
              d == ClassOf(x.wns) IN
          /\ wd_sid_fifo[p] # <<>> /\ pkb[p].dest = x.dest /\ pkb[p].sid = x.sid
          /\ g.from[j] < g.packed[p][d]
          /\ AllOf(pkb[p].data, g.packed[p][d] - g.from[j], j)
    BY <1>5 DEF PortAt, PackAt
  <2>2. HalfWay(p) => h.from[g.owner[p][1]] = g.from[g.owner[p][1]]
    <3> SUFFICES ASSUME HalfWay(p) PROVE h.from[g.owner[p][1]] = g.from[g.owner[p][1]]
      OBVIOUS
    <3>1. wd_sid_fifo[p] # <<>> /\ wd_sid_fifo[p] \in Seq(SidEntry)
      BY <1>5, <2>1, PortTypes
    <3>2. 1 \in 1 .. Len(g.owner[p])
      BY <1>17, <3>1
    <3> QED
      BY <1>9, <1>17, <3>2
  <2>3. Ready(p) =>
          LET j == Packet(p) IN
          /\ j \in Id /\ j[1] = p /\ j \notin g.due
          /\ Len(pkb[p].data) > 0
          /\ AllOf(pkb[p].data, Len(pkb[p].data), j)
          /\ g.granted[j] < g.now
          /\ \A k \in 1 .. Len(g.owner[p]) : g.granted[j] < g.granted[g.owner[p][k]]
    BY <1>5 DEF PortAt, PackAt
  <2>4. Ready(p) => Packet(p) \notin h.due /\ g.granted[Packet(p)] < h.now
    BY <1>1, <1>4, <1>5, <1>6, <2>3, LedgerTypes DEF Handed
  <2>5. \A d \in CLASS : \A j \in Stream(h, p, d)' :
          g.packed[p][d] <= h.from[j] \/ (HalfWay(p) /\ g.owner[p][1] = j)
    <3> TAKE d \in CLASS
    <3> TAKE j \in Stream(h, p, d)'
    <3>1. CASE j = i
      <4>1. d = c
        BY <1>9, <1>12, <3>1
      <4> QED
        BY <1>6, <1>11, <3>1, <4>1
    <3>2. CASE j # i
      <4>1. j \in Stream(g, p, d)
        BY <1>12, <3>2
      <4> QED
        BY <1>5, <1>9, <4>1 DEF PortAt, PackAt
    <3> QED
      BY <3>1, <3>2
  <2> QED
    BY <1>2, <1>6, <1>19, <2>1, <2>2, <2>3, <2>4, <2>5 DEF PackAt
<1>21. OvertakenAt(h, p)'
  <2>1. ASSUME NEW k \in 1 .. Len(wd_sid_fifo[p]), NEW d \in CLASS, NEW j \in Stream(h, p, d)',
               Late(h, p, k, j)
        PROVE  j \in Stream(g, p, d) /\ Late(g, p, k, j)
    <3>1. /\ h.handed[g.owner[p][k]] = g.handed[g.owner[p][k]]
          /\ g.handed[g.owner[p][k]] < g.now /\ g.handed[g.owner[p][k]] \in Nat
      BY <1>9, <1>17
    <3> QED
      BY <1>6, <1>9, <1>12, <2>1, <3>1 DEF Late
  <2>2. "ws" \in CLASS /\ "wns" \in CLASS
    BY DEF CLASS
  <2>3. \A k \in 1 .. Len(wd_sid_fifo[p]) :
          /\ wd_sid_fifo[p][k].wns =>
               \A a, b \in Stream(h, p, "ws")' : Late(h, p, k, a) /\ Late(h, p, k, b) => a = b
          /\ ~wd_sid_fifo[p][k].wns => \A a \in Stream(h, p, "wns")' : ~Late(h, p, k, a)
    <3>1. OvertakenAt(g, p)
      BY <1>5 DEF PortAt
    <3> QED
      BY <2>1, <2>2, <3>1 DEF OvertakenAt
  <2> QED
    BY <1>2, <2>3 DEF OvertakenAt, Late
<1> QED
  BY <1>13, <1>14, <1>15, <1>16, <1>18, <1>20, <1>21 DEF PortAt

\* A hand-over continues the account; that of an eviction needs no data.
LEMMA AwHandLedger ==
  ASSUME Inv, NEW g \in Ledger, LedgerOK(g), NEW p \in CORE, AwHand(p)
  PROVE  Accounted'
<1>1. PICK r \in Request :
        /\ r # NONE /\ r.id \in Id /\ r.id[1] = p /\ ~UnderWay(r.id)
        /\ r.dest \in Receivers(r.kind) /\ r.len \in Lengths(r.kind)
        /\ r.len <= LINE_BEATS /\ (r.kind # "evict" => r.len > 0)
        /\ HandOver(p, r)
  BY HandFacts
<1>2. CASE r.kind = "evict"
  <2>1. LedgerOK(g)'
    BY <1>1, <1>2, HandEvict
  <2> QED
    BY <2>1 DEF Accounted
<1>3. CASE r.kind # "evict"
  <2>1. PICK h \in Ledger : Handed(g, h, p, r)
    BY <1>1, HandedLedger
  <2>2. PortAt(h, p)'
    BY <1>1, <1>3, <2>1, HandPort
  <2>3. /\ wd_sid_fifo' = wd_sid_fifo /\ pkb' = pkb
        /\ \A q \in CORE : q # p => PortStays(q)
    BY <1>1, HandState
  <2>4. PortTypeOK /\ PortsOK(g) /\ SlotOK(g) /\ ReceiveOK(g) /\ StampOK(g)
    BY DEF Inv, TypeOK, LedgerOK, PortsOK
  <2>5. /\ r.id \notin g.due
        /\ ~(Ready(p) /\ Packet(p) = r.id)
        /\ \A k \in 1 .. Len(g.owner[p]) : g.owner[p][k] # r.id
    BY <1>1, Fresh
  <2>6. ASSUME NEW q \in CORE, q # p PROVE SameFor(g, h, q)
    BY <1>1, <2>1, <2>6 DEF Handed, SameFor
  <2>7. \A q \in CORE : PortAt(h, q)'
    <3>1. g.now <= h.now
      BY <2>1, LedgerTypes DEF Handed
    <3> QED
      BY <2>2, <2>3, <2>4, <2>6, <3>1, PortKept DEF PortsOK
  <2>8. StampOK(h)'
    <3>1. /\ h.due = g.due \cup {r.id} /\ h.now = g.now + 1 /\ h.handed[r.id] = g.now
          /\ g.now \in Nat /\ r.id \in Id
          /\ \A j \in g.due : /\ h.handed[j] = g.handed[j] /\ g.handed[j] < g.now
                              /\ g.handed[j] \in Nat
      BY <1>1, <2>1, <2>4, <2>5, LedgerTypes DEF Handed, StampOK
    <3> QED
      BY <2>4, <3>1 DEF StampOK
  <2>9. ASSUME NEW i \in Id
        PROVE  \A d, s, n : Delivers(h, i, d, s, n)' <=> Delivers(g, i, d, s, n)
    <3>1. PICK q \in CORE : q = i[1]
      BY DEF Id
    <3>2. CASE q # p
      <4>1. SameFor(g, h, i[1]) /\ PackSameAt(i[1]) /\ wd_sid_fifo'[i[1]] = wd_sid_fifo[i[1]]
        BY <2>3, <2>6, <3>1, <3>2 DEF PackSameAt
      <4> QED
        BY <4>1, DeliversSame
    <3>3. CASE q = p /\ i # r.id
      <4>1. /\ h.owner = g.owner /\ h.to[i] = g.to[i] /\ h.from[i] = g.from[i]
        BY <2>1, <3>3 DEF Handed
      <4>2. Ready(q)' = Ready(q) /\ Packet(q)' = Packet(q)
        BY <2>3 DEF Ready, Packet
      <4> QED
        BY <2>3, <3>1, <4>1, <4>2 DEF Delivers
    <3>4. CASE i = r.id
      <4>1. h.owner = g.owner
        BY <2>1 DEF Handed
      <4>2. Ready(q)' = Ready(q) /\ Packet(q)' = Packet(q)
        BY <2>3 DEF Ready, Packet
      <4>3. Len(g.owner[q]) = Len(wd_sid_fifo[q]) /\ q = p
        BY <1>1, <2>4, <3>1, <3>4 DEF PortsOK, PortAt, GrantAt
      <4>4. ~(Ready(q) /\ Packet(q) = i)
            /\ \A k \in 1 .. Len(wd_sid_fifo[q]) : g.owner[q][k] # i
        BY <2>5, <3>4, <4>3
      <4> QED
        BY <2>3, <3>1, <4>1, <4>2, <4>4 DEF Delivers
    <3> QED
      BY <3>2, <3>3, <3>4
  <2>10. SlotOK(h)' /\ ReceiveOK(h)'
    <3>1. \A b, s : Slot(b, s)' = Slot(b, s)
      BY DEF AwHand, snb, Slot
    <3>2. \A b : Awaited(b)' = Awaited(b)
      BY DEF AwHand, snb, Awaited, SelCreate, TakesData
    <3>3. woq' = woq /\ woq \in Seq(Id) /\ h.owed = g.owed /\ h.granted = g.granted
      BY <2>1 DEF AwHand, ncq, Inv, TypeOK, NcqTypeOK, Handed
    <3> QED
      BY <2>4, <2>9, <3>1, <3>2, <3>3, ReceiversKept
  <2>11. LastOK(h)'
    BY <2>1, LastKept DEF LedgerOK, Handed, AwHand, snb
  <2>12. LedgerOK(h)'
    BY <2>7, <2>8, <2>10, <2>11 DEF LedgerOK, PortsOK
  <2> QED
    BY <2>12 DEF Accounted
<1> QED
  BY <1>2, <1>3

-----------------------------------------------------------------------------
(***************************************************************************)
(* The package buffer takes a beat of write data: it is one of the oldest  *)
(* write that was granted.                                                 *)
(***************************************************************************)

LEMMA AllOfFacts ==
  ASSUME NEW i
  PROVE  /\ AllOf(<<i>>, 1, i)
         /\ \A n \in Nat : \A d : AllOf(d, n, i) => /\ Len(d) = n /\ (n > 0 => d[1] = i)
                                                    /\ AllOf(Append(d, i), n + 1, i)
<1>1. AllOf(<<i>>, 1, i)
  BY DEF AllOf
<1>2. ASSUME NEW n \in Nat, NEW d, AllOf(d, n, i)
      PROVE  /\ Len(d) = n /\ (n > 0 => d[1] = i) /\ AllOf(Append(d, i), n + 1, i)
  <2>1. d = [k \in 1 .. n |-> i]
    BY <1>2 DEF AllOf
  <2>2. d \in Seq({i}) /\ Len(d) = n
    BY <2>1
  <2>3. /\ Append(d, i) \in Seq({i}) /\ Len(Append(d, i)) = n + 1
        /\ \A k \in 1 .. n + 1 : Append(d, i)[k] = i
    BY <2>1, <2>2
  <2>4. Append(d, i) = [k \in 1 .. n + 1 |-> i]
    <3>1. PICK e : e = Append(d, i)
      OBVIOUS
    <3>2. e \in Seq({i}) /\ Len(e) = n + 1 /\ \A k \in 1 .. n + 1 : e[k] = i
      BY <2>3, <3>1
    <3>3. e = [k \in 1 .. Len(e) |-> e[k]]
      BY <3>2
    <3> QED
      BY <3>1, <3>2, <3>3
  <2> QED
    BY <2>1, <2>2, <2>4 DEF AllOf
<1> QED
  BY <1>1, <1>2

\* What the beats of one write look like.
LEMMA AllOfWords ==
  ASSUME NEW i, NEW n \in Nat, NEW d, AllOf(d, n, i), n > 0
  PROVE  Len(d) = n /\ d[1] = i
<1>1. d = [k \in 1 .. n |-> i]
  BY DEF AllOf
<1>2. d \in Seq({i}) /\ Len(d) = n
  BY <1>1
<1> QED
  BY <1>1, <1>2

\* The class of a write says whether it is a victim.
LEMMA ClassInjective ==
  ASSUME NEW a \in BOOLEAN, NEW b \in BOOLEAN
  PROVE  ClassOf(a) = ClassOf(b) <=> a = b
BY DEF ClassOf

\* The oldest grant of a port: its write, and the beats of its class.
LEMMA OldestGrant ==
  ASSUME Inv, NEW g \in Ledger, LedgerOK(g), NEW p \in CORE, wd_sid_fifo[p] # <<>>
  PROVE  LET c == ClassOf(wd_sid_fifo[p][1].wns)
             i == g.owner[p][1] IN
         /\ c \in CLASS /\ i \in Stream(g, p, c)
         /\ Head(wd_sid_fifo[p]) = wd_sid_fifo[p][1] /\ wd_sid_fifo[p][1] \in SidEntry
         /\ WdFifo(p) = Beats(p, c)
         /\ wd_dfifo_sel_wns(p) <=> c = "wns"
         /\ Len(g.owner[p]) = Len(wd_sid_fifo[p]) /\ Len(g.owner[p]) \in Nat /\ Len(g.owner[p]) > 0
         /\ \A d \in CLASS : \A j \in Stream(g, p, d) : j # i =>
              \/ d # c
              \/ g.handed[i] < g.handed[j] /\ g.to[i] <= g.from[j]
<1> DEFINE c == ClassOf(wd_sid_fifo[p][1].wns)
           i == g.owner[p][1]
<1>1. PortTypeOK /\ PortAt(g, p)
  BY DEF Inv, TypeOK, LedgerOK, PortsOK
<1>2. /\ wd_sid_fifo[p] \in Seq(SidEntry) /\ Len(wd_sid_fifo[p]) \in Nat /\ Len(wd_sid_fifo[p]) > 0
      /\ Head(wd_sid_fifo[p]) = wd_sid_fifo[p][1] /\ wd_sid_fifo[p][1] \in SidEntry
  BY <1>1, PortTypes
<1>3. c \in CLASS
  BY ClassType
<1>4. /\ WdFifo(p) = Beats(p, c)
      /\ wd_dfifo_sel_wns(p) <=> c = "wns"
  BY <1>2 DEF WdFifo, Beats, wd_dfifo_sel_wns, ClassOf
<1>5. /\ Len(g.owner[p]) = Len(wd_sid_fifo[p]) /\ i \in Stream(g, p, c)
      /\ 1 \in 1 .. Len(wd_sid_fifo[p])
  BY <1>1, <1>2 DEF PortAt, GrantAt
<1>6. ASSUME NEW j \in Stream(g, p, c), j # i
      PROVE  g.handed[i] < g.handed[j] /\ g.to[i] <= g.from[j]
  <2>1. \/ \E k \in 1 .. Len(wd_sid_fifo[p]) : g.owner[p][k] = j
        \/ HasData(Register(p, c)) /\ Register(p, c).id = j
    BY <1>1, <1>3, <1>6 DEF PortAt, GrantAt
  <2>2. g.handed[i] < g.handed[j]
    <3>1. ASSUME NEW k \in 1 .. Len(wd_sid_fifo[p]), g.owner[p][k] = j
          PROVE  g.handed[i] < g.handed[j]
      <4>1. 1 < k
        BY <1>2, <1>6, <3>1
      <4>2. j \in Stream(g, p, ClassOf(wd_sid_fifo[p][k].wns))
        BY <1>1, <3>1 DEF PortAt, GrantAt
      <4>3. ClassOf(wd_sid_fifo[p][k].wns) = c
        BY <1>6, <4>2 DEF Stream
      <4>4. wd_sid_fifo[p][k].wns = wd_sid_fifo[p][1].wns
        <5>1. wd_sid_fifo[p][k] \in SidEntry
          BY <1>1, <3>1, PortTypes
        <5>2. wd_sid_fifo[p][k].wns \in BOOLEAN /\ wd_sid_fifo[p][1].wns \in BOOLEAN
          BY <1>2, <5>1 DEF SidEntry
        <5> QED
          BY <4>3, <5>2, ClassInjective
      <4> QED
        BY <1>1, <1>5, <3>1, <4>1, <4>4 DEF PortAt, GrantAt
    <3>2. ASSUME HasData(Register(p, c)), Register(p, c).id = j
          PROVE  g.handed[i] < g.handed[j]
      BY <1>1, <1>3, <1>5, <1>6, <3>2 DEF PortAt, RegisterAt
    <3> QED
      BY <2>1, <3>1, <3>2
  <2> QED
    BY <1>1, <1>3, <1>5, <1>6, <2>2 DEF PortAt, StreamAt
<1> QED
  BY <1>2, <1>3, <1>4, <1>5, <1>6

\* The next beat is that of the oldest grant.
LEMMA OldestBeat ==
  ASSUME Inv, NEW g \in Ledger, LedgerOK(g), NEW p \in CORE, wd_pkb_req(p)
  PROVE  LET c == ClassOf(wd_sid_fifo[p][1].wns)
             i == g.owner[p][1]
             b == Head(WdFifo(p)) IN
         /\ Beats(p, c) # <<>> /\ Beats(p, c) \in Seq(Beat) /\ b = Beats(p, c)[1]
         /\ b.id = i /\ (b.last <=> g.packed[p][c] + 1 = g.to[i])
         /\ g.from[i] <= g.packed[p][c] /\ g.packed[p][c] < g.to[i]
         /\ ~HalfWay(p) => g.from[i] = g.packed[p][c]
<1>1. PICK c, i : c = ClassOf(wd_sid_fifo[p][1].wns) /\ i = g.owner[p][1]
  OBVIOUS
<1>2. PortTypeOK /\ PortAt(g, p) /\ wd_sid_fifo[p] # <<>> /\ WdFifo(p) # <<>>
  BY DEF Inv, TypeOK, LedgerOK, PortsOK, wd_pkb_req
<1>3. /\ c \in CLASS /\ i \in Stream(g, p, c) /\ WdFifo(p) = Beats(p, c)
      /\ \A j \in Stream(g, p, c) : j # i => g.to[i] <= g.from[j]
  BY <1>1, <1>2, OldestGrant
<1>4. /\ Beats(p, c) \in Seq(Beat) /\ Beats(p, c) # <<>> /\ Len(Beats(p, c)) > 0
      /\ Head(WdFifo(p)) = Beats(p, c)[1] /\ 1 \in 1 .. Len(Beats(p, c))
  BY <1>2, <1>3, PortTypes, WordFacts
<1>5. PICK b : b = Beats(p, c)[1]
  OBVIOUS
<1>6. /\ b.id \in Stream(g, p, c) /\ g.from[b.id] < g.packed[p][c] + 1
      /\ g.packed[p][c] + 1 <= g.to[b.id] /\ (b.last <=> g.packed[p][c] + 1 = g.to[b.id])
  BY <1>2, <1>3, <1>4, <1>5 DEF PortAt, BeatsAt, BeatOK
<1>7. /\ g.packed[p][c] \in Nat /\ g.from[i] \in Nat /\ g.to[i] \in Nat
      /\ g.from[b.id] \in Nat /\ g.packed[p][c] < g.to[i]
  BY <1>2, <1>3, <1>6, LedgerTypes, StreamType DEF PortAt, StreamAt
<1>8. b.id = i
  BY <1>3, <1>6, <1>7
<1>9. ~HalfWay(p) => g.packed[p][c] <= g.from[i]
  BY <1>2, <1>3 DEF PortAt, PackAt
<1>10. g.from[i] <= g.packed[p][c]
  BY <1>6, <1>7, <1>8
<1>11. ~HalfWay(p) => g.from[i] = g.packed[p][c]
  BY <1>7, <1>9, <1>10
<1>12. /\ b = Head(WdFifo(p)) /\ b = Beats(p, c)[1] /\ b.id = i
       /\ b.last <=> g.packed[p][c] + 1 = g.to[i]
  BY <1>4, <1>5, <1>6, <1>8
<1> QED
  BY <1>1, <1>4, <1>7, <1>10, <1>11, <1>12

\* What a beat moved to the package buffer changes in its port.
LEMMA PkbState ==
  ASSUME Inv, NEW g \in Ledger, LedgerOK(g), NEW p \in CORE, PkbWd(p),
         NEW x, x = wd_sid_fifo[p][1], NEW c, c = ClassOf(x.wns), NEW i, i = g.owner[p][1],
         NEW n, n = g.packed[p][c] + 1
  PROVE  /\ Beats(p, c)' = Tail(Beats(p, c))
         /\ \A d \in CLASS : d # c => Beats(p, d)' = Beats(p, d)
         /\ \A d : Register(p, d)' = Register(p, d)
         /\ bus_arb_w_fifo' = bus_arb_w_fifo
         /\ wd_sid_fifo'[p] = IF n = g.to[i] THEN Tail(wd_sid_fifo[p]) ELSE wd_sid_fifo[p]
         /\ ~Ready(p) /\ (HalfWay(p) \/ pkb[p] = NONE)
         /\ Ready(p)' <=> n = g.to[i]
         /\ HalfWay(p)' <=> n # g.to[i]
         /\ pkb'[p].dest = x.dest /\ pkb'[p].sid = x.sid
         /\ AllOf(pkb'[p].data, n - g.from[i], i)
         /\ \A q \in CORE : q # p => PortStays(q)
<1>1. PICK b : b = Head(WdFifo(p))
  OBVIOUS
<1>2. PortTypeOK /\ PortAt(g, p) /\ wd_sid_fifo[p] # <<>> /\ wd_pkb_req(p)
  BY DEF Inv, TypeOK, LedgerOK, PortsOK, wd_pkb_req, PkbWd, pkb_wd_grant
<1>3. /\ c \in CLASS /\ i \in Stream(g, p, c) /\ WdFifo(p) = Beats(p, c)
      /\ wd_dfifo_sel_wns(p) <=> c = "wns"
      /\ Head(wd_sid_fifo[p]) = x /\ x \in SidEntry
  BY <1>2, OldestGrant
<1>4. /\ b.id = i /\ (b.last <=> n = g.to[i]) /\ b.last \in BOOLEAN /\ b \in Beat
      /\ g.from[i] < n /\ n <= g.to[i] /\ n \in Nat /\ g.from[i] \in Nat
      /\ ~HalfWay(p) => g.from[i] = n - 1
  <2>1. /\ Beats(p, c) # <<>> /\ Beats(p, c) \in Seq(Beat) /\ b = Beats(p, c)[1]
        /\ b.id = i /\ (b.last <=> g.packed[p][c] + 1 = g.to[i])
        /\ g.from[i] <= g.packed[p][c] /\ g.packed[p][c] < g.to[i]
        /\ ~HalfWay(p) => g.from[i] = g.packed[p][c]
    BY <1>1, <1>2, OldestBeat
  <2>2. b \in Beat
    BY <2>1, WordFacts
  <2>3. b.last \in BOOLEAN
    BY <2>2 DEF Beat
  <2>4. g.packed[p][c] \in Nat /\ g.from[i] \in Nat /\ g.to[i] \in Nat
    BY <1>3, LedgerTypes, StreamType
  <2> QED
    BY SMTT(30), <2>1, <2>2, <2>3, <2>4
<1>5. /\ wd_sid_fifo \in [CORE -> Seq(SidEntry)]
      /\ wd_ws_dfifo \in [CORE -> Seq(Beat)] /\ wd_wns_dfifo \in [CORE -> Seq(Beat)]
      /\ pkb \in [CORE -> Package \cup {NONE}] /\ NONE \notin Package
  BY <1>2, NoneAssumption DEF PortTypeOK
<1>6. HalfWay(p) \/ pkb[p] = NONE
  BY DEF PkbWd, pkb_wd_grant, HalfWay
<1>7. ~Ready(p)
  BY <1>6 DEF HalfWay, Ready, Filling
<1>8. UNCHANGED <<bus_arb_w_fifo, aw, cd, snb, ncq>>
  BY DEF PkbWd
<1>9. /\ c = "wns" => /\ wd_wns_dfifo' = [wd_wns_dfifo EXCEPT ![p] = Tail(@)]
                      /\ wd_ws_dfifo' = wd_ws_dfifo
      /\ c # "wns" => /\ wd_ws_dfifo' = [wd_ws_dfifo EXCEPT ![p] = Tail(@)]
                      /\ wd_wns_dfifo' = wd_wns_dfifo
  BY <1>3 DEF PkbWd
<1>10. /\ Beats(p, c)' = Tail(Beats(p, c))
       /\ \A d \in CLASS : d # c => Beats(p, d)' = Beats(p, d)
  BY <1>3, <1>5, <1>9 DEF Beats, CLASS
<1>11. \A d : Register(p, d)' = Register(p, d)
  BY <1>8 DEF Register, aw
<1>12. wd_sid_fifo' = [wd_sid_fifo EXCEPT ![p] = IF b.last THEN Tail(@) ELSE @]
  BY <1>1 DEF PkbWd
<1>13. wd_sid_fifo'[p] = IF n = g.to[i] THEN Tail(wd_sid_fifo[p]) ELSE wd_sid_fifo[p]
  BY <1>4, <1>5, <1>12
<1>14. PICK data : data = IF pkb[p] = NONE THEN <<i>> ELSE Append(pkb[p].data, i)
  OBVIOUS
<1>15. pkb' = [pkb EXCEPT ![p] = IF @ = NONE THEN [cd |-> FALSE, dest |-> x.dest, sid |-> x.sid,
                                                   data |-> data, rdy |-> b.last]
                                 ELSE [@ EXCEPT !.data = data, !.rdy = b.last]]
  BY <1>1, <1>3, <1>4, <1>14 DEF PkbWd
<1>16. AllOf(data, n - g.from[i], i) /\ data \in Data
  <2>1. i \in Id
    BY <1>3, StreamType
  <2>2. data \in Data
    BY <1>2, <1>14, <2>1, DataGrows
  <2>3. CASE pkb[p] = NONE
    <3>1. n - g.from[i] = 1
      BY <1>4, <2>3 DEF HalfWay, Filling
    <3> QED
      BY <1>14, <2>2, <2>3, <3>1, AllOfFacts
  <2>4. CASE pkb[p] # NONE
    <3>1. HalfWay(p)
      BY <1>6, <2>4
    <3>2. AllOf(pkb[p].data, g.packed[p][c] - g.from[i], i)
      BY <1>2, <3>1 DEF PortAt, PackAt
    <3>3. g.packed[p][c] - g.from[i] \in Nat /\ n - g.from[i] = g.packed[p][c] - g.from[i] + 1
      BY SMTT(30), <1>3, <1>4, LedgerTypes
    <3> QED
      BY <1>14, <2>2, <2>4, <3>2, <3>3, AllOfFacts
  <2> QED
    BY <2>3, <2>4
<1>17. /\ pkb'[p] # NONE /\ pkb'[p].cd = FALSE /\ pkb'[p].data = data /\ pkb'[p].rdy = b.last
       /\ pkb'[p].dest = x.dest /\ pkb'[p].sid = x.sid
  <2>1. CASE pkb[p] = NONE
    <3>1. pkb'[p] = [cd |-> FALSE, dest |-> x.dest, sid |-> x.sid, data |-> data, rdy |-> b.last]
      BY <1>5, <1>15, <2>1
    <3>2. pkb'[p] \in Package
      <4>1. x.dest \in Receiver /\ x.sid \in WSID
        BY <1>3 DEF SidEntry
      <4>2. b.last \in BOOLEAN
        BY <1>4 DEF Beat
      <4>3. PICK d, s, l : d = x.dest /\ s = x.sid /\ l = b.last
        OBVIOUS
      <4>4. [cd |-> FALSE, dest |-> d, sid |-> s, data |-> data, rdy |-> l] \in Package
        BY <1>16, <4>1, <4>2, <4>3 DEF Package
      <4> QED
        BY <3>1, <4>3, <4>4, Zenon
    <3>3. /\ pkb'[p].cd = FALSE /\ pkb'[p].data = data /\ pkb'[p].rdy = b.last
          /\ pkb'[p].dest = x.dest /\ pkb'[p].sid = x.sid
      <4>1. PICK l, r : l = b.last /\ r = pkb'[p]
        OBVIOUS
      <4>2. r = [cd |-> FALSE, dest |-> x.dest, sid |-> x.sid, data |-> data, rdy |-> l]
        BY <3>1, <4>1
      <4>3. r.cd = FALSE /\ r.data = data /\ r.rdy = l /\ r.dest = x.dest /\ r.sid = x.sid
        BY <4>2
      <4> QED
        BY <4>1, <4>3, Zenon
    <3>4. pkb'[p] # NONE
      BY <1>5, <3>2
    <3> QED
      BY <3>3, <3>4
  <2>2. CASE pkb[p] # NONE
    <3>1. HalfWay(p) /\ pkb[p] \in Package
      BY <1>5, <1>6, <2>2
    <3>2. pkb'[p] = [pkb[p] EXCEPT !.data = data, !.rdy = b.last]
      BY <1>5, <1>15, <2>2
    <3>3. pkb'[p] \in Package /\ pkb'[p].cd = pkb[p].cd /\ pkb'[p].data = data
          /\ pkb'[p].rdy = b.last /\ pkb'[p].dest = pkb[p].dest /\ pkb'[p].sid = pkb[p].sid
      BY <1>4, <1>16, <3>1, <3>2 DEF Package
    <3>4. pkb[p].dest = x.dest /\ pkb[p].sid = x.sid
      BY <1>2, <3>1 DEF PortAt, PackAt
    <3>5. pkb[p].cd = FALSE
      BY <3>1 DEF HalfWay, Package
    <3> QED
      BY <1>5, <3>3, <3>4, <3>5
  <2> QED
    BY <2>1, <2>2
<1>18. /\ Ready(p)' <=> n = g.to[i]
       /\ HalfWay(p)' <=> n # g.to[i]
  BY <1>4, <1>17 DEF Ready, HalfWay, Filling
<1>19. \A q \in CORE : q # p => PortStays(q)
  BY <1>5, <1>8, <1>9, <1>12, <1>15 DEF PortStays, PackSameAt, aw
<1> QED
  BY <1>6, <1>7, <1>8, <1>10, <1>11, <1>13, <1>16, <1>17, <1>18, <1>19

\* The account h follows from g when a beat of the write i is packed.
PackedBeat(g, h, p, c, i) ==
  LET n == g.packed[p][c] + 1 IN
  /\ h.class = g.class /\ h.from = g.from /\ h.to = g.to /\ h.handed = g.handed
  /\ h.granted = g.granted /\ h.owed = g.owed /\ h.total = g.total /\ h.now = g.now
  /\ \A q \in CORE, d \in CLASS :
       h.packed[q][d] = IF q = p /\ d = c THEN n ELSE g.packed[q][d]
  /\ \A q \in CORE : q # p => h.packed[q] = g.packed[q] /\ h.owner[q] = g.owner[q]
  /\ n = g.to[i] => h.due = g.due \ {i} /\ h.owner[p] = Tail(g.owner[p])
  /\ n # g.to[i] => h.due = g.due /\ h.owner[p] = g.owner[p]

\* There is an account that is continued by a beat moved.
LEMMA PackedLedger ==
  ASSUME NEW g \in Ledger, NEW p \in CORE, NEW c \in CLASS, NEW i \in Id, g.owner[p] # <<>>
  PROVE  \E h \in Ledger : PackedBeat(g, h, p, c, i)
<1>1. /\ g.owner \in [CORE -> Seq(Id)] /\ g.owed \in [BANK -> Seq(Id)]
      /\ g.due \subseteq Id /\ g.now \in Nat /\ g.class \in [Id -> CLASS]
      /\ g.from \in [Id -> Nat] /\ g.to \in [Id -> Nat]
      /\ g.handed \in [Id -> Nat] /\ g.granted \in [Id -> Nat]
      /\ g.packed \in [CORE -> [CLASS -> Nat]] /\ g.total \in [CORE -> [CLASS -> Nat]]
  BY LedgerFields
<1>2. PICK n \in Nat : n = g.packed[p][c] + 1
  BY <1>1
<1>3. PICK tp \in [CLASS -> Nat] :
        \A d \in CLASS : tp[d] = IF d = c THEN n ELSE g.packed[p][d]
  <2>1. [g.packed[p] EXCEPT ![c] = n] \in [CLASS -> Nat]
    BY <1>1
  <2>2. \A d \in CLASS : [g.packed[p] EXCEPT ![c] = n][d] = IF d = c THEN n ELSE g.packed[p][d]
    BY <1>1
  <2> QED
    BY <2>1, <2>2
<1>4. PICK pk \in [CORE -> [CLASS -> Nat]] :
        pk[p] = tp /\ \A q \in CORE : q # p => pk[q] = g.packed[q]
  <2>1. [g.packed EXCEPT ![p] = tp] \in [CORE -> [CLASS -> Nat]]
    BY <1>1
  <2> QED
    BY <1>1, <2>1
<1>5. PICK ow \in [CORE -> Seq(Id)] :
        /\ ow[p] = IF n = g.to[i] THEN Tail(g.owner[p]) ELSE g.owner[p]
        /\ \A q \in CORE : q # p => ow[q] = g.owner[q]
  <2>1. g.owner[p] \in Seq(Id)
    BY <1>1
  <2>2. Tail(g.owner[p]) \in Seq(Id)
    BY <2>1, SeqFacts
  <2>3. PICK o \in Seq(Id) : o = IF n = g.to[i] THEN Tail(g.owner[p]) ELSE g.owner[p]
    BY <2>1, <2>2
  <2>4. [g.owner EXCEPT ![p] = o] \in [CORE -> Seq(Id)]
    BY <1>1
  <2>5. /\ [g.owner EXCEPT ![p] = o][p] = o
        /\ \A q \in CORE : q # p => [g.owner EXCEPT ![p] = o][q] = g.owner[q]
    BY <1>1
  <2> QED
    BY <2>3, <2>4, <2>5
<1>6. PICK du \in SUBSET Id : du = IF n = g.to[i] THEN g.due \ {i} ELSE g.due
  BY <1>1
<1> DEFINE h == [due |-> du, class |-> g.class, from |-> g.from, to |-> g.to, handed |-> g.handed,
                 granted |-> g.granted, owner |-> ow, owed |-> g.owed,
                 packed |-> pk, total |-> g.total, now |-> g.now]
<1>7. h \in Ledger
  BY <1>1, Zenon DEF Ledger
<1>8. /\ h.due = du /\ h.class = g.class /\ h.from = g.from /\ h.to = g.to
      /\ h.handed = g.handed /\ h.granted = g.granted /\ h.owner = ow /\ h.owed = g.owed
      /\ h.packed = pk /\ h.total = g.total /\ h.now = g.now
  OBVIOUS
<1> HIDE DEF h
<1>9. PackedBeat(g, h, p, c, i)
  BY <1>2, <1>3, <1>4, <1>5, <1>6, <1>8 DEF PackedBeat
<1> QED
  BY <1>7, <1>9

\* A queue with or without its first word.
LEMMA TailWords ==
  ASSUME NEW S, NEW q \in Seq(S), q # <<>>, NEW off \in {0, 1},
         NEW r, r = IF off = 1 THEN Tail(q) ELSE q
  PROVE  /\ Len(r) = Len(q) - off
         /\ \A k \in 1 .. Len(q) - off : r[k] = q[k + off]
<1>1. CASE off = 1
  <2>1. r = Tail(q)
    BY <1>1
  <2>2. Len(Tail(q)) = Len(q) - 1 /\ \A k \in 1 .. Len(q) - 1 : Tail(q)[k] = q[k + 1]
    BY WordFacts
  <2> QED
    BY <1>1, <2>1, <2>2
<1>2. CASE off = 0
  <2>1. r = q
    BY <1>2
  <2>2. \A k \in 1 .. Len(q) : k + 0 = k
    OBVIOUS
  <2>3. Len(q) \in Nat
    OBVIOUS
  <2> QED
    BY <1>2, <2>1, <2>2, <2>3
<1> QED
  BY <1>1, <1>2

\* The port that moved a beat agrees with the account continued.
LEMMA PkbPort ==
  ASSUME Inv, NEW g \in Ledger, NEW h \in Ledger, LedgerOK(g), NEW p \in CORE, PkbWd(p),
         NEW x, x = wd_sid_fifo[p][1], NEW c, c = ClassOf(x.wns), NEW i, i = g.owner[p][1],
         PackedBeat(g, h, p, c, i)
  PROVE  PortAt(h, p)'
<1>1. PICK n : n = g.packed[p][c] + 1
  OBVIOUS
<1>2. PortTypeOK /\ PortAt(g, p) /\ wd_sid_fifo[p] # <<>> /\ wd_pkb_req(p)
  BY DEF Inv, TypeOK, LedgerOK, PortsOK, wd_pkb_req, PkbWd, pkb_wd_grant
<1>3. /\ c \in CLASS /\ i \in Stream(g, p, c) /\ x \in SidEntry
      /\ Len(g.owner[p]) = Len(wd_sid_fifo[p]) /\ Len(g.owner[p]) \in Nat /\ Len(g.owner[p]) > 0
      /\ \A d \in CLASS : \A j \in Stream(g, p, d) : j # i =>
              \/ d # c
              \/ g.handed[i] < g.handed[j] /\ g.to[i] <= g.from[j]
  BY <1>2, OldestGrant
<1>4. /\ Beats(p, c) \in Seq(Beat) /\ Beats(p, c) # <<>>
      /\ g.from[i] <= g.packed[p][c] /\ g.packed[p][c] < g.to[i]
  BY <1>2, OldestBeat
<1>5. /\ Beats(p, c)' = Tail(Beats(p, c))
      /\ \A d \in CLASS : d # c => Beats(p, d)' = Beats(p, d)
      /\ \A d : Register(p, d)' = Register(p, d)
      /\ bus_arb_w_fifo' = bus_arb_w_fifo
      /\ wd_sid_fifo'[p] = IF n = g.to[i] THEN Tail(wd_sid_fifo[p]) ELSE wd_sid_fifo[p]
      /\ ~Ready(p) /\ (HalfWay(p) \/ pkb[p] = NONE)
      /\ Ready(p)' <=> n = g.to[i]
      /\ HalfWay(p)' <=> n # g.to[i]
      /\ pkb'[p].dest = x.dest /\ pkb'[p].sid = x.sid
      /\ AllOf(pkb'[p].data, n - g.from[i], i)
  BY <1>1, PkbState
<1>6. PICK off \in {0, 1} : off = 1 <=> n = g.to[i]
  OBVIOUS
<1>7. /\ h.class = g.class /\ h.from = g.from /\ h.to = g.to /\ h.handed = g.handed
      /\ h.granted = g.granted /\ h.owed = g.owed /\ h.total = g.total /\ h.now = g.now
      /\ h.packed[p][c] = n /\ \A d \in CLASS : d # c => h.packed[p][d] = g.packed[p][d]
      /\ off = 1 => h.due = g.due \ {i} /\ h.owner[p] = Tail(g.owner[p])
      /\ off = 0 => h.due = g.due /\ h.owner[p] = g.owner[p]
  BY <1>1, <1>3, <1>6 DEF PackedBeat
<1>8. /\ g.owner[p] \in Seq(Id) /\ g.owner[p] # <<>> /\ wd_sid_fifo[p] \in Seq(SidEntry)
      /\ \A d \in CLASS : /\ g.packed[p][d] \in Nat /\ g.total[p][d] \in Nat
                          /\ Len(Beats(p, d)) \in Nat
  BY <1>2, <1>3, LedgerTypes, PortTypes
<1>9. /\ Len(h.owner[p]) = Len(g.owner[p]) - off
      /\ \A k \in 1 .. Len(g.owner[p]) - off : h.owner[p][k] = g.owner[p][k + off]
  <2>1. h.owner[p] = IF off = 1 THEN Tail(g.owner[p]) ELSE g.owner[p]
    BY <1>6, <1>7
  <2> QED
    BY <1>8, <2>1, TailWords
<1>10. /\ Len(wd_sid_fifo'[p]) = Len(g.owner[p]) - off
       /\ \A k \in 1 .. Len(g.owner[p]) - off : wd_sid_fifo'[p][k] = wd_sid_fifo[p][k + off]
  <2>1. wd_sid_fifo'[p] = IF off = 1 THEN Tail(wd_sid_fifo[p]) ELSE wd_sid_fifo[p]
    BY <1>5, <1>6
  <2>2. /\ Len(wd_sid_fifo'[p]) = Len(wd_sid_fifo[p]) - off
        /\ \A k \in 1 .. Len(wd_sid_fifo[p]) - off : wd_sid_fifo'[p][k] = wd_sid_fifo[p][k + off]
    BY <1>2, <1>8, <2>1, TailWords
  <2> QED
    BY <1>3, <2>2
<1>11. /\ Len(Beats(p, c)) > 0 /\ Len(Beats(p, c)') = Len(Beats(p, c)) - 1
       /\ \A k \in 1 .. Len(Beats(p, c)) - 1 : Beats(p, c)'[k] = Beats(p, c)[k + 1]
  <2>1. PICK q : q = Beats(p, c) /\ q \in Seq(Beat) /\ q # <<>>
    BY <1>4
  <2>2. Len(q) > 0 /\ Len(Tail(q)) = Len(q) - 1 /\ \A k \in 1 .. Len(q) - 1 : Tail(q)[k] = q[k + 1]
    BY <2>1, WordFacts
  <2> QED
    BY <1>5, <2>1, <2>2
<1>12. \A d \in CLASS : Sent(h, p, d)' = Sent(g, p, d)
  <2>1. Sent(h, p, c)' = Sent(g, p, c)
    <3>1. n + (Len(Beats(p, c)) - 1) = g.packed[p][c] + Len(Beats(p, c))
      <4>1. g.packed[p][c] \in Nat /\ Len(Beats(p, c)) \in Nat
        BY <1>3, <1>8
      <4> QED
        BY <1>1, <4>1
    <3>2. Sent(h, p, c)' = n + (Len(Beats(p, c)) - 1)
      BY <1>7, <1>11 DEF Sent
    <3> QED
      BY <3>1, <3>2 DEF Sent
  <2>2. \A d \in CLASS : d # c => Sent(h, p, d)' = Sent(g, p, d)
    BY <1>5, <1>7 DEF Sent
  <2> QED
    BY <2>1, <2>2
<1>13. /\ off = 1 => Stream(h, p, c) = Stream(g, p, c) \ {i}
       /\ off = 0 => Stream(h, p, c) = Stream(g, p, c)
       /\ \A d \in CLASS : d # c => Stream(h, p, d) = Stream(g, p, d)
  BY <1>3, <1>7, StreamType DEF Stream
<1>14. \A d : Stream(h, p, d)' = Stream(h, p, d)
  BY DEF Stream
<1>15. \A d \in CLASS : \A j \in Stream(h, p, d)' :
         /\ j \in Stream(g, p, d) /\ (off = 1 => j # i)
         /\ g.from[j] \in Nat /\ g.to[j] \in Nat /\ g.handed[j] \in Nat
  <2>1. \A d \in CLASS : i \in Stream(g, p, d) => d = c
    BY <1>3, StreamType
  <2> QED
    BY <1>13, <1>14, <2>1, StreamType
<1>16. \A d \in CLASS : \A j \in Stream(g, p, d) : off = 0 \/ j # i => j \in Stream(h, p, d)'
  BY <1>3, <1>6, <1>13, <1>14
<1>17. g.from[i] \in Nat /\ g.to[i] \in Nat /\ n \in Nat /\ n <= g.to[i] /\ g.from[i] < n
  <2>1. g.from[i] \in Nat /\ g.to[i] \in Nat
    BY <1>3, StreamType
  <2>2. g.packed[p][c] \in Nat
    BY <1>3, <1>8
  <2> QED
    BY <1>1, <1>4, <2>1, <2>2
<1>18. \A j \in Stream(h, p, c)' : n < g.to[j]
  <2> TAKE j \in Stream(h, p, c)'
  <2>1. j \in Stream(g, p, c) /\ (off = 1 => j # i) /\ g.from[j] < g.to[j]
    BY <1>2, <1>3, <1>15 DEF PortAt, StreamAt
  <2>2. CASE j = i
    BY <1>6, <1>17, <2>1, <2>2
  <2>3. CASE j # i
    BY <1>3, <1>15, <1>17, <2>1, <2>3
  <2> QED
    BY <2>2, <2>3
<1>19. StreamAt(h, p)'
  <2> SUFFICES ASSUME NEW d \in CLASS
               PROVE  /\ Sent(g, p, d) <= g.total[p][d]
                      /\ \A j \in Stream(h, p, d)' :
                           /\ h.packed[p][d] < g.to[j] /\ g.to[j] <= g.total[p][d]
                           /\ g.from[j] < g.to[j] /\ g.to[j] <= g.from[j] + LINE_BEATS
                      /\ \A j, k \in Stream(h, p, d)' :
                           g.handed[j] < g.handed[k] => g.to[j] <= g.from[k]
                      /\ \A m \in h.packed[p][d] + 1 .. g.total[p][d] :
                           \E j \in Stream(h, p, d)' : g.from[j] < m /\ m <= g.to[j]
    BY <1>7, <1>12 DEF StreamAt
  <2>1. /\ Sent(g, p, d) <= g.total[p][d]
        /\ \A j \in Stream(g, p, d) :
             /\ g.packed[p][d] < g.to[j] /\ g.to[j] <= g.total[p][d]
             /\ g.from[j] < g.to[j] /\ g.to[j] <= g.from[j] + LINE_BEATS
        /\ \A j, k \in Stream(g, p, d) : g.handed[j] < g.handed[k] => g.to[j] <= g.from[k]
        /\ \A m \in g.packed[p][d] + 1 .. g.total[p][d] :
             \E j \in Stream(g, p, d) : g.from[j] < m /\ m <= g.to[j]
    BY <1>2 DEF PortAt, StreamAt
  <2>2. \A j \in Stream(h, p, d)' :
          /\ h.packed[p][d] < g.to[j] /\ g.to[j] <= g.total[p][d]
          /\ g.from[j] < g.to[j] /\ g.to[j] <= g.from[j] + LINE_BEATS
    BY <1>7, <1>15, <1>18, <2>1
  <2>3. \A j, k \in Stream(h, p, d)' : g.handed[j] < g.handed[k] => g.to[j] <= g.from[k]
    BY <1>15, <2>1
  <2>4. ASSUME NEW m \in h.packed[p][d] + 1 .. g.total[p][d]
        PROVE  \E j \in Stream(h, p, d)' : g.from[j] < m /\ m <= g.to[j]
    <3>1. g.packed[p][d] \in Nat /\ g.total[p][d] \in Nat
      BY <1>8
    <3>2. m \in g.packed[p][d] + 1 .. g.total[p][d] /\ (d = c => m > n)
      BY SMTT(30), <1>1, <1>7, <1>17, <2>4, <3>1
    <3>3. PICK j \in Stream(g, p, d) : g.from[j] < m /\ m <= g.to[j]
      BY <2>1, <3>2
    <3>4. off = 0 \/ j # i
      <4>1. j = i => d = c
        BY <1>3, StreamType
      <4> QED
        BY <1>6, <1>17, <3>2, <3>3, <4>1
    <3> QED
      BY <1>16, <3>3, <3>4
  <2> QED
    BY <2>1, <2>2, <2>3, <2>4
<1>20. BeatsAt(h, p)'
  <2>1. \A d \in CLASS : \A k \in 1 .. Len(Beats(p, d)) :
          LET b == Beats(p, d)[k]
              m == g.packed[p][d] + k IN
          /\ b.id \in Stream(g, p, d)
          /\ g.from[b.id] < m /\ m <= g.to[b.id]
          /\ b.last <=> m = g.to[b.id]
    BY <1>2 DEF PortAt, BeatsAt, BeatOK
  <2> SUFFICES ASSUME NEW d \in CLASS, NEW k \in 1 .. Len(Beats(p, d)')
               PROVE  LET b == Beats(p, d)'[k]
                          m == h.packed[p][d] + k IN
                      /\ b.id \in Stream(h, p, d)'
                      /\ g.from[b.id] < m /\ m <= g.to[b.id]
                      /\ b.last <=> m = g.to[b.id]
    BY <1>7 DEF BeatsAt, BeatOK
  <2>2. CASE d # c
    <3>1. Beats(p, d)' = Beats(p, d) /\ h.packed[p][d] = g.packed[p][d]
      BY <1>5, <1>7, <2>2
    <3>2. Stream(h, p, d)' = Stream(g, p, d)
      BY <1>13, <1>14, <2>2
    <3> QED
      BY <2>1, <3>1, <3>2
  <2>3. CASE d = c
    <3>1. k \in 1 .. Len(Beats(p, c)) - 1 /\ k + 1 \in 1 .. Len(Beats(p, c))
      BY <1>3, <1>8, <1>11, <2>3
    <3>2. Beats(p, d)'[k] = Beats(p, c)[k + 1]
      BY <1>11, <2>3, <3>1
    <3>3. h.packed[p][d] + k = g.packed[p][c] + (k + 1) /\ n < g.packed[p][c] + (k + 1)
      <4>1. g.packed[p][c] \in Nat
        BY <1>3, <1>8
      <4>2. h.packed[p][d] = n
        BY <1>7, <2>3
      <4>3. k \in Nat /\ k > 0
        BY <1>3, <1>8, <3>1
      <4> QED
        BY <1>1, <4>1, <4>2, <4>3
    <3>4. PICK b, m : b = Beats(p, c)[k + 1] /\ m = g.packed[p][c] + (k + 1)
      OBVIOUS
    <3>5. /\ b.id \in Stream(g, p, c) /\ g.from[b.id] < m /\ m <= g.to[b.id]
          /\ b.last <=> m = g.to[b.id]
      BY <1>3, <2>1, <3>1, <3>4
    <3>6. off = 0 \/ b.id # i
      <4>1. n < m /\ m \in Nat
        <5>1. g.packed[p][c] \in Nat /\ k + 1 \in Nat
          BY <1>3, <1>8, <3>1
        <5> QED
          BY <3>3, <3>4, <5>1
      <4>2. ~(m <= n)
        BY <1>17, <4>1
      <4> QED
        BY <1>6, <3>5, <4>2
    <3>7. b.id \in Stream(h, p, d)'
      BY <1>16, <2>3, <3>5, <3>6
    <3> QED
      BY <3>2, <3>3, <3>4, <3>5, <3>7
  <2> QED
    BY <2>2, <2>3
<1>21. n <= Sent(g, p, c)
  <2>1. g.packed[p][c] \in Nat /\ Len(Beats(p, c)) \in Nat /\ Len(Beats(p, c)) > 0
    BY <1>3, <1>8, <1>11
  <2> QED
    BY <1>1, <2>1 DEF Sent
<1>22. BusAt(h, p)'
  <2> DEFINE q == bus_arb_w_fifo[p]
  <2>1. /\ \A k \in 1 .. Len(q) : OrderOK(g, p, q[k])
        /\ \A j, k \in 1 .. Len(q) : j < k => g.handed[q[j].id] < g.handed[q[k].id]
        /\ \A d \in CLASS : \A j \in Stream(g, p, d) :
             Sent(g, p, d) < g.to[j] => \E k \in 1 .. Len(q) : q[k].id = j
    BY <1>2 DEF PortAt, BusAt
  <2>2. ASSUME NEW k \in 1 .. Len(q)
        PROVE  OrderOK(h, p, bus_arb_w_fifo[p][k])'
    <3>1. PICK d \in CLASS : d = ClassOf(q[k].wns)
      BY ClassType
    <3>2. /\ q[k].id \in Stream(g, p, d) /\ Sent(g, p, d) < g.to[q[k].id]
          /\ q[k].left = g.to[q[k].id] - (IF g.from[q[k].id] < Sent(g, p, d) THEN Sent(g, p, d)
                                          ELSE g.from[q[k].id])
      BY <2>1, <3>1 DEF OrderOK
    <3>3. q[k].id \in Stream(h, p, d)'
      <4>1. off = 0 \/ q[k].id # i
        <5>1. q[k].id = i => d = c
          BY <1>3, <3>2, StreamType
        <5>2. Sent(g, p, c) \in Nat
          BY <1>3, <1>8 DEF Sent
        <5> QED
          BY <1>6, <1>17, <1>21, <3>2, <5>1, <5>2
      <4> QED
        BY <1>16, <3>2, <4>1
    <3>4. bus_arb_w_fifo'[p][k] = q[k]
      BY <1>5
    <3>5. /\ bus_arb_w_fifo'[p][k].id \in Stream(h, p, d)'
          /\ Sent(h, p, d)' < h.to[bus_arb_w_fifo'[p][k].id]
          /\ bus_arb_w_fifo'[p][k].left =
               h.to[bus_arb_w_fifo'[p][k].id]
                 - (IF h.from[bus_arb_w_fifo'[p][k].id] < Sent(h, p, d)' THEN Sent(h, p, d)'
                    ELSE h.from[bus_arb_w_fifo'[p][k].id])
          /\ d = ClassOf(bus_arb_w_fifo'[p][k].wns)
      BY <1>7, <1>12, <3>1, <3>2, <3>3, <3>4
    <3> QED
      BY <3>5 DEF OrderOK
  <2>3. \A d \in CLASS : \A j \in Stream(h, p, d)' :
          Sent(g, p, d) < g.to[j] => \E k \in 1 .. Len(q) : q[k].id = j
    BY <1>15, <2>1
  <2>4. \A k \in 1 .. Len(bus_arb_w_fifo'[p]) : OrderOK(h, p, bus_arb_w_fifo[p][k])'
    BY <1>5, <2>2
  <2>5. \A d \in CLASS : \A j \in Stream(h, p, d)' :
          Sent(h, p, d)' < h.to[j] => \E k \in 1 .. Len(q) : q[k].id = j
    BY <1>7, <1>12, <2>3
  <2>6. \A j, k \in 1 .. Len(q) : j < k => h.handed[q[j].id] < h.handed[q[k].id]
    BY <1>7, <2>1
  <2> QED
    BY <1>5, <2>4, <2>5, <2>6 DEF BusAt
<1>23. RegisterAt(h, p)'
  <2> SUFFICES ASSUME NEW d \in CLASS
               PROVE  LET r == Register(p, d) IN
                      /\ r # NONE => /\ r.dest \in Receivers(r.kind) /\ r.len \in Lengths(r.kind)
                                     /\ ClassOf(wns(r)) = d /\ r.id[1] = p
                      /\ HasData(r) => /\ r.id \in Stream(h, p, d)' /\ g.to[r.id] = g.from[r.id] + r.len
                                       /\ \A j \in Stream(h, p, d)' :
                                            j # r.id => g.handed[j] < g.handed[r.id]
    BY <1>5, <1>7 DEF RegisterAt, HasData
  <2>1. LET r == Register(p, d) IN
        /\ r # NONE => /\ r.dest \in Receivers(r.kind) /\ r.len \in Lengths(r.kind)
                       /\ ClassOf(wns(r)) = d /\ r.id[1] = p
        /\ HasData(r) => /\ r.id \in Stream(g, p, d) /\ g.to[r.id] = g.from[r.id] + r.len
                         /\ \A j \in Stream(g, p, d) : j # r.id => g.handed[j] < g.handed[r.id]
    BY <1>2 DEF PortAt, RegisterAt
  <2>2. HasData(Register(p, d)) => Register(p, d).id # i
    <3>1. 1 \in 1 .. Len(wd_sid_fifo[p])
      BY <1>3
    <3> QED
      BY <1>2, <3>1 DEF PortAt, GrantAt
  <2> QED
    BY <1>15, <1>16, <2>1, <2>2
<1>24. /\ \A k \in 1 .. Len(g.owner[p]) :
            /\ g.owner[p][k] \in Stream(g, p, ClassOf(wd_sid_fifo[p][k].wns))
            /\ g.granted[g.owner[p][k]] < g.now
            /\ g.granted[g.owner[p][k]] \in Nat
       /\ \A j, k \in 1 .. Len(g.owner[p]) :
            j < k => /\ g.granted[g.owner[p][j]] < g.granted[g.owner[p][k]]
                     /\ wd_sid_fifo[p][j].wns = wd_sid_fifo[p][k].wns =>
                          g.handed[g.owner[p][j]] < g.handed[g.owner[p][k]]
  <2>1. GrantAt(g, p)
    BY <1>2 DEF PortAt
  <2>2. \A k \in 1 .. Len(g.owner[p]) :
          /\ g.owner[p][k] \in Stream(g, p, ClassOf(wd_sid_fifo[p][k].wns))
          /\ g.granted[g.owner[p][k]] < g.now
    BY <1>3, <2>1 DEF GrantAt
  <2> QED
    BY <1>3, <2>1, <2>2, StreamType DEF GrantAt
<1>25. \A k \in 1 .. Len(g.owner[p]) : k # 1 => g.owner[p][k] # i
  <2>1. 1 \in 1 .. Len(g.owner[p])
    BY <1>3
  <2> QED
    BY <1>24, <2>1
<1>26. \A k \in 1 .. Len(g.owner[p]) - off :
         k + off \in 1 .. Len(g.owner[p]) /\ (off = 1 => k + off # 1)
  BY <1>3
<1>27. GrantAt(h, p)'
  <2>1. Len(h.owner[p]) = Len(wd_sid_fifo'[p]) /\ Len(h.owner[p]) = Len(g.owner[p]) - off
    BY <1>9, <1>10
  <2>2. ASSUME NEW k \in 1 .. Len(g.owner[p]) - off
        PROVE  /\ h.owner[p][k] \in Stream(h, p, ClassOf(wd_sid_fifo[p][k].wns))'
               /\ g.granted[h.owner[p][k]] < g.now
    <3>1. PICK m, y : m = k + off /\ y = g.owner[p][m] /\ m \in 1 .. Len(g.owner[p])
                      /\ (off = 1 => m # 1)
      BY <1>26
    <3>2. PICK d \in CLASS : d = ClassOf(wd_sid_fifo[p][m].wns)
      BY ClassType
    <3>3. y \in Stream(h, p, d)' /\ g.granted[y] < g.now
      BY <1>16, <1>24, <1>25, <3>1, <3>2
    <3>4. h.owner[p][k] = y /\ d = ClassOf(wd_sid_fifo'[p][k].wns)
      BY <1>9, <1>10, <3>1, <3>2
    <3> QED
      BY <3>3, <3>4
  <2>3. \A j, k \in 1 .. Len(g.owner[p]) - off :
          j < k => /\ g.granted[h.owner[p][j]] < g.granted[h.owner[p][k]]
                   /\ wd_sid_fifo'[p][j].wns = wd_sid_fifo'[p][k].wns =>
                        g.handed[h.owner[p][j]] < g.handed[h.owner[p][k]]
    <3> SUFFICES ASSUME NEW j \in 1 .. Len(g.owner[p]) - off, NEW k \in 1 .. Len(g.owner[p]) - off,
                        j < k
                 PROVE  /\ g.granted[h.owner[p][j]] < g.granted[h.owner[p][k]]
                        /\ wd_sid_fifo'[p][j].wns = wd_sid_fifo'[p][k].wns =>
                             g.handed[h.owner[p][j]] < g.handed[h.owner[p][k]]
      OBVIOUS
    <3>1. PICK l, m : /\ l = j + off /\ m = k + off /\ l < m
                      /\ l \in 1 .. Len(g.owner[p]) /\ m \in 1 .. Len(g.owner[p])
      BY <1>26
    <3>2. /\ h.owner[p][j] = g.owner[p][l] /\ h.owner[p][k] = g.owner[p][m]
          /\ wd_sid_fifo'[p][j] = wd_sid_fifo[p][l] /\ wd_sid_fifo'[p][k] = wd_sid_fifo[p][m]
      BY <1>9, <1>10, <3>1
    <3> QED
      BY <1>24, <3>1, <3>2
  <2>4. ASSUME NEW d \in CLASS, NEW j \in Stream(h, p, d)'
        PROVE  \/ \E k \in 1 .. Len(g.owner[p]) - off : h.owner[p][k] = j
               \/ HasData(Register(p, d)) /\ Register(p, d).id = j
    <3>1. j \in Stream(g, p, d) /\ (off = 1 => j # i)
      BY <1>15, <2>4
    <3>2. \/ \E k \in 1 .. Len(g.owner[p]) : g.owner[p][k] = j
          \/ HasData(Register(p, d)) /\ Register(p, d).id = j
      BY <1>2, <1>3, <3>1 DEF PortAt, GrantAt
    <3>3. ASSUME NEW k \in 1 .. Len(g.owner[p]), g.owner[p][k] = j
          PROVE  \E m \in 1 .. Len(g.owner[p]) - off : h.owner[p][m] = j
      <4>1. PICK m : m = k - off
        OBVIOUS
      <4>2. off = 1 => k # 1
        BY <3>1, <3>3
      <4>3. m \in 1 .. Len(g.owner[p]) - off /\ m + off = k
        BY <1>3, <4>1, <4>2
      <4>4. h.owner[p][m] = j
        BY <1>9, <3>3, <4>3
      <4> QED
        BY <4>3, <4>4
    <3> QED
      BY <3>2, <3>3
  <2>5. ASSUME NEW d \in CLASS, HasData(Register(p, d)), NEW k \in 1 .. Len(g.owner[p]) - off
        PROVE  h.owner[p][k] # Register(p, d).id
    <3>1. h.owner[p][k] = g.owner[p][k + off] /\ k + off \in 1 .. Len(wd_sid_fifo[p])
      BY <1>3, <1>9, <1>26
    <3> QED
      BY <1>2, <2>5, <3>1 DEF PortAt, GrantAt
  <2>6. \A d : HasData(Register(p, d))' <=> HasData(Register(p, d))
    BY <1>5 DEF HasData
  <2> QED
    <3> DEFINE q == wd_sid_fifo'[p]
    <3>1. Len(h.owner[p]) = Len(q)
      BY <2>1
    <3>2. \A k \in 1 .. Len(q) : h.owner[p][k] \in Stream(h, p, ClassOf(wd_sid_fifo[p][k].wns))'
                               /\ h.granted[h.owner[p][k]] < h.now
      BY <1>7, <2>1, <2>2
    <3>3. \A j, k \in 1 .. Len(q) :
            j < k => /\ h.granted[h.owner[p][j]] < h.granted[h.owner[p][k]]
                     /\ q[j].wns = q[k].wns => h.handed[h.owner[p][j]] < h.handed[h.owner[p][k]]
      BY <1>7, <2>1, <2>3
    <3>4. \A d \in CLASS : \A j \in Stream(h, p, d)' :
            \/ \E k \in 1 .. Len(q) : h.owner[p][k] = j
            \/ HasData(Register(p, d))' /\ (Register(p, d).id)' = j
      BY <1>5, <2>1, <2>4, <2>6
    <3>5. \A d \in CLASS : HasData(Register(p, d))' =>
            \A k \in 1 .. Len(q) : h.owner[p][k] # (Register(p, d).id)'
      BY <1>5, <2>1, <2>5, <2>6
    <3> QED
      BY <3>1, <3>2, <3>3, <3>4, <3>5 DEF GrantAt
<1>28. /\ Ready(p)' => Packet(p)' = i /\ Len(pkb'[p].data) = n - g.from[i]
       /\ n - g.from[i] \in Nat /\ n - g.from[i] > 0
  <2>1. n - g.from[i] \in Nat /\ n - g.from[i] > 0
    BY <1>17
  <2>2. Len(pkb'[p].data) = n - g.from[i] /\ pkb'[p].data[1] = i
    <3>1. PICK d, m : d = pkb'[p].data /\ m = n - g.from[i]
      OBVIOUS
    <3>2. AllOf(d, m, i) /\ m \in Nat /\ m > 0
      BY <1>5, <2>1, <3>1
    <3>3. Len(d) = m /\ d[1] = i
      BY <3>2, AllOfWords
    <3> QED
      BY <3>1, <3>3
  <2> QED
    BY <2>1, <2>2 DEF Packet
<1>29. PackAt(h, p)'
  <2>1. ASSUME HalfWay(p)'
        PROVE  LET w == wd_sid_fifo'[p][1]
                   j == h.owner[p][1]
                   d == ClassOf(w.wns) IN
               /\ wd_sid_fifo'[p] # <<>> /\ pkb'[p].dest = w.dest /\ pkb'[p].sid = w.sid
               /\ h.from[j] < h.packed[p][d]
               /\ AllOf(pkb'[p].data, h.packed[p][d] - h.from[j], j)
    <3>1. off = 0 /\ n # g.to[i]
      BY <1>5, <1>6, <2>1
    <3>2. wd_sid_fifo'[p] = wd_sid_fifo[p] /\ h.owner[p] = g.owner[p]
      BY <1>5, <1>7, <3>1
    <3>3. /\ pkb'[p].dest = x.dest /\ pkb'[p].sid = x.sid /\ AllOf(pkb'[p].data, n - g.from[i], i)
          /\ g.from[i] < n /\ h.from = g.from /\ h.packed[p][c] = n /\ wd_sid_fifo[p] # <<>>
      BY <1>2, <1>5, <1>7, <1>17
    <3> QED
      BY <3>2, <3>3
  <2>2. ASSUME Ready(p)'
        PROVE  /\ i \in Id /\ i[1] = p /\ i \notin h.due
               /\ Len(pkb'[p].data) > 0
               /\ AllOf(pkb'[p].data, Len(pkb'[p].data), i)
               /\ g.granted[i] < g.now
               /\ \A k \in 1 .. Len(h.owner[p]) : g.granted[i] < g.granted[h.owner[p][k]]
    <3>1. off = 1 /\ n = g.to[i]
      BY <1>5, <1>6, <2>2
    <3>2. i \in Id /\ i[1] = p /\ i \notin h.due
      BY <1>3, <1>7, <3>1, StreamType
    <3>3. Len(pkb'[p].data) > 0 /\ AllOf(pkb'[p].data, Len(pkb'[p].data), i)
      BY <1>5, <1>28, <2>2
    <3>4. 1 \in 1 .. Len(g.owner[p])
      BY <1>3
    <3>5. ASSUME NEW k \in 1 .. Len(h.owner[p])
          PROVE  g.granted[i] < g.granted[h.owner[p][k]]
      <4>1. k \in 1 .. Len(g.owner[p]) - off
        BY <1>9, <3>5
      <4>2. h.owner[p][k] = g.owner[p][k + off] /\ k + off \in 1 .. Len(g.owner[p]) /\ 1 < k + off
        BY <1>3, <1>9, <1>26, <3>1, <4>1
      <4> QED
        BY <1>24, <3>4, <4>2
    <3>6. g.granted[i] < g.now
      BY <1>24, <3>4
    <3> QED
      BY <3>2, <3>3, <3>5, <3>6
  <2>3. ASSUME NEW d \in CLASS, NEW j \in Stream(h, p, d)'
        PROVE  h.packed[p][d] <= g.from[j] \/ (HalfWay(p)' /\ h.owner[p][1] = j)
    <3>1. j \in Stream(g, p, d) /\ (off = 1 => j # i) /\ g.from[j] \in Nat
      BY <1>15, <2>3
    <3>2. CASE j = i
      <4>1. off = 0 /\ n # g.to[i]
        BY <1>6, <3>1, <3>2
      <4> QED
        BY <1>5, <1>7, <3>2, <4>1
    <3>3. CASE j # i /\ d = c
      BY <1>3, <1>7, <1>17, <3>1, <3>3
    <3>4. CASE j # i /\ d # c
      <4>1. g.packed[p][d] <= g.from[j]
        BY <1>2, <3>1, <3>4 DEF PortAt, PackAt
      <4> QED
        BY <1>7, <3>4, <4>1
    <3> QED
      BY <3>2, <3>3, <3>4
  <2> QED
    BY <1>7, <1>28, <2>1, <2>2, <2>3 DEF PackAt
<1>30. OvertakenAt(h, p)'
  <2>1. OvertakenAt(g, p) /\ "ws" \in CLASS /\ "wns" \in CLASS
    BY <1>2 DEF PortAt, CLASS
  <2>2. ASSUME NEW k \in 1 .. Len(g.owner[p]) - off, NEW d \in CLASS, NEW j \in Stream(h, p, d)',
               Late(h, p, k, j)
        PROVE  j \in Stream(g, p, d) /\ Late(g, p, k + off, j)
    <3>1. j \in Stream(g, p, d) /\ (off = 1 => j # i)
      BY <1>15, <2>2
    <3>2. g.handed[j] < g.handed[g.owner[p][k + off]]
      BY <1>7, <1>9, <2>2 DEF Late
    <3>3. ASSUME NEW m \in 1 .. k + off - 1 PROVE g.owner[p][m] # j
      <4>1. CASE off = 1 /\ m = 1
        BY <3>1, <4>1
      <4>2. CASE ~(off = 1 /\ m = 1)
        <5>1. PICK l : l = m - off
          OBVIOUS
        <5>2. l \in 1 .. k - 1 /\ l \in 1 .. Len(g.owner[p]) - off /\ l + off = m
          BY <1>3, <3>3, <4>2, <5>1
        <5>3. h.owner[p][l] # j
          BY <2>2, <5>2 DEF Late
        <5> QED
          BY <1>9, <5>2, <5>3
      <4> QED
        BY <4>1, <4>2
    <3> QED
      BY <3>1, <3>2, <3>3 DEF Late
  <2>3. \A k \in 1 .. Len(g.owner[p]) - off :
          /\ wd_sid_fifo'[p][k].wns =>
               \A a, b \in Stream(h, p, "ws")' : Late(h, p, k, a) /\ Late(h, p, k, b) => a = b
          /\ ~wd_sid_fifo'[p][k].wns => \A a \in Stream(h, p, "wns")' : ~Late(h, p, k, a)
    <3> TAKE k \in 1 .. Len(g.owner[p]) - off
    <3>1. PICK m : m = k + off /\ m \in 1 .. Len(wd_sid_fifo[p]) /\ wd_sid_fifo'[p][k] = wd_sid_fifo[p][m]
      BY <1>3, <1>10, <1>26
    <3>2. /\ wd_sid_fifo[p][m].wns =>
               \A a, b \in Stream(g, p, "ws") : Late(g, p, m, a) /\ Late(g, p, m, b) => a = b
          /\ ~wd_sid_fifo[p][m].wns => \A a \in Stream(g, p, "wns") : ~Late(g, p, m, a)
      BY <2>1, <3>1 DEF OvertakenAt
    <3> QED
      BY <2>1, <2>2, <3>1, <3>2
  <2> QED
    BY <1>10, <2>3 DEF OvertakenAt, Late
<1> QED
  BY <1>19, <1>20, <1>22, <1>23, <1>27, <1>29, <1>30 DEF PortAt

\* The write is now in the package buffer, no longer among the grants.
LEMMA PkbDelivers ==
  ASSUME Inv, NEW g \in Ledger, NEW h \in Ledger, LedgerOK(g), NEW p \in CORE, PkbWd(p),
         NEW x, x = wd_sid_fifo[p][1], NEW c, c = ClassOf(x.wns), NEW i, i = g.owner[p][1],
         PackedBeat(g, h, p, c, i), NEW j \in Id, j[1] = p, NEW d, NEW s, NEW m
  PROVE  Delivers(h, j, d, s, m)' <=> Delivers(g, j, d, s, m)
<1>1. PICK n : n = g.packed[p][c] + 1
  OBVIOUS
<1>2. PortTypeOK /\ PortAt(g, p) /\ wd_sid_fifo[p] # <<>> /\ wd_pkb_req(p)
  BY DEF Inv, TypeOK, LedgerOK, PortsOK, wd_pkb_req, PkbWd, pkb_wd_grant
<1>3. /\ c \in CLASS /\ i \in Stream(g, p, c)
      /\ Len(g.owner[p]) = Len(wd_sid_fifo[p]) /\ Len(g.owner[p]) \in Nat /\ Len(g.owner[p]) > 0
  BY <1>2, OldestGrant
<1>4. /\ wd_sid_fifo'[p] = IF n = g.to[i] THEN Tail(wd_sid_fifo[p]) ELSE wd_sid_fifo[p]
      /\ ~Ready(p)
      /\ Ready(p)' <=> n = g.to[i]
      /\ pkb'[p].dest = x.dest /\ pkb'[p].sid = x.sid
      /\ AllOf(pkb'[p].data, n - g.from[i], i)
  BY <1>1, PkbState
<1>5. /\ h.from = g.from /\ h.to = g.to
      /\ n = g.to[i] => h.owner[p] = Tail(g.owner[p])
      /\ n # g.to[i] => h.owner[p] = g.owner[p]
  BY <1>1 DEF PackedBeat
<1>6. CASE n # g.to[i]
  BY <1>4, <1>5, <1>6 DEF Delivers
<1>7. CASE n = g.to[i]
  <2>1. /\ g.owner[p] \in Seq(Id) /\ g.owner[p] # <<>> /\ wd_sid_fifo[p] \in Seq(SidEntry)
    BY <1>2, <1>3, LedgerTypes, PortTypes
  <2>2. /\ Len(wd_sid_fifo'[p]) = Len(wd_sid_fifo[p]) - 1
        /\ \A k \in 1 .. Len(wd_sid_fifo[p]) - 1 :
             wd_sid_fifo'[p][k] = wd_sid_fifo[p][k + 1] /\ h.owner[p][k] = g.owner[p][k + 1]
    <3>1. wd_sid_fifo'[p] = Tail(wd_sid_fifo[p]) /\ h.owner[p] = Tail(g.owner[p])
      BY <1>4, <1>5, <1>7
    <3>2. /\ Len(Tail(wd_sid_fifo[p])) = Len(wd_sid_fifo[p]) - 1
          /\ \A k \in 1 .. Len(wd_sid_fifo[p]) - 1 : Tail(wd_sid_fifo[p])[k] = wd_sid_fifo[p][k + 1]
      BY <1>2, <2>1, WordFacts
    <3>3. \A k \in 1 .. Len(g.owner[p]) - 1 : Tail(g.owner[p])[k] = g.owner[p][k + 1]
      BY <2>1, WordFacts
    <3> QED
      BY <1>3, <3>1, <3>2, <3>3
  <2>3. n - g.from[i] > 0 /\ n - g.from[i] \in Nat /\ n - g.from[i] = g.to[i] - g.from[i]
    <3>1. g.from[i] \in Nat /\ g.to[i] \in Nat
      BY <1>3, StreamType
    <3>2. g.from[i] < g.to[i]
      BY <1>2, <1>3 DEF PortAt, StreamAt
    <3> QED
      BY <1>7, <3>1, <3>2
  <2>4. Packet(p)' = i /\ Len(pkb'[p].data) = g.to[i] - g.from[i]
    <3>1. PICK e, k : e = pkb'[p].data /\ k = n - g.from[i]
      OBVIOUS
    <3>2. Len(e) = k /\ e[1] = i
      BY <1>4, <2>3, <3>1, AllOfWords
    <3> QED
      BY <2>3, <3>1, <3>2 DEF Packet
  <2>5. Delivers(h, j, d, s, m)' <=>
          \/ \E k \in 1 .. Len(wd_sid_fifo[p]) - 1 :
               /\ g.owner[p][k + 1] = j /\ m = g.to[j] - g.from[j]
               /\ wd_sid_fifo[p][k + 1].dest = d /\ wd_sid_fifo[p][k + 1].sid = s
          \/ i = j /\ m = g.to[j] - g.from[j] /\ x.dest = d /\ x.sid = s
    <3>1. Ready(p)'
      BY <1>4, <1>7
    <3>2. Delivers(h, j, d, s, m)' <=>
            \/ \E k \in 1 .. Len(wd_sid_fifo[p]) - 1 :
                 /\ h.owner[p][k] = j /\ m = g.to[j] - g.from[j]
                 /\ wd_sid_fifo'[p][k].dest = d /\ wd_sid_fifo'[p][k].sid = s
            \/ i = j /\ m = g.to[i] - g.from[i] /\ x.dest = d /\ x.sid = s
      BY <1>4, <1>5, <2>2, <2>4, <3>1 DEF Delivers
    <3> QED
      BY <2>2, <3>2
  <2>6. Delivers(g, j, d, s, m) <=>
          \E k \in 1 .. Len(wd_sid_fifo[p]) :
            /\ g.owner[p][k] = j /\ m = g.to[j] - g.from[j]
            /\ wd_sid_fifo[p][k].dest = d /\ wd_sid_fifo[p][k].sid = s
    BY <1>4 DEF Delivers
  <2>7. ASSUME Delivers(g, j, d, s, m) PROVE Delivers(h, j, d, s, m)'
    <3>1. PICK k \in 1 .. Len(wd_sid_fifo[p]) :
            /\ g.owner[p][k] = j /\ m = g.to[j] - g.from[j]
            /\ wd_sid_fifo[p][k].dest = d /\ wd_sid_fifo[p][k].sid = s
      BY <2>6, <2>7
    <3>2. CASE k = 1
      BY <2>5, <3>1, <3>2
    <3>3. CASE k # 1
      <4>1. k - 1 \in 1 .. Len(wd_sid_fifo[p]) - 1 /\ (k - 1) + 1 = k
        BY <1>3, <3>3
      <4> QED
        BY <2>5, <3>1, <4>1
    <3> QED
      BY <3>2, <3>3
  <2>8. ASSUME Delivers(h, j, d, s, m)' PROVE Delivers(g, j, d, s, m)
    <3>1. 1 \in 1 .. Len(wd_sid_fifo[p]) /\ \A k \in 1 .. Len(wd_sid_fifo[p]) - 1 : k + 1 \in 1 .. Len(wd_sid_fifo[p])
      BY <1>3
    <3> QED
      BY <2>5, <2>6, <2>8, <3>1
  <2> QED
    BY <2>7, <2>8
<1> QED
  BY <1>6, <1>7

\* A beat moved to the package buffer continues the account.
LEMMA PkbWdLedger ==
  ASSUME Inv, NEW g \in Ledger, LedgerOK(g), NEW p \in CORE, PkbWd(p)
  PROVE  Accounted'
<1>1. PICK x, c, i : x = wd_sid_fifo[p][1] /\ c = ClassOf(x.wns) /\ i = g.owner[p][1]
  OBVIOUS
<1>2. PortTypeOK /\ wd_sid_fifo[p] # <<>> /\ PortsOK(g) /\ SlotOK(g) /\ ReceiveOK(g) /\ StampOK(g)
  BY DEF Inv, TypeOK, LedgerOK, PortsOK, wd_pkb_req, PkbWd, pkb_wd_grant
<1>3. /\ c \in CLASS /\ i \in Stream(g, p, c) /\ i \in Id
      /\ g.owner[p] # <<>>
  <2>1. c \in CLASS /\ i \in Stream(g, p, c) /\ Len(g.owner[p]) > 0
    BY <1>1, <1>2, OldestGrant
  <2> QED
    BY <2>1, StreamType
<1>4. PICK h \in Ledger : PackedBeat(g, h, p, c, i)
  BY <1>3, PackedLedger
<1>5. PortAt(h, p)'
  BY <1>1, <1>4, PkbPort
<1>6. PICK n : n = g.packed[p][c] + 1
  OBVIOUS
<1>7. \A q \in CORE : q # p => PortStays(q)
  BY <1>1, <1>6, PkbState
<1>8. ASSUME NEW q \in CORE, q # p PROVE SameFor(g, h, q)
  <2>1. i[1] = p
    BY <1>3, StreamType
  <2> QED
    BY <1>4, <1>8, <2>1 DEF PackedBeat, SameFor
<1>9. \A q \in CORE : PortAt(h, q)'
  <2>1. g.now <= h.now
    BY <1>4, LedgerTypes DEF PackedBeat
  <2> QED
    BY <1>2, <1>5, <1>7, <1>8, <2>1, PortKept DEF PortsOK
<1>10. StampOK(h)'
  BY <1>2, <1>4 DEF PackedBeat, StampOK
<1>11. ASSUME NEW j \in Id
       PROVE  \A d, s, m : Delivers(h, j, d, s, m)' <=> Delivers(g, j, d, s, m)
  <2>1. CASE j[1] = p
    BY <1>1, <1>4, <2>1, PkbDelivers
  <2>2. CASE j[1] # p
    <3>1. j[1] \in CORE
      BY DEF Id
    <3>2. SameFor(g, h, j[1]) /\ PackSameAt(j[1]) /\ wd_sid_fifo'[j[1]] = wd_sid_fifo[j[1]]
      BY <1>7, <1>8, <2>2, <3>1 DEF PortStays
    <3> QED
      BY <3>2, DeliversSame
  <2> QED
    BY <2>1, <2>2
<1>12. SlotOK(h)' /\ ReceiveOK(h)'
  <2>1. \A b, s : Slot(b, s)' = Slot(b, s)
    BY DEF PkbWd, snb, Slot
  <2>2. \A b : Awaited(b)' = Awaited(b)
    BY DEF PkbWd, snb, Awaited, SelCreate, TakesData
  <2>3. woq' = woq /\ woq \in Seq(Id) /\ h.owed = g.owed /\ h.granted = g.granted
    BY <1>4 DEF PkbWd, ncq, Inv, TypeOK, NcqTypeOK, PackedBeat
  <2> QED
    BY <1>2, <1>11, <2>1, <2>2, <2>3, ReceiversKept
<1>13. LastOK(h)'
  BY <1>4, LastKept DEF LedgerOK, PackedBeat, PkbWd, snb
<1>14. LedgerOK(h)'
  BY <1>9, <1>10, <1>12, <1>13 DEF LedgerOK, PortsOK
<1> QED
  BY <1>14 DEF Accounted

-----------------------------------------------------------------------------
(***************************************************************************)
(* A request is granted.                                                   *)
(***************************************************************************)

\* The request that is granted is out of its register, and wd_sid_fifo has it
\* if it has data.
LEMMA GrantState ==
  ASSUME Inv, NEW g \in Ledger, LedgerOK(g), NEW p \in CORE, NEW sid \in WSID,
         aw_req_vld(p), AwGranted(p, sid)
  PROVE  \E r \in Request, c \in CLASS, e \in SidEntry :
           /\ r = aw_req(p) /\ r # NONE /\ c = ClassOf(wns(r)) /\ r.id \in Id /\ r.id[1] = p
           /\ r.dest \in Receivers(r.kind) /\ r.len \in Lengths(r.kind)
           /\ r = Register(p, c) /\ Register(p, c)' = NONE
           /\ c = "ws" => Register(p, "wns") = NONE
           /\ \A d \in CLASS : d # c => Register(p, d)' = Register(p, d)
           /\ \A d : Beats(p, d)' = Beats(p, d)
           /\ bus_arb_w_fifo' = bus_arb_w_fifo /\ pkb' = pkb
           /\ e.wns = wns(r) /\ e.dest = r.dest /\ e.sid = sid
           /\ wd_sid_fifo'[p] = IF r.kind = "evict" THEN wd_sid_fifo[p]
                                ELSE Append(wd_sid_fifo[p], e)
           /\ \A q \in CORE : q # p => PortStays(q)
<1>1. PICK r \in Request : r = aw_req(p) /\ r # NONE /\ r.dest \in Receivers(r.kind)
  BY RequestFacts DEF aw_req_vld, Inv, TypeOK
<1>2. PICK c \in CLASS : c = IF wns_dfifo[p] # NONE THEN "wns" ELSE "ws"
  BY DEF CLASS
<1>3. r = Register(p, c) /\ (c = "ws" => Register(p, "wns") = NONE)
  BY <1>1, <1>2 DEF aw_req, Register
<1>4. c = ClassOf(wns(r)) /\ r.id[1] = p /\ r.len \in Lengths(r.kind)
  BY <1>1, <1>3 DEF LedgerOK, PortsOK, PortAt, RegisterAt
<1>5. r.id \in Id
  BY DEF Request
<1>6. /\ wd_sid_fifo \in [CORE -> Seq(SidEntry)] /\ ws_dfifo \in [CORE -> Request \cup {NONE}]
      /\ wns_dfifo \in [CORE -> Request \cup {NONE}]
      /\ UNCHANGED <<bus_arb_w_fifo, wd, cd, pkb>>
  BY DEF Inv, TypeOK, PortTypeOK, AwGranted
<1>7. Register(p, c)' = NONE /\ \A d \in CLASS : d # c => Register(p, d)' = Register(p, d)
  BY <1>2, <1>6 DEF AwGranted, Register, CLASS
<1>8. wns(r) <=> wns_dfifo[p] # NONE
  BY <1>2, <1>4 DEF ClassOf
<1>9. PICK w \in BOOLEAN : w = wns(r) /\ w = (wns_dfifo[p] # NONE)
  BY <1>8 DEF wns
<1>14. r.dest \in Receiver
  BY DEF Request
<1>15. PICK e \in SidEntry : e = [wns |-> w, dest |-> r.dest, sid |-> sid]
  BY <1>14, Zenon DEF SidEntry
<1>10. wd_sid_fifo'[p] = IF r.kind = "evict" THEN wd_sid_fifo[p] ELSE Append(wd_sid_fifo[p], e)
  <2>1. [wns |-> wns_dfifo[p] # NONE, dest |-> aw_req(p).dest, sid |-> sid] = e
    BY <1>1, <1>9, <1>15
  <2>2. wd_sid_fifo' = IF r.kind = "evict" THEN wd_sid_fifo
                       ELSE [wd_sid_fifo EXCEPT ![p] = Append(@, e)]
    BY <1>1, <2>1 DEF AwGranted, SidCreate
  <2> QED
    BY <1>6, <2>2
<1>11. ASSUME NEW q \in CORE, q # p PROVE PortStays(q)
  <2>1. wd_sid_fifo'[q] = wd_sid_fifo[q]
    BY <1>6, <1>11 DEF AwGranted, SidCreate
  <2>2. ws_dfifo'[q] = ws_dfifo[q] /\ wns_dfifo'[q] = wns_dfifo[q]
    BY <1>6, <1>11 DEF AwGranted
  <2> QED
    BY <1>6, <2>1, <2>2 DEF PortStays, PackSameAt, wd
<1>12. \A d : Beats(p, d)' = Beats(p, d)
  BY <1>6 DEF Beats, wd
<1>13. e.wns = wns(r) /\ e.dest = r.dest /\ e.sid = sid
  BY <1>9, <1>15
<1> QED
  BY <1>1, <1>3, <1>4, <1>5, <1>6, <1>7, <1>10, <1>11, <1>12, <1>13

\* An Evict is granted: no account has it.
LEMMA GrantEvict ==
  ASSUME Inv, NEW g \in Ledger, LedgerOK(g), NEW p \in CORE, NEW sid \in WSID,
         aw_req_vld(p), AwGranted(p, sid), aw_req(p).kind = "evict"
  PROVE  PortsOK(g)' /\ UNCHANGED wd_sid_fifo /\ PackSame
<1>1. PICK r \in Request, c \in CLASS :
        /\ r # NONE /\ r = Register(p, c) /\ Register(p, c)' = NONE /\ r.kind = "evict"
        /\ \A d \in CLASS : d # c => Register(p, d)' = Register(p, d)
        /\ \A d : Beats(p, d)' = Beats(p, d)
        /\ bus_arb_w_fifo' = bus_arb_w_fifo /\ pkb' = pkb
        /\ wd_sid_fifo'[p] = wd_sid_fifo[p]
        /\ \A q \in CORE : q # p => PortStays(q)
  BY GrantState
<1>2. PortTypeOK /\ PortsOK(g)
  BY DEF Inv, TypeOK, LedgerOK
<1>3. ASSUME NEW q \in CORE, q # p PROVE PortAt(g, q)'
  <2>1. SameFor(g, g, q) /\ g.now <= g.now
    BY LedgerTypes DEF SameFor
  <2> QED
    BY <1>1, <1>2, <1>3, <2>1, PortKept DEF PortsOK
<1>4. PortAt(g, p)'
  <2>1. PortAt(g, p)
    BY <1>2 DEF PortsOK
  <2>2. \A d : Stream(g, p, d)' = Stream(g, p, d) /\ Sent(g, p, d)' = Sent(g, p, d)
    BY <1>1 DEF Stream, Sent
  <2>3. \A d \in CLASS : /\ HasData(Register(p, d))' <=> HasData(Register(p, d))
                         /\ HasData(Register(p, d)) => Register(p, d)' = Register(p, d)
    BY <1>1 DEF HasData
  <2>4. /\ HalfWay(p)' <=> HalfWay(p)
        /\ Ready(p)' <=> Ready(p)
        /\ Packet(p)' = Packet(p)
    BY <1>1 DEF HalfWay, Filling, Ready, Packet
  <2>5. StreamAt(g, p)' /\ BeatsAt(g, p)'
    BY <1>1, <2>1, <2>2 DEF PortAt, StreamAt, BeatsAt, BeatOK
  <2>6. BusAt(g, p)'
    BY <1>1, <2>1, <2>2 DEF PortAt, BusAt, OrderOK
  <2>7. RegisterAt(g, p)'
    <3>1. ASSUME NEW d \in CLASS
          PROVE  LET x == Register(p, d)' IN
                 /\ x # NONE => /\ x.dest \in Receivers(x.kind) /\ x.len \in Lengths(x.kind)
                                /\ ClassOf(wns(x)) = d /\ x.id[1] = p
      <4>1. CASE d = c
        BY <1>1, <4>1
      <4>2. CASE d # c
        BY <1>1, <2>1, <4>2 DEF PortAt, RegisterAt
      <4> QED
        BY <4>1, <4>2
    <3>2. ASSUME NEW d \in CLASS, HasData(Register(p, d))'
          PROVE  LET x == Register(p, d)' IN
                 /\ x.id \in Stream(g, p, d) /\ g.to[x.id] = g.from[x.id] + x.len
                 /\ \A i \in Stream(g, p, d) : i # x.id => g.handed[i] < g.handed[x.id]
      BY <2>1, <2>3, <3>2 DEF PortAt, RegisterAt
    <3> QED
      BY <2>2, <3>1, <3>2 DEF RegisterAt
  <2>8. GrantAt(g, p)'
    BY <1>1, <2>1, <2>2, <2>3 DEF PortAt, GrantAt
  <2>9. PackAt(g, p)'
    BY <1>1, <2>1, <2>2, <2>4 DEF PortAt, PackAt
  <2>10. OvertakenAt(g, p)'
    <3>1. OvertakenAt(g, p)
      BY <2>1 DEF PortAt
    <3>2. wd_sid_fifo'[p] = wd_sid_fifo[p]
      BY <1>1
    <3> QED
      BY <2>2, <3>1, <3>2, OvertakenKept
  <2> QED
    BY <2>5, <2>6, <2>7, <2>8, <2>9, <2>10 DEF PortAt
<1>5. PortsOK(g)'
  BY <1>2, <1>3, <1>4 DEF PortsOK, StampOK
<1>6. UNCHANGED wd_sid_fifo
  BY GrantState DEF AwGranted, SidCreate
<1>7. PackSame
  BY <1>1 DEF PackSame, PackSameAt
<1> QED
  BY <1>5, <1>6, <1>7

\* The account h follows from g when the write r of port p is granted.
Granted(g, h, p, r) ==
  LET i == r.id
      d == r.dest IN
  /\ h.due = g.due /\ h.class = g.class /\ h.from = g.from /\ h.to = g.to
  /\ h.handed = g.handed /\ h.packed = g.packed /\ h.total = g.total /\ h.now = g.now + 1
  /\ h.granted[i] = g.now /\ \A j \in Id : j # i => h.granted[j] = g.granted[j]
  /\ h.owner[p] = Append(g.owner[p], i) /\ \A q \in CORE : q # p => h.owner[q] = g.owner[q]
  /\ \A b \in BANK : h.owed[b] = IF b = d THEN Append(g.owed[b], i) ELSE g.owed[b]

\* There is an account that is continued by a grant.
LEMMA GrantedLedger ==
  ASSUME NEW g \in Ledger, NEW p \in CORE, NEW r, r.id \in Id
  PROVE  \E h \in Ledger : Granted(g, h, p, r)
<1> DEFINE i == r.id
           d == r.dest
           gr == [g.granted EXCEPT ![i] = g.now]
           ow == [g.owner EXCEPT ![p] = Append(g.owner[p], i)]
           od == [b \in BANK |-> IF b = d THEN Append(g.owed[b], i) ELSE g.owed[b]]
<1>1. /\ g.owner \in [CORE -> Seq(Id)] /\ g.owed \in [BANK -> Seq(Id)]
      /\ g.due \subseteq Id /\ g.now \in Nat /\ g.class \in [Id -> CLASS]
      /\ g.from \in [Id -> Nat] /\ g.to \in [Id -> Nat]
      /\ g.handed \in [Id -> Nat] /\ g.granted \in [Id -> Nat]
      /\ g.packed \in [CORE -> [CLASS -> Nat]] /\ g.total \in [CORE -> [CLASS -> Nat]]
  BY LedgerFields
<1>2. i \in Id
  OBVIOUS
<1> HIDE DEF i, d
<1>3. gr \in [Id -> Nat] /\ gr[i] = g.now /\ \A j \in Id : j # i => gr[j] = g.granted[j]
  BY <1>1, <1>2
<1>4. Append(g.owner[p], i) \in Seq(Id) /\ \A b \in BANK : Append(g.owed[b], i) \in Seq(Id)
  BY <1>1, <1>2, SeqFacts
<1>5. /\ ow \in [CORE -> Seq(Id)] /\ ow[p] = Append(g.owner[p], i)
      /\ \A q \in CORE : q # p => ow[q] = g.owner[q]
  BY <1>1, <1>4
<1>6. /\ od \in [BANK -> Seq(Id)]
      /\ \A b \in BANK : od[b] = IF b = d THEN Append(g.owed[b], i) ELSE g.owed[b]
  BY <1>1, <1>4
<1> HIDE DEF gr, ow, od
<1> DEFINE h == [due |-> g.due, class |-> g.class, from |-> g.from, to |-> g.to,
                 handed |-> g.handed, granted |-> gr, owner |-> ow, owed |-> od,
                 packed |-> g.packed, total |-> g.total, now |-> g.now + 1]
<1>7. h \in Ledger
  <2>1. g.due \in SUBSET Id /\ g.now + 1 \in Nat
    BY <1>1
  <2> QED
    BY <1>1, <1>3, <1>5, <1>6, <2>1, Zenon DEF Ledger
<1>8. Granted(g, h, p, r)
  BY <1>3, <1>5, <1>6 DEF Granted, i, d
<1> QED
  BY <1>7, <1>8

\* What is granted is the last of its class; of the other class, all that was
\* handed over before it is granted too, but for one store.
LEMMA GrantPort ==
  ASSUME Inv, NEW g \in Ledger, NEW h \in Ledger, LedgerOK(g), NEW p \in CORE,
         NEW r \in Request, NEW c \in CLASS, NEW e \in SidEntry,
         r # NONE, c = ClassOf(wns(r)), r.id \in Id, r.id[1] = p, r.kind # "evict",
         r = Register(p, c), Register(p, c)' = NONE, c = "ws" => Register(p, "wns") = NONE,
         \A d \in CLASS : d # c => Register(p, d)' = Register(p, d),
         \A d : Beats(p, d)' = Beats(p, d),
         bus_arb_w_fifo' = bus_arb_w_fifo, pkb' = pkb, ClassOf(e.wns) = c,
         wd_sid_fifo'[p] = Append(wd_sid_fifo[p], e), Granted(g, h, p, r)
  PROVE  PortAt(h, p)'
<1>1. PICK i \in Id : i = r.id
  OBVIOUS
<1>2. PortTypeOK /\ PortAt(g, p) /\ i[1] = p
  BY <1>1 DEF Inv, TypeOK, LedgerOK, PortsOK
<1>3. /\ h.due = g.due /\ h.class = g.class /\ h.from = g.from /\ h.to = g.to
      /\ h.handed = g.handed /\ h.packed = g.packed /\ h.total = g.total /\ h.now = g.now + 1
      /\ h.granted[i] = g.now /\ g.now \in Nat
      /\ \A j \in Id : j # i => h.granted[j] = g.granted[j]
      /\ h.owner[p] = Append(g.owner[p], i)
  BY <1>1, LedgerTypes DEF Granted
<1>4. /\ \A d : Stream(h, p, d)' = Stream(g, p, d) /\ Sent(h, p, d)' = Sent(g, p, d)
  BY <1>3 DEF Stream, Sent
<1>17. PICK n \in Nat : n = Len(wd_sid_fifo[p])
  BY <1>2, PortTypes
<1>5. PICK o, q :
        /\ o = g.owner[p] /\ q = wd_sid_fifo[p] /\ n = Len(q) /\ n = Len(o)
        /\ o \in Seq(Id) /\ q \in Seq(SidEntry)
  <2>1. Len(g.owner[p]) = Len(wd_sid_fifo[p])
    BY <1>2 DEF PortAt, GrantAt
  <2> QED
    BY <1>2, <1>17, <2>1, LedgerTypes, PortTypes
<1>6. /\ Len(wd_sid_fifo'[p]) = n + 1 /\ wd_sid_fifo'[p][n + 1] = e
      /\ \A k \in 1 .. n : wd_sid_fifo'[p][k] = q[k]
  <2>1. wd_sid_fifo'[p] = Append(q, e)
    BY <1>5
  <2>2. /\ Len(Append(q, e)) = Len(q) + 1 /\ Append(q, e)[Len(q) + 1] = e
        /\ \A k \in 1 .. Len(q) : Append(q, e)[k] = q[k]
    BY WordFacts
  <2> QED
    BY <1>5, <2>1, <2>2
<1>7. /\ Len(h.owner[p]) = n + 1 /\ h.owner[p][n + 1] = i
      /\ \A k \in 1 .. n : h.owner[p][k] = o[k]
  BY <1>3, <1>5, WordFacts
<1>8. /\ HasData(Register(p, c)) /\ i \in Stream(g, p, c)
      /\ \A j \in Stream(g, p, c) : j # i => g.handed[j] < g.handed[i]
      /\ \A k \in 1 .. n : o[k] # i
  <2>1. HasData(Register(p, c))
    BY DEF HasData
  <2> QED
    BY <1>1, <1>2, <1>5, <2>1 DEF PortAt, RegisterAt, GrantAt
<1>9. \A k \in 1 .. n : /\ o[k] \in Stream(g, p, ClassOf(q[k].wns)) /\ o[k] \in Id /\ o[k] # i
                        /\ g.granted[o[k]] < g.now /\ g.granted[o[k]] \in Nat
                        /\ h.granted[o[k]] = g.granted[o[k]]
                        /\ g.handed[o[k]] \in Nat
  <2>1. \A k \in 1 .. n : /\ o[k] \in Stream(g, p, ClassOf(q[k].wns)) /\ g.granted[o[k]] < g.now
    BY <1>2, <1>5 DEF PortAt, GrantAt
  <2>2. \A k \in 1 .. n : /\ o[k] \in Id /\ g.granted[o[k]] \in Nat
                          /\ g.handed[o[k]] \in Nat
    BY <2>1, StreamType
  <2>3. ASSUME NEW k \in 1 .. n PROVE o[k] # i /\ h.granted[o[k]] = g.granted[o[k]]
    <3>1. o[k] # i /\ o[k] \in Id
      BY <1>8, <2>2
    <3>2. PICK j \in Id : j = o[k] /\ j # i
      BY <3>1
    <3>3. h.granted[j] = g.granted[j]
      BY <1>3, <3>2
    <3> QED
      BY <3>2, <3>3
  <2> QED
    BY <2>1, <2>2, <2>3
<1>10. StreamAt(h, p)' /\ BeatsAt(h, p)'
  BY <1>2, <1>3, <1>4 DEF PortAt, StreamAt, BeatsAt, BeatOK
<1>11. BusAt(h, p)'
  BY <1>2, <1>3, <1>4 DEF PortAt, BusAt, OrderOK
<1>12. \A d \in CLASS :
         /\ d # c => /\ HasData(Register(p, d))' <=> HasData(Register(p, d))
                     /\ Register(p, d)' = Register(p, d)
         /\ d = c => ~HasData(Register(p, d))' /\ Register(p, d)' = NONE
  BY DEF HasData
<1>13. RegisterAt(h, p)'
  <2>1. ASSUME NEW d \in CLASS
        PROVE  LET x == Register(p, d)' IN
               /\ x # NONE => /\ x.dest \in Receivers(x.kind) /\ x.len \in Lengths(x.kind)
                              /\ ClassOf(wns(x)) = d /\ x.id[1] = p
    BY <1>2, <1>12 DEF PortAt, RegisterAt
  <2>2. ASSUME NEW d \in CLASS, HasData(Register(p, d))'
        PROVE  LET x == Register(p, d)' IN
               /\ x.id \in Stream(g, p, d) /\ g.to[x.id] = g.from[x.id] + x.len
               /\ \A j \in Stream(g, p, d) : j # x.id => g.handed[j] < g.handed[x.id]
    BY <1>2, <1>12, <2>2 DEF PortAt, RegisterAt
  <2> QED
    BY <1>3, <1>4, <2>1, <2>2 DEF RegisterAt
<1>14. GrantAt(h, p)'
  <2>1. ASSUME NEW k \in 1 .. n + 1
        PROVE  /\ h.owner[p][k] \in Stream(g, p, ClassOf(wd_sid_fifo'[p][k].wns))
               /\ h.granted[h.owner[p][k]] < h.now
    <3>1. CASE k = n + 1
      BY <1>3, <1>6, <1>7, <1>8, <3>1
    <3>2. CASE k \in 1 .. n
      <4>1. h.owner[p][k] = o[k] /\ wd_sid_fifo'[p][k] = q[k]
        BY <1>6, <1>7, <3>2
      <4>2. /\ o[k] \in Stream(g, p, ClassOf(q[k].wns))
            /\ g.granted[o[k]] < g.now /\ g.granted[o[k]] \in Nat
            /\ h.granted[o[k]] = g.granted[o[k]]
        BY <1>9, <3>2
      <4>3. h.now = g.now + 1 /\ g.now \in Nat
        BY <1>3
      <4>4. h.granted[o[k]] < h.now
        BY <4>2, <4>3
      <4> QED
        BY <4>1, <4>2, <4>4
    <3>3. k = n + 1 \/ k \in 1 .. n
      OBVIOUS
    <3> QED
      BY <3>1, <3>2, <3>3, Zenon
  <2>2. ASSUME NEW j \in 1 .. n + 1, NEW k \in 1 .. n + 1, j < k
        PROVE  /\ h.granted[h.owner[p][j]] < h.granted[h.owner[p][k]]
               /\ wd_sid_fifo'[p][j].wns = wd_sid_fifo'[p][k].wns =>
                    g.handed[h.owner[p][j]] < g.handed[h.owner[p][k]]
    <3>1. j \in 1 .. n
      BY <2>2
    <3>2. CASE k = n + 1
      <4>1. h.granted[h.owner[p][j]] < h.granted[h.owner[p][k]]
        BY <1>3, <1>7, <1>9, <3>1, <3>2
      <4>2. ASSUME q[j].wns = e.wns
            PROVE  g.handed[o[j]] < g.handed[i]
        <5>1. ClassOf(q[j].wns) = c
          BY <4>2
        <5> QED
          BY <1>8, <1>9, <3>1, <5>1
      <4> QED
        BY <1>6, <1>7, <3>1, <3>2, <4>1, <4>2
    <3>3. CASE k \in 1 .. n
      <4>1. /\ g.granted[o[j]] < g.granted[o[k]]
            /\ q[j].wns = q[k].wns => g.handed[o[j]] < g.handed[o[k]]
        BY <1>2, <1>5, <2>2, <3>1, <3>3 DEF PortAt, GrantAt
      <4>2. wd_sid_fifo'[p][j] = q[j] /\ wd_sid_fifo'[p][k] = q[k]
        BY <1>6, <3>1, <3>3
      <4>3. h.owner[p][j] = o[j] /\ h.owner[p][k] = o[k]
        BY <1>7, <3>1, <3>3
      <4>4. h.granted[o[j]] = g.granted[o[j]] /\ h.granted[o[k]] = g.granted[o[k]]
        BY <1>9, <3>1, <3>3
      <4> QED
        BY <4>1, <4>2, <4>3, <4>4, Zenon
    <3>4. k = n + 1 \/ k \in 1 .. n
      OBVIOUS
    <3> QED
      BY <3>2, <3>3, <3>4, Zenon
  <2>3. ASSUME NEW d \in CLASS, NEW j \in Stream(g, p, d)
        PROVE  \/ \E k \in 1 .. n + 1 : h.owner[p][k] = j
               \/ HasData(Register(p, d))' /\ Register(p, d)'.id = j
    <3>1. \/ \E k \in 1 .. n : o[k] = j
          \/ HasData(Register(p, d)) /\ Register(p, d).id = j
      BY <1>2, <1>5, <2>3 DEF PortAt, GrantAt
    <3>2. ASSUME NEW k \in 1 .. n, o[k] = j
          PROVE  \E m \in 1 .. n + 1 : h.owner[p][m] = j
      BY <1>7, <3>2
    <3>3. CASE HasData(Register(p, d)) /\ Register(p, d).id = j
      <4>1. CASE d = c
        BY <1>1, <1>7, <3>3, <4>1
      <4>2. CASE d # c
        BY <1>12, <3>3, <4>2
      <4> QED
        BY <4>1, <4>2
    <3> QED
      BY <3>1, <3>2, <3>3
  <2>4. ASSUME NEW d \in CLASS, HasData(Register(p, d))', NEW k \in 1 .. n + 1
        PROVE  h.owner[p][k] # Register(p, d)'.id
    <3>1. d # c /\ HasData(Register(p, d)) /\ Register(p, d)' = Register(p, d)
      BY <1>12, <2>4
    <3>2. CASE k \in 1 .. n
      BY <1>2, <1>5, <1>7, <3>1, <3>2 DEF PortAt, GrantAt
    <3>3. CASE k = n + 1
      <4>1. Register(p, d).id \in Stream(g, p, d)
        BY <1>2, <3>1 DEF PortAt, RegisterAt
      <4> QED
        BY <1>7, <1>8, <3>1, <3>3, <4>1 DEF Stream
    <3> QED
      BY <3>2, <3>3
  <2>5. Len(h.owner[p]) = Len(wd_sid_fifo'[p]) /\ Len(wd_sid_fifo'[p]) = n + 1
    BY <1>6, <1>7
  <2> QED
    <3> DEFINE x == wd_sid_fifo'[p]
    <3>1. \A k \in 1 .. Len(x) : h.owner[p][k] \in Stream(h, p, ClassOf(wd_sid_fifo[p][k].wns))'
                               /\ h.granted[h.owner[p][k]] < h.now
      BY <1>3, <2>1, <2>5 DEF Stream
    <3>2. \A j, k \in 1 .. Len(x) :
            j < k => /\ h.granted[h.owner[p][j]] < h.granted[h.owner[p][k]]
                     /\ x[j].wns = x[k].wns => h.handed[h.owner[p][j]] < h.handed[h.owner[p][k]]
      BY <1>3, <2>2, <2>5
    <3>3. \A d \in CLASS : \A j \in Stream(h, p, d)' :
            \/ \E k \in 1 .. Len(x) : h.owner[p][k] = j
            \/ HasData(Register(p, d))' /\ (Register(p, d).id)' = j
      BY <1>4, <2>3, <2>5
    <3>4. \A d \in CLASS : HasData(Register(p, d))' =>
            \A k \in 1 .. Len(x) : h.owner[p][k] # (Register(p, d).id)'
      BY <2>4, <2>5
    <3> QED
      BY <2>5, <3>1, <3>2, <3>3, <3>4 DEF GrantAt
<1>15. PackAt(h, p)'
  <2>1. /\ HalfWay(p)' <=> HalfWay(p)
        /\ Ready(p)' <=> Ready(p)
        /\ Packet(p)' = Packet(p)
    BY DEF HalfWay, Filling, Ready, Packet
  <2>2. PackAt(g, p)
    BY <1>2 DEF PortAt
  <2>3. q # <<>> => /\ wd_sid_fifo'[p][1] = wd_sid_fifo[p][1] /\ h.owner[p][1] = g.owner[p][1]
                    /\ wd_sid_fifo'[p] # <<>>
    <3>1. ASSUME q # <<>> PROVE 1 \in 1 .. n
      <4>1. Len(q) > 0
        BY <1>5, <3>1, SeqFacts
      <4> QED
        BY <1>5, <1>17, <4>1
    <3> QED
      BY <1>5, <1>6, <1>7, <3>1
  <2>4. HalfWay(p) => q # <<>>
    BY <1>5, <2>2 DEF PackAt
  <2>5. ASSUME Ready(p)
        PROVE  LET j == Packet(p) IN
               /\ j \in Id /\ j[1] = p /\ j \notin g.due
               /\ Len(pkb[p].data) > 0
               /\ AllOf(pkb[p].data, Len(pkb[p].data), j)
               /\ h.granted[j] < h.now
               /\ \A k \in 1 .. n + 1 : h.granted[j] < h.granted[h.owner[p][k]]
    <3>1. PICK j : j = Packet(p)
      OBVIOUS
    <3>2. /\ j \in Id /\ j[1] = p /\ j \notin g.due
          /\ Len(pkb[p].data) > 0
          /\ AllOf(pkb[p].data, Len(pkb[p].data), j)
          /\ g.granted[j] < g.now
          /\ \A k \in 1 .. n : g.granted[j] < g.granted[o[k]]
      BY <1>5, <2>2, <2>5, <3>1 DEF PackAt
    <3>3. j # i
      BY <1>8, <3>2 DEF Stream
    <3>4. h.granted[j] = g.granted[j] /\ g.granted[j] \in Nat
      BY <1>3, <3>2, <3>3, LedgerTypes
    <3>5. h.granted[j] < h.now
      BY <1>3, <3>2, <3>4
    <3>6. \A k \in 1 .. n : h.granted[j] < h.granted[h.owner[p][k]]
      BY <1>7, <1>9, <3>2, <3>4
    <3>7. h.granted[j] < h.granted[h.owner[p][n + 1]]
      BY <1>3, <1>7, <3>2, <3>4
    <3>8. \A k \in 1 .. n + 1 : h.granted[j] < h.granted[h.owner[p][k]]
      BY <3>6, <3>7
    <3> QED
      BY <3>1, <3>2, <3>5, <3>8
  <2>6. ASSUME HalfWay(p)
        PROVE  LET x == wd_sid_fifo[p][1]
                   j == g.owner[p][1]
                   d == ClassOf(x.wns) IN
               /\ pkb[p].dest = x.dest /\ pkb[p].sid = x.sid
               /\ g.from[j] < g.packed[p][d]
               /\ AllOf(pkb[p].data, g.packed[p][d] - g.from[j], j)
    BY <2>2, <2>6 DEF PackAt
  <2>7. \A d \in CLASS : \A j \in Stream(g, p, d) :
          g.packed[p][d] <= g.from[j] \/ (HalfWay(p) /\ g.owner[p][1] = j)
    BY <2>2 DEF PackAt
  <2>8. \A d \in CLASS : \A j \in Stream(h, p, d)' :
          h.packed[p][d] <= h.from[j] \/ (HalfWay(p)' /\ h.owner[p][1] = j)
    BY <1>3, <1>4, <2>1, <2>3, <2>4, <2>7
  <2>9. HalfWay(p)' =>
          LET x == wd_sid_fifo'[p][1]
              j == h.owner[p][1]
              d == ClassOf(x.wns) IN
          /\ wd_sid_fifo'[p] # <<>> /\ pkb'[p].dest = x.dest /\ pkb'[p].sid = x.sid
          /\ h.from[j] < h.packed[p][d]
          /\ AllOf(pkb'[p].data, h.packed[p][d] - h.from[j], j)
    BY <1>3, <2>1, <2>3, <2>4, <2>6
  <2>10. Ready(p)' =>
          LET j == Packet(p)' IN
               /\ j \in Id /\ j[1] = p /\ j \notin h.due
               /\ Len(pkb'[p].data) > 0
               /\ AllOf(pkb'[p].data, Len(pkb'[p].data), j)
               /\ h.granted[j] < h.now
               /\ \A k \in 1 .. Len(h.owner[p]) : h.granted[j] < h.granted[h.owner[p][k]]
    BY <1>3, <1>7, <2>1, <2>5
  <2> QED
    BY <2>8, <2>9, <2>10, Zenon DEF PackAt
<1>16. OvertakenAt(h, p)'
  <2>1. ASSUME NEW k \in 1 .. n + 1, NEW j
        PROVE  Late(h, p, k, j) <=> /\ g.handed[j] < g.handed[h.owner[p][k]]
                                    /\ \A m \in 1 .. k - 1 : o[m] # j
    <3>1. h.handed = g.handed
      BY <1>3
    <3>2. \A m \in 1 .. k - 1 : h.owner[p][m] = o[m]
      BY <1>5, <1>7, <2>1
    <3> QED
      BY <3>1, <3>2 DEF Late
  <2>2. ASSUME NEW k \in 1 .. n, NEW j
        PROVE  Late(h, p, k, j) <=> Late(g, p, k, j)
    <3>1. k \in 1 .. n + 1
      OBVIOUS
    <3>2. h.owner[p][k] = o[k]
      BY <1>7, <2>2
    <3>3. Late(g, p, k, j) <=> /\ g.handed[j] < g.handed[o[k]]
                               /\ \A m \in 1 .. k - 1 : o[m] # j
      BY <1>5 DEF Late
    <3> QED
      BY <2>1, <3>1, <3>2, <3>3
  <2>3. ASSUME NEW k \in 1 .. n
        PROVE  /\ q[k].wns => \A i1, j1 \in Stream(g, p, "ws") :
                                Late(h, p, k, i1) /\ Late(h, p, k, j1) => i1 = j1
               /\ ~q[k].wns => \A i1 \in Stream(g, p, "wns") : ~Late(h, p, k, i1)
    BY <1>2, <1>5, <2>2, <2>3 DEF PortAt, OvertakenAt
  <2>4. ASSUME NEW d \in CLASS, NEW j \in Stream(g, p, d), \A m \in 1 .. n : o[m] # j
        PROVE  HasData(Register(p, d)) /\ Register(p, d).id = j
    BY <1>2, <1>5, <2>4 DEF PortAt, GrantAt
  <2>5. "ws" \in CLASS /\ "wns" \in CLASS
    BY DEF CLASS
  <2>6. \A i1, j1 \in Stream(g, p, "ws") :
          Late(h, p, n + 1, i1) /\ Late(h, p, n + 1, j1) => i1 = j1
    BY <2>1, <2>4, <2>5
  <2>7. ~e.wns => \A i1 \in Stream(g, p, "wns") : ~Late(h, p, n + 1, i1)
    <3>1. ~e.wns => ~HasData(Register(p, "wns"))
      BY DEF ClassOf, HasData
    <3> QED
      BY <2>1, <2>4, <2>5, <3>1
  <2>8. \A k, j : Late(h, p, k, j)' = Late(h, p, k, j)
    BY DEF Late
  <2>9. ASSUME NEW k \in 1 .. n + 1
        PROVE  /\ wd_sid_fifo'[p][k].wns => \A i1, j1 \in Stream(g, p, "ws") :
                                Late(h, p, k, i1) /\ Late(h, p, k, j1) => i1 = j1
               /\ ~wd_sid_fifo'[p][k].wns => \A i1 \in Stream(g, p, "wns") : ~Late(h, p, k, i1)
    <3>1. CASE k = n + 1
      BY <1>6, <2>6, <2>7, <3>1
    <3>2. CASE k \in 1 .. n
      BY <1>6, <2>3, <3>2
    <3>3. k = n + 1 \/ k \in 1 .. n
      OBVIOUS
    <3> QED
      BY <3>1, <3>2, <3>3, Zenon
  <2> QED
    BY <1>4, <1>6, <2>8, <2>9 DEF OvertakenAt, Late
<1> QED
  BY <1>10, <1>11, <1>13, <1>14, <1>15, <1>16 DEF PortAt

\* What is to be delivered was granted before now, and is in no register.
LEMMA DeliverFacts ==
  ASSUME NEW g \in Ledger, LedgerOK(g), PortTypeOK, NEW i \in Id, NEW d, NEW s, NEW n,
         Delivers(g, i, d, s, n)
  PROVE  /\ g.granted[i] < g.now
         /\ \A c \in CLASS : HasData(Register(i[1], c)) => Register(i[1], c).id # i
<1>1. PICK p \in CORE : p = i[1]
  BY DEF Id
<1>2. GrantAt(g, p) /\ PackAt(g, p) /\ RegisterAt(g, p)
  BY DEF LedgerOK, PortsOK, PortAt
<1>3. \A c \in CLASS : HasData(Register(p, c)) => Register(p, c).id \in g.due
  BY <1>2 DEF RegisterAt, Stream
<1>4. CASE \E k \in 1 .. Len(wd_sid_fifo[p]) : g.owner[p][k] = i
  BY <1>1, <1>2, <1>4 DEF GrantAt
<1>5. CASE Ready(p) /\ Packet(p) = i
  BY <1>1, <1>2, <1>3, <1>5 DEF PackAt
<1> QED
  BY <1>1, <1>4, <1>5 DEF Delivers

\* A grant adds what is granted to what is to be delivered.
LEMMA GrantDelivers ==
  ASSUME Inv, NEW g \in Ledger, NEW h \in Ledger, LedgerOK(g), NEW p \in CORE,
         NEW r \in Request, NEW e \in SidEntry, NEW i \in Id, i = r.id, i[1] = p,
         g.to[i] = g.from[i] + r.len, e.dest = r.dest, pkb' = pkb,
         wd_sid_fifo'[p] = Append(wd_sid_fifo[p], e), Granted(g, h, p, r),
         \A q \in CORE : q # p => PortStays(q)
  PROVE  \A j \in Id : \A d, s, n :
           Delivers(h, j, d, s, n)' <=>
             \/ Delivers(g, j, d, s, n)
             \/ j = i /\ d = r.dest /\ s = e.sid /\ n = r.len
<1> SUFFICES ASSUME NEW j \in Id, NEW d, NEW s, NEW n
             PROVE  Delivers(h, j, d, s, n)' <=>
                      \/ Delivers(g, j, d, s, n)
                      \/ j = i /\ d = r.dest /\ s = e.sid /\ n = r.len
  OBVIOUS
<1>1. CASE j[1] # p
  <2>1. j[1] \in CORE
    BY DEF Id
  <2>2. PortStays(j[1])
    BY <1>1, <2>1
  <2>3. SameFor(g, h, j[1])
    BY <1>1, <2>1 DEF SameFor, Granted
  <2> QED
    BY <1>1, <2>2, <2>3, DeliversSame DEF PortStays
<1>2. CASE j[1] = p
  <2>1. PICK m \in Nat : m = Len(wd_sid_fifo[p])
    BY PortTypes DEF Inv, TypeOK
  <2>3. GrantAt(g, p)
    BY DEF LedgerOK, PortsOK, PortAt
  <2>4. Len(g.owner[p]) = m
    BY <2>1, <2>3 DEF GrantAt
  <2>5. g.to[i] = g.from[i] + r.len /\ r.len \in Nat /\ g.from[i] \in Nat
    BY LedgerTypes, SizeAssumption DEF Request
  <2>6. /\ Len(wd_sid_fifo'[p]) = m + 1 /\ wd_sid_fifo'[p][m + 1] = e
        /\ \A k \in 1 .. m : wd_sid_fifo'[p][k] = wd_sid_fifo[p][k]
    BY <2>1, PortTypes, WordFacts DEF Inv, TypeOK
  <2>7. /\ h.owner[p][m + 1] = i /\ \A k \in 1 .. m : h.owner[p][k] = g.owner[p][k]
        /\ h.to = g.to /\ h.from = g.from
    BY <2>4, LedgerTypes, WordFacts DEF Granted
  <2>8. /\ Ready(p)' <=> Ready(p)
        /\ Packet(p)' = Packet(p)
    BY DEF Ready, Packet
  <2> DEFINE At(k) == /\ g.owner[p][k] = j /\ n = g.to[j] - g.from[j]
                      /\ wd_sid_fifo[p][k].dest = d /\ wd_sid_fifo[p][k].sid = s
             AtH(k) == /\ h.owner[p][k] = j /\ n = h.to[j] - h.from[j]
                       /\ wd_sid_fifo'[p][k].dest = d /\ wd_sid_fifo'[p][k].sid = s
             Rdy == /\ Ready(p) /\ Packet(p) = j /\ n = Len(pkb[p].data)
                    /\ pkb[p].dest = d /\ pkb[p].sid = s
  <2>9. Delivers(g, j, d, s, n) <=> (\E k \in 1 .. m : At(k)) \/ Rdy
    BY <1>2, <2>1 DEF Delivers
  <2>10. Delivers(h, j, d, s, n)' <=> (\E k \in 1 .. m + 1 : AtH(k)) \/ Rdy
    BY <1>2, <2>6, <2>8 DEF Delivers
  <2>11. \A k \in 1 .. m : AtH(k) <=> At(k)
    BY <2>6, <2>7
  <2>12. AtH(m + 1) <=> j = i /\ d = r.dest /\ s = e.sid /\ n = r.len
    BY <2>5, <2>6, <2>7
  <2>13. \A k \in 1 .. m + 1 : k = m + 1 \/ k \in 1 .. m
    OBVIOUS
  <2>14. (m + 1) \in 1 .. m + 1 /\ \A k \in 1 .. m : k \in 1 .. m + 1
    OBVIOUS
  <2> HIDE DEF At, AtH, Rdy
  <2> QED
    BY <2>9, <2>10, <2>11, <2>12, <2>13, <2>14, Zenon
<1> QED
  BY <1>1, <1>2

\* A receiver that is to get what it was, and nothing else, awaits the same.
LEMMA AwaitsSame ==
  ASSUME NEW g \in Ledger, NEW h \in Ledger, NEW d, NEW q \in Seq(Id), Awaits(g, q, d),
         \A j \in Id : \A s, n : Delivers(g, j, d, s, n) => h.granted[j] = g.granted[j],
         \A j \in Id : \A s, n : Delivers(h, j, d, s, n)' <=> Delivers(g, j, d, s, n)
  PROVE  Awaits(h, q, d)'
<1>1. \A k \in 1 .. Len(q) : /\ q[k] \in Id /\ h.granted[q[k]] = g.granted[q[k]]
                             /\ \E s \in WSID, n \in Nat : Delivers(h, q[k], d, s, n)'
  <2> TAKE k \in 1 .. Len(q)
  <2>1. q[k] \in Id
    OBVIOUS
  <2>2. PICK s \in WSID, n \in Nat : Delivers(g, q[k], d, s, n)
    BY DEF Awaits
  <2> QED
    BY <2>1, <2>2
<1>2. \A j, k \in 1 .. Len(q) : j < k => h.granted[q[j]] < h.granted[q[k]]
  BY <1>1 DEF Awaits
<1>3. \A j \in Id, s \in WSID, n \in Nat :
        Delivers(h, j, d, s, n)' => \E k \in 1 .. Len(q) : q[k] = j
  BY DEF Awaits
<1> QED
  BY <1>1, <1>2, <1>3 DEF Awaits

\* The receiver of what is granted awaits it last.
LEMMA AwaitsGrant ==
  ASSUME NEW g \in Ledger, NEW h \in Ledger, NEW d, NEW q \in Seq(Id), Awaits(g, q, d),
         NEW i \in Id, NEW qq, qq = Append(q, i),
         h.granted[i] = g.now, \A j \in Id : j # i => h.granted[j] = g.granted[j],
         \A j \in Id : \A s, n : Delivers(g, j, d, s, n) => j # i /\ g.granted[j] < g.now,
         \A j \in Id : \A s, n : Delivers(g, j, d, s, n) => Delivers(h, j, d, s, n)',
         \A j \in Id : \A s, n : Delivers(h, j, d, s, n)' => Delivers(g, j, d, s, n) \/ j = i,
         \E s \in WSID, n \in Nat : Delivers(h, i, d, s, n)'
  PROVE  Awaits(h, qq, d)'
<1>1. \A k \in 1 .. Len(q) : /\ q[k] \in Id /\ q[k] # i /\ g.granted[q[k]] < g.now
                             /\ h.granted[q[k]] = g.granted[q[k]]
                             /\ \E s \in WSID, n \in Nat : Delivers(h, q[k], d, s, n)'
  <2> TAKE k \in 1 .. Len(q)
  <2>1. q[k] \in Id
    OBVIOUS
  <2>2. PICK s \in WSID, n \in Nat : Delivers(g, q[k], d, s, n)
    BY DEF Awaits
  <2> QED
    BY <2>1, <2>2
<1>2. \A j, k \in 1 .. Len(q) : j < k => h.granted[q[j]] < h.granted[q[k]]
  BY <1>1 DEF Awaits
<1>3. PICK l \in Nat : l = Len(q)
  OBVIOUS
<1>4. /\ Len(qq) = l + 1 /\ qq[l + 1] = i
      /\ \A k \in 1 .. l : qq[k] = q[k]
  BY <1>3, WordFacts
<1>5. \A k \in 1 .. l + 1 : k = l + 1 \/ k \in 1 .. l
  OBVIOUS
<1>6. ASSUME NEW k \in 1 .. l + 1
      PROVE  \E s \in WSID, n \in Nat : Delivers(h, qq[k], d, s, n)'
  <2>1. CASE k \in 1 .. l
    BY <1>1, <1>3, <1>4, <2>1
  <2>2. CASE k = l + 1
    BY <1>4, <2>2
  <2> QED
    BY <1>5, <2>1, <2>2
<1>7. ASSUME NEW j \in Id, NEW s \in WSID, NEW n \in Nat, Delivers(h, j, d, s, n)'
      PROVE  \E k \in 1 .. l + 1 : qq[k] = j
  <2>1. CASE Delivers(g, j, d, s, n)
    <3>1. PICK k \in 1 .. Len(q) : q[k] = j
      BY <2>1 DEF Awaits
    <3> QED
      BY <1>3, <1>4, <3>1
  <2>2. CASE j = i
    BY <1>4, <2>2
  <2> QED
    BY <1>7, <2>1, <2>2
<1>8. ASSUME NEW j \in 1 .. l + 1, NEW k \in 1 .. l + 1, j < k
      PROVE  h.granted[qq[j]] < h.granted[qq[k]]
  <2>1. j \in 1 .. l
    BY <1>8
  <2>2. CASE k \in 1 .. l
    BY <1>2, <1>3, <1>4, <1>8, <2>1, <2>2
  <2>3. CASE k = l + 1
    BY <1>1, <1>3, <1>4, <2>1, <2>3
  <2> QED
    BY <1>5, <2>2, <2>3
<1> QED
  BY <1>4, <1>6, <1>7, <1>8 DEF Awaits

\* A write with data is granted: the account grants it too.
LEMMA GrantLedger ==
  ASSUME Inv, NEW g \in Ledger, LedgerOK(g), NEW p \in CORE, NEW sid \in WSID,
         aw_req_vld(p), AwGranted(p, sid), NEW r \in Request, r = aw_req(p), r.kind # "evict",
         r.dest \in BANK => Waits(r.dest, sid, r.id, r.len)',
         r.dest = "ncq" => r.len = 1,
         \A b \in BANK, s \in WSID :
           TakesData(Slot(b, s)) /\ Slot(b, s).data = <<>> => Slot(b, s)' = Slot(b, s),
         \A b \in BANK : Awaited(b)' = IF b = r.dest THEN Append(Awaited(b), p) ELSE Awaited(b),
         woq' = IF r.dest = "ncq" THEN Append(woq, r.id) ELSE woq,
         \A b \in BANK : crt'[b] # NONE /\ TakesData(crt'[b].entry) =>
           IF b = r.dest THEN crt'[b].entry.id = r.id ELSE crt'[b] = crt[b]
  PROVE  Accounted'
<1>1. PICK c \in CLASS, e \in SidEntry :
        /\ r # NONE /\ c = ClassOf(wns(r)) /\ r.id \in Id /\ r.id[1] = p
        /\ r = Register(p, c) /\ Register(p, c)' = NONE
        /\ c = "ws" => Register(p, "wns") = NONE
        /\ \A d \in CLASS : d # c => Register(p, d)' = Register(p, d)
        /\ \A d : Beats(p, d)' = Beats(p, d)
        /\ bus_arb_w_fifo' = bus_arb_w_fifo /\ pkb' = pkb
        /\ ClassOf(e.wns) = c /\ e.dest = r.dest /\ e.sid = sid
        /\ wd_sid_fifo'[p] = Append(wd_sid_fifo[p], e)
        /\ \A q \in CORE : q # p => PortStays(q)
  <2>1. PICK r1 \in Request, c \in CLASS, e \in SidEntry :
        /\ r1 = aw_req(p) /\ r1 # NONE /\ c = ClassOf(wns(r1)) /\ r1.id \in Id /\ r1.id[1] = p
        /\ r1 = Register(p, c) /\ Register(p, c)' = NONE
        /\ c = "ws" => Register(p, "wns") = NONE
        /\ \A d \in CLASS : d # c => Register(p, d)' = Register(p, d)
        /\ \A d : Beats(p, d)' = Beats(p, d)
        /\ bus_arb_w_fifo' = bus_arb_w_fifo /\ pkb' = pkb
        /\ e.wns = wns(r1) /\ e.dest = r1.dest /\ e.sid = sid
        /\ wd_sid_fifo'[p] = IF r1.kind = "evict" THEN wd_sid_fifo[p]
                              ELSE Append(wd_sid_fifo[p], e)
        /\ \A q \in CORE : q # p => PortStays(q)
    BY GrantState
  <2>2. r1 = r
    BY <2>1
  <2>3. wd_sid_fifo'[p] = Append(wd_sid_fifo[p], e)
    BY <2>1, <2>2
  <2>4. ClassOf(e.wns) = c
    BY <2>1
  <2> QED
    BY <2>1, <2>2, <2>3, <2>4, Zenon
<1>2. PICK h \in Ledger : Granted(g, h, p, r)
  BY <1>1, GrantedLedger
<1>3. PICK i \in Id, x \in Receiver, len \in Nat : i = r.id /\ x = r.dest /\ len = r.len
  <2>1. r.len \in Nat /\ r.dest \in Receiver
    BY SizeAssumption DEF Request
  <2> QED
    BY <1>1, <2>1
<1>4. PortTypeOK /\ PortsOK(g) /\ SlotOK(g) /\ ReceiveOK(g) /\ woq \in Seq(Id)
  BY DEF Inv, TypeOK, NcqTypeOK, LedgerOK
<1>5. PortAt(h, p)'
  BY <1>1, <1>2, GrantPort
<1>6. ASSUME NEW q \in CORE, q # p PROVE PortAt(h, q)'
  <2>1. SameFor(g, h, q)
    BY <1>1, <1>2, <1>6 DEF SameFor, Granted
  <2>2. g.now <= h.now
    BY <1>2, LedgerTypes DEF Granted
  <2> QED
    BY <1>1, <1>4, <1>6, <2>1, <2>2, PortKept DEF PortsOK
<1>7. StampOK(h)'
  BY <1>2, <1>4, LedgerTypes DEF StampOK, Granted, PortsOK
<1>8. PortsOK(h)'
  BY <1>5, <1>6, <1>7 DEF PortsOK
<1>9. \A j \in Id : \A d, s, n : Delivers(h, j, d, s, n)' <=>
        Delivers(g, j, d, s, n) \/ (j = i /\ d = x /\ s = sid /\ n = len)
  <2>1. g.to[i] = g.from[i] + r.len /\ i[1] = p
    <3>1. RegisterAt(g, p)
      BY <1>4 DEF PortsOK, PortAt
    <3>2. HasData(Register(p, c)) /\ Register(p, c) = r
      BY <1>1 DEF HasData
    <3>3. g.to[r.id] = g.from[r.id] + r.len
      BY <3>1, <3>2 DEF RegisterAt
    <3> QED
      BY <1>1, <1>3, <3>3
  <2>2. /\ pkb' = pkb /\ e.dest = r.dest /\ wd_sid_fifo'[p] = Append(wd_sid_fifo[p], e)
        /\ e.sid = sid
    BY <1>1
  <2>3. \A q \in CORE : q # p => PortStays(q)
    BY <1>1
  <2>4. \A j \in Id : \A d, s, n : Delivers(h, j, d, s, n)' <=>
           Delivers(g, j, d, s, n) \/ (j = i /\ d = r.dest /\ s = e.sid /\ n = r.len)
    BY <1>2, <1>3, <2>1, <2>2, <2>3, GrantDelivers
  <2> QED
    BY <1>3, <2>2, <2>4
<1>10. \A j \in Id : \A d, s, n : Delivers(g, j, d, s, n) => j # i /\ g.granted[j] < g.now
  <2>1. HasData(Register(p, c)) /\ i[1] = p
    BY <1>1, <1>3 DEF HasData
  <2> SUFFICES ASSUME NEW j \in Id, NEW d, NEW s, NEW n, Delivers(g, j, d, s, n)
               PROVE  j # i /\ g.granted[j] < g.now
    OBVIOUS
  <2> QED
    BY <1>1, <1>3, <1>4, <2>1, DeliverFacts
<1>11. SlotOK(h)'
  <2> SUFFICES ASSUME NEW j \in Id, NEW d \in Receiver, NEW s \in WSID, NEW n \in Nat,
                      Delivers(h, j, d, s, n)'
               PROVE  /\ d \in BANK => Waits(d, s, j, n)'
                      /\ d = "ncq" => n = 1
    BY DEF SlotOK
  <2>1. CASE Delivers(g, j, d, s, n)
    <3>1. /\ d \in BANK => Waits(d, s, j, n)
          /\ d = "ncq" => n = 1
      BY <1>4, <2>1 DEF SlotOK
    <3>2. d \in BANK => Waits(d, s, j, n)'
      BY <3>1 DEF Waits, TakesData
    <3> QED
      BY <3>1, <3>2
  <2>2. CASE j = i /\ d = x /\ s = sid /\ n = len
    <3>1. d = "ncq" => n = 1
      BY <1>1, <1>3, <2>2
    <3>2. ASSUME d \in BANK PROVE Waits(d, s, j, n)'
      BY <1>3, <2>2, <3>2
    <3> QED
      BY <3>1, <3>2
  <2> QED
    BY <1>9, <2>1, <2>2
<1>12. /\ h.granted[i] = g.now /\ \A j \in Id : j # i => h.granted[j] = g.granted[j]
       /\ \A b \in BANK : h.owed[b] = IF b = x THEN Append(g.owed[b], i) ELSE g.owed[b]
  BY <1>2, <1>3 DEF Granted
<1>13. ASSUME NEW d \in Receiver, NEW q \in Seq(Id), Awaits(g, q, d),
              NEW qq, qq = IF d = x THEN Append(q, i) ELSE q
       PROVE  Awaits(h, qq, d)'
  <2>1. \A j \in Id : \A s, n : Delivers(g, j, d, s, n) => j # i /\ g.granted[j] < g.now
    BY <1>10
  <2>2. \A j \in Id : \A s, n : Delivers(h, j, d, s, n)' <=>
          Delivers(g, j, d, s, n) \/ (j = i /\ d = x /\ s = sid /\ n = len)
    BY <1>9
  <2>3. h.granted[i] = g.now /\ \A j \in Id : j # i => h.granted[j] = g.granted[j]
    BY <1>12
  <2>4. CASE d # x
    <3>1. qq = q
      BY <1>13, <2>4
    <3>2. \A j \in Id : \A s, n : Delivers(h, j, d, s, n)' <=> Delivers(g, j, d, s, n)
      BY <2>2, <2>4
    <3>3. \A j \in Id : \A s, n : Delivers(g, j, d, s, n) => h.granted[j] = g.granted[j]
      BY <2>1, <2>3
    <3>4. Awaits(h, q, d)'
      BY <1>13, <3>2, <3>3, AwaitsSame
    <3> QED
      BY <3>1, <3>4
  <2>5. CASE d = x
    <3>1. qq = Append(q, i)
      BY <1>13, <2>5
    <3>2. \A j \in Id : \A s, n : Delivers(g, j, d, s, n) => Delivers(h, j, d, s, n)'
      BY <2>2
    <3>3. \A j \in Id : \A s, n :
            Delivers(h, j, d, s, n)' => Delivers(g, j, d, s, n) \/ j = i
      BY <2>2
    <3>4. \E s \in WSID, n \in Nat : Delivers(h, i, d, s, n)'
      BY <2>2, <2>5
    <3> QED
      BY <1>13, <2>1, <2>3, <3>1, <3>2, <3>3, <3>4, AwaitsGrant
  <2> QED
    BY <2>4, <2>5
<1>14. ASSUME NEW b \in BANK
       PROVE  /\ Len(h.owed[b]) = Len(Awaited(b)')
              /\ \A k \in 1 .. Len(Awaited(b)') : h.owed[b][k][1] = Awaited(b)'[k]
              /\ Awaits(h, h.owed[b], b)'
  <2>1. /\ Len(g.owed[b]) = Len(Awaited(b)) /\ g.owed[b] \in Seq(Id)
        /\ \A k \in 1 .. Len(Awaited(b)) : g.owed[b][k][1] = Awaited(b)[k]
        /\ Awaits(g, g.owed[b], b)
    BY <1>4, LedgerTypes DEF ReceiveOK
  <2>2. CASE b # x
    <3>1. h.owed[b] = g.owed[b] /\ Awaited(b)' = Awaited(b)
      BY <1>1, <1>3, <1>12, <2>2
    <3> QED
      BY <1>13, <2>1, <2>2, <3>1 DEF Receiver
  <2>3. CASE b = x
    <3>1. h.owed[b] = Append(g.owed[b], i) /\ Awaited(b)' = Append(Awaited(b), p)
      BY <1>1, <1>3, <1>12, <2>3
    <3>2. PICK a : a = Awaited(b)
      OBVIOUS
    <3>3. a \in Seq(CORE)
      <4>1. /\ wd_sel_fifo[b] \in Seq(CORE) /\ crt \in [BANK -> Create \cup {NONE}]
            /\ wd_sel_fifo \in [BANK -> Seq(CORE)]
        BY DEF Inv, TypeOK, BankTypeOK, Create
      <4>2. CASE crt[b] = NONE
        BY <3>2, <4>1, <4>2 DEF Awaited
      <4>3. CASE crt[b] # NONE
        <5>1. a = IF TakesData(crt[b].entry)
                  THEN Append(wd_sel_fifo[b], crt[b].entry.mid) ELSE wd_sel_fifo[b]
          BY <3>2, <4>1, <4>3 DEF Awaited, SelCreate
        <5>2. TakesData(crt[b].entry) => crt[b].entry.mid \in CORE
          BY <4>3 DEF Inv, CreateOK
        <5> QED
          BY <4>1, <5>1, <5>2, SeqFacts
      <4> QED
        BY <4>2, <4>3
    <3>4. PICK l \in Nat : l = Len(a) /\ l = Len(g.owed[b])
      BY <2>1, <3>2, <3>3
    <3>5. /\ Len(Awaited(b)') = l + 1 /\ Awaited(b)'[l + 1] = p
          /\ \A k \in 1 .. l : Awaited(b)'[k] = a[k]
      <4>1. Awaited(b)' = Append(a, p)
        BY <3>1, <3>2
      <4>2. /\ Len(Append(a, p)) = Len(a) + 1 /\ Append(a, p)[Len(a) + 1] = p
            /\ \A k \in 1 .. Len(a) : Append(a, p)[k] = a[k]
        BY <3>3, WordFacts
      <4> QED
        BY <3>4, <4>1, <4>2
    <3>6. /\ Len(h.owed[b]) = l + 1 /\ h.owed[b][l + 1] = i
          /\ \A k \in 1 .. l : h.owed[b][k] = g.owed[b][k]
      BY <2>1, <3>1, <3>4, WordFacts
    <3>7. ASSUME NEW k \in 1 .. l + 1 PROVE h.owed[b][k][1] = Awaited(b)'[k]
      <4>1. CASE k \in 1 .. l
        BY <2>1, <3>2, <3>4, <3>5, <3>6, <4>1
      <4>2. CASE k = l + 1
        BY <1>1, <1>3, <3>5, <3>6, <4>2
      <4> QED
        BY <4>1, <4>2
    <3>8. Awaits(h, h.owed[b], b)'
      <4>1. PICK q \in Seq(Id) : q = g.owed[b]
        BY <2>1
      <4>2. PICK qq : qq = Append(q, i)
        OBVIOUS
      <4>3. Awaits(h, qq, b)'
        BY <1>13, <2>1, <2>3, <4>1, <4>2 DEF Receiver
      <4> QED
        BY <3>1, <4>1, <4>2, <4>3
    <3> QED
      BY <3>5, <3>6, <3>7, <3>8
  <2> QED
    BY <2>2, <2>3
<1>15. Awaits(h, woq, "ncq")'
  <2>1. PICK q \in Seq(Id) : q = woq
    BY <1>4
  <2>2. Awaits(g, q, "ncq")
    BY <1>4, <2>1 DEF ReceiveOK
  <2>3. PICK qq : qq = woq' /\ qq = IF "ncq" = x THEN Append(q, i) ELSE q
    BY <1>1, <1>3, <2>1
  <2>4. Awaits(h, qq, "ncq")'
    BY <1>13, <2>2, <2>3 DEF Receiver
  <2> QED
    BY <2>3, <2>4 DEF Awaits
<1>16. ReceiveOK(h)'
  BY <1>14, <1>15 DEF ReceiveOK
<1>17. LastOK(h)'
  <2> SUFFICES ASSUME NEW b \in BANK, crt'[b] # NONE, TakesData(crt'[b].entry)
               PROVE  h.owed[b][Len(h.owed[b])] = crt'[b].entry.id
    BY DEF LastOK, TakesData
  <2>1. CASE b = x
    <3>1. g.owed[b] \in Seq(Id) /\ Len(g.owed[b]) \in Nat
      BY LedgerTypes
    <3>2. PICK l \in Nat : l = Len(g.owed[b])
      BY <3>1
    <3>3. h.owed[b] = Append(g.owed[b], i)
      BY <1>12, <2>1
    <3>4. Len(h.owed[b]) = l + 1 /\ h.owed[b][l + 1] = i
      BY <3>1, <3>2, <3>3, WordFacts
    <3> QED
      BY <1>3, <2>1, <3>4
  <2>2. CASE b # x
    BY <1>3, <1>12, <2>2 DEF LedgerOK, LastOK, TakesData
  <2> QED
    BY <2>1, <2>2
<1>18. LedgerOK(h)'
  BY <1>8, <1>11, <1>16, <1>17 DEF LedgerOK
<1> QED
  BY <1>18 DEF Accounted

\* A bank grants a request: its entry waits, if it has data.
LEMMA SnbAwGrantLedger ==
  ASSUME Inv, NEW g \in Ledger, LedgerOK(g), NEW p \in CORE, NEW b \in BANK, SnbAwGrant(p, b)
  PROVE  Accounted'
<1>1. /\ PortTypeOK /\ RoutedOK /\ BankOK /\ woq \in Seq(Id) /\ aw_req_vld(p)
      /\ SlotOK(g) /\ ReceiveOK(g)
  BY DEF Inv, TypeOK, BankOK, NcqTypeOK, SnbAwGrant, LedgerOK
<1>2. PICK r \in Request, sid \in WSID :
        /\ r = aw_req(p) /\ sid = sab_create1_ptr(b) /\ sid \notin sab_wentry_vld(b)
        /\ r.dest = b /\ r.kind \in WriteKind \ {"nc", "bar"} /\ r.id \in Id
  <2>1. aw_req(p) \in Request /\ aw_req(p).dest \in Receivers(aw_req(p).kind) /\ aw_req(p).dest = b
    BY <1>1, RequestFacts DEF SnbAwGrant
  <2>2. aw_req(p).kind \in WriteKind \ {"nc", "bar"}
    BY <2>1, Sizes DEF Request, Receivers, WriteKind
  <2>3. wns(aw_req(p)) \in BOOLEAN
    BY DEF wns
  <2>4. sab_create1_ptr(b) \in WSID \ sab_wentry_vld(b)
    BY <2>3, FreeEntry DEF SnbAwGrant
  <2>5. aw_req(p).id \in Id
    BY <2>1 DEF Request
  <2> QED
    BY <2>1, <2>2, <2>4, <2>5
<1>3. AwGranted(p, sid) /\ UNCHANGED ncq
  BY <1>2 DEF SnbAwGrant
<1>4. PICK next \in Create :
        next = [sid |-> sid, entry |-> [kind |-> r.kind, mid |-> p, id |-> r.id,
                                        len |-> r.len, data |-> <<>>]]
  <2>1. <<>> \in Data
    BY DEF Data
  <2>2. r.id \in Id /\ r.len \in 0 .. LINE_BEATS
    BY DEF Request
  <2> QED
    BY <1>2, <2>1, <2>2 DEF Create, Entry
<1>5. CreateEntry(b, next)
  BY <1>2, <1>4 DEF SnbAwGrant
<1>6. /\ next # NONE /\ next.sid = sid
      /\ next.entry.kind = r.kind /\ next.entry.mid = p /\ next.entry.id = r.id
      /\ next.entry.len = r.len /\ next.entry.data = <<>>
  BY <1>4, NoneAssumption DEF Create
<1>7. /\ \A c \in BANK, s \in WSID :
           Slot(c, s)' = IF c = b /\ sid = s THEN next.entry ELSE Slot(c, s)
      /\ \A c \in BANK :
           Awaited(c)' = IF c = b /\ TakesData(next.entry) THEN Append(Awaited(b), p)
                         ELSE Awaited(c)
  BY <1>1, <1>5, <1>6, CreateSlots
<1>8. ~TakesData(Slot(b, sid))
  BY <1>2 DEF Slot, sab_wentry_vld, TakesData
<1>9. \A c \in BANK, s \in WSID :
        TakesData(Slot(c, s)) /\ Slot(c, s).data = <<>> => Slot(c, s)' = Slot(c, s)
  BY <1>7, <1>8
<1>10. /\ crt \in [BANK -> Create \cup {NONE}]
       /\ \A c \in BANK : crt'[c] = IF c = b THEN next ELSE crt[c]
  BY <1>1, <1>5 DEF CreateEntry, BankOK, BankTypeOK, Create
<1>11. CASE r.kind = "evict"
  <2>1. PortsOK(g)' /\ UNCHANGED wd_sid_fifo /\ PackSame
    BY <1>1, <1>2, <1>3, <1>11, GrantEvict
  <2>2. UNCHANGED <<wd_sid_fifo, woq>>
    BY <1>3, <2>1 DEF ncq
  <2>3. ~TakesData(next.entry)
    BY <1>6, <1>11 DEF TakesData
  <2>4. \A c \in BANK : Awaited(c)' = Awaited(c)
    BY <1>7, <2>3
  <2>5. SlotOK(g)' /\ ReceiveOK(g)'
    BY <1>1, <1>9, <2>1, <2>2, <2>4, BankKept
  <2>7. LastOK(g)'
    BY <1>10, <2>3, LastKept DEF LedgerOK
  <2>6. LedgerOK(g)'
    BY <2>1, <2>5, <2>7 DEF LedgerOK
  <2> QED
    BY <2>6 DEF Accounted
<1>12. CASE r.kind # "evict"
  <2>1. TakesData(next.entry)
    BY <1>2, <1>6, <1>12 DEF TakesData, WriteKind
  <2>2. \A c \in BANK : Awaited(c)' = IF c = r.dest THEN Append(Awaited(c), p) ELSE Awaited(c)
    BY <1>2, <1>7, <2>1
  <2>3. Waits(r.dest, sid, r.id, r.len)'
    <3>1. Slot(b, sid)' = next.entry
      BY <1>7
    <3>2. r.id[1] = p
      BY <1>1, <1>2, <1>3, GrantState
    <3> QED
      BY <1>2, <1>6, <2>1, <3>1, <3>2 DEF Waits, TakesData
  <2>4. r.dest # "ncq"
    BY <1>2, Sizes
  <2>5. woq' = woq
    BY <1>3 DEF ncq
  <2>6. \A c \in BANK : crt'[c] # NONE /\ TakesData(crt'[c].entry) =>
          IF c = r.dest THEN crt'[c].entry.id = r.id ELSE crt'[c] = crt[c]
    BY <1>2, <1>6, <1>10
  <2> QED
    BY <1>1, <1>2, <1>3, <1>9, <1>12, <2>2, <2>3, <2>4, <2>5, <2>6, GrantLedger
<1> QED
  BY <1>11, <1>12

\* The NCQ or the barrier merging buffer grants a request.
LEMMA NcqAwGrantLedger ==
  ASSUME Inv, NEW g \in Ledger, LedgerOK(g), NEW p \in CORE, NcqAwGrant(p) \/ BmbAwGrant(p)
  PROVE  Accounted'
<1>1. PICK r \in Request :
        /\ r = aw_req(p) /\ r.dest \in Receivers(r.kind) /\ r.len \in Lengths(r.kind)
        /\ r.dest \in {"ncq", "bmb"} /\ aw_req_vld(p) /\ AwGranted(p, 0)
  <2>1. aw_req_vld(p) /\ AwGranted(p, 0) /\ aw_req(p).dest \in {"ncq", "bmb"}
    BY DEF NcqAwGrant, BmbAwGrant
  <2> QED
    BY <2>1, Sizes, GrantState
<1>2. UNCHANGED snb
  BY DEF NcqAwGrant, BmbAwGrant, snb
<1>3. r.dest \notin BANK /\ r.kind # "evict" /\ r.len = 1
  <2>1. r.dest \notin BANK
    BY <1>1, Sizes
  <2>2. r.kind = "nc" \/ r.kind = "bar"
    BY <1>1, <2>1 DEF Receivers
  <2> QED
    BY <1>1, <2>1, <2>2 DEF Lengths
<1>4. /\ \A b \in BANK, s \in WSID :
           TakesData(Slot(b, s)) /\ Slot(b, s).data = <<>> => Slot(b, s)' = Slot(b, s)
      /\ \A b \in BANK : Awaited(b)' = IF b = r.dest THEN Append(Awaited(b), p) ELSE Awaited(b)
  BY <1>2, <1>3 DEF Slot, Awaited, SelCreate, TakesData, snb
<1>5. woq' = IF r.dest = "ncq" THEN Append(woq, r.id) ELSE woq
  BY <1>1 DEF NcqAwGrant, BmbAwGrant, ncq
<1>6. \A b \in BANK : crt'[b] # NONE /\ TakesData(crt'[b].entry) =>
        IF b = r.dest THEN crt'[b].entry.id = r.id ELSE crt'[b] = crt[b]
  BY <1>2, <1>3 DEF snb
<1> QED
  BY <1>1, <1>3, <1>4, <1>5, <1>6, Sizes, GrantLedger

-----------------------------------------------------------------------------
(***************************************************************************)
(* A receiver takes a package with the data of a write.                    *)
(***************************************************************************)

\* Two accounts that differ in no more than in what the banks are owed.
SameWrites(g, h) ==
  /\ h.due = g.due /\ h.class = g.class /\ h.from = g.from /\ h.to = g.to
  /\ h.handed = g.handed /\ h.granted = g.granted /\ h.owner = g.owner
  /\ h.packed = g.packed /\ h.total = g.total /\ h.now = g.now

\* The package of a port is gone.
Emptied(p) ==
  /\ UNCHANGED <<bus_arb_w_fifo, aw, wd_sid_fifo, wd>>
  /\ pkb' = [pkb EXCEPT ![p] = NONE]

\* The port whose package is gone has what it had of all else.
LEMMA EmptiedPort ==
  ASSUME PortTypeOK, NEW g \in Ledger, NEW h \in Ledger, PortsOK(g), NEW p \in CORE,
         Ready(p), Emptied(p), SameWrites(g, h)
  PROVE  PortsOK(h)'
<1>1. \A c : \A q \in CORE : Beats(q, c)' = Beats(q, c) /\ Register(q, c)' = Register(q, c)
  BY DEF Beats, Register, Emptied, aw, wd
<1>2. /\ \A q \in CORE : bus_arb_w_fifo'[q] = bus_arb_w_fifo[q] /\ wd_sid_fifo'[q] = wd_sid_fifo[q]
      /\ \A q \in CORE : pkb'[q] = IF q = p THEN NONE ELSE pkb[q]
  BY DEF Emptied, PortTypeOK
<1>3. ASSUME NEW q \in CORE, q # p PROVE PortAt(h, q)'
  <2>1. SameFor(g, h, q) /\ g.now <= h.now
    BY LedgerTypes DEF SameFor, SameWrites
  <2>2. PortStays(q)
    BY <1>2, <1>3 DEF PortStays, PackSameAt, Emptied, aw, wd
  <2> QED
    BY <2>1, <2>2, PortKept DEF PortsOK
<1>4. PortAt(g, p)
  BY DEF PortsOK
<1>5. \A c : Stream(h, p, c)' = Stream(g, p, c) /\ Sent(h, p, c)' = Sent(g, p, c)
  BY <1>1 DEF Stream, Sent, SameWrites
<1>6. StreamAt(h, p)'
  BY <1>4, <1>5 DEF PortAt, StreamAt, SameWrites
<1>7. BeatsAt(h, p)'
  BY <1>1, <1>4, <1>5 DEF PortAt, BeatsAt, BeatOK, SameWrites
<1>8. BusAt(h, p)'
  BY SMTT(30), <1>2, <1>4, <1>5, ClassType DEF PortAt, BusAt, OrderOK, SameWrites
<1>9. RegisterAt(h, p)'
  BY <1>1, <1>4, <1>5 DEF PortAt, RegisterAt, HasData, SameWrites
<1>10. GrantAt(h, p)'
  BY SMTT(30), <1>1, <1>2, <1>4, <1>5 DEF PortAt, GrantAt, HasData, SameWrites
<1>11. PackAt(h, p)'
  <2>1. ~HalfWay(p) /\ ~HalfWay(p)' /\ ~Ready(p)'
    BY <1>2 DEF HalfWay, Ready, Filling
  <2>2. \A c \in CLASS : \A i \in Stream(g, p, c) : g.packed[p][c] <= g.from[i]
    BY <1>4, <2>1 DEF PortAt, PackAt
  <2> QED
    BY <1>5, <2>1, <2>2 DEF PackAt, SameWrites
<1>12. OvertakenAt(h, p)'
  <2>1. OvertakenAt(g, p)
    BY <1>4 DEF PortAt
  <2>2. wd_sid_fifo'[p] = wd_sid_fifo[p] /\ h.owner[p] = g.owner[p] /\ h.handed = g.handed
    BY <1>2 DEF SameWrites
  <2> QED
    BY <1>5, <2>1, <2>2, OvertakenKept
<1>13. StampOK(h)'
  BY DEF PortsOK, StampOK, SameWrites
<1> QED
  BY <1>3, <1>6, <1>7, <1>8, <1>9, <1>10, <1>11, <1>12, <1>13 DEF PortAt, PortsOK

\* What is to be delivered is what was, less the package.
LEMMA EmptiedDelivers ==
  ASSUME PortTypeOK, NEW g \in Ledger, NEW h \in Ledger, PortsOK(g), NEW p \in CORE,
         Ready(p), Emptied(p), SameWrites(g, h), NEW i, i = Packet(p)
  PROVE  /\ i \in Id /\ i[1] = p
         /\ \A j \in Id : \A d, s, n :
              Delivers(h, j, d, s, n)' <=> Delivers(g, j, d, s, n) /\ j # i
         /\ \A d, s, n : Delivers(g, i, d, s, n) <=>
              d = pkb[p].dest /\ s = pkb[p].sid /\ n = Len(pkb[p].data)
<1>1. PackAt(g, p) /\ GrantAt(g, p)
  BY DEF PortsOK, PortAt
<1>2. i \in Id /\ i[1] = p /\ i \notin g.due
  BY <1>1 DEF PackAt
<1>3. \A k \in 1 .. Len(wd_sid_fifo[p]) : g.owner[p][k] # i
  BY <1>1, <1>2 DEF GrantAt, Stream
<1>4. ~Ready(p)' /\ wd_sid_fifo' = wd_sid_fifo /\ h.owner = g.owner /\ h.to = g.to /\ h.from = g.from
  BY DEF Ready, Emptied, PortTypeOK, SameWrites
<1>5. ASSUME NEW j \in Id, NEW d, NEW s, NEW n
      PROVE  Delivers(h, j, d, s, n)' <=> Delivers(g, j, d, s, n) /\ j # i
  <2>1. CASE j[1] = p
    BY <1>2, <1>3, <1>4, <2>1 DEF Delivers
  <2>2. CASE j[1] # p
    <3>1. j[1] \in CORE
      BY DEF Id
    <3>2. SameFor(g, h, j[1]) /\ PackSameAt(j[1])
      BY <2>2, <3>1 DEF SameFor, SameWrites, PackSameAt, Emptied, PortTypeOK
    <3>3. j # i
      BY <1>2, <2>2
    <3> QED
      BY <1>4, <3>2, <3>3, DeliversSame
  <2> QED
    BY <2>1, <2>2
<1>6. \A d, s, n : Delivers(g, i, d, s, n) <=>
        d = pkb[p].dest /\ s = pkb[p].sid /\ n = Len(pkb[p].data)
  BY <1>2, <1>3 DEF Delivers
<1> QED
  BY <1>2, <1>5, <1>6

\* The write of a package is the first that its receiver awaits of the port.
LEMMA FirstAwaited ==
  ASSUME PortTypeOK, NEW g \in Ledger, PortsOK(g), NEW p \in CORE, Ready(p),
         NEW d, d = pkb[p].dest, NEW q \in Seq(Id), q # <<>>, q[1][1] = p, Awaits(g, q, d)
  PROVE  q[1] = Packet(p)
<1>1. PICK i : i = Packet(p)
  OBVIOUS
<1>2. PackAt(g, p) /\ GrantAt(g, p)
  BY DEF PortsOK, PortAt
<1>3. /\ i \in Id /\ i[1] = p
      /\ \A k \in 1 .. Len(g.owner[p]) : g.granted[i] < g.granted[g.owner[p][k]]
      /\ Len(g.owner[p]) = Len(wd_sid_fifo[p])
  BY <1>1, <1>2 DEF PackAt, GrantAt
<1>4. PICK s \in WSID, n \in Nat : s = pkb[p].sid /\ n = Len(pkb[p].data)
  <2>1. pkb[p] \in Package
    BY DEF Ready, PortTypeOK
  <2>2. pkb[p].sid \in WSID /\ pkb[p].data \in Seq(Id \cup {NONE})
    BY <2>1 DEF Package, Data
  <2>3. Len(pkb[p].data) \in Nat
    BY <2>2, SeqFacts
  <2> QED
    BY <2>2, <2>3
<1>5. Delivers(g, i, d, s, n)
  BY <1>1, <1>3, <1>4 DEF Delivers
<1>6. PICK k \in 1 .. Len(q) : q[k] = i
  BY <1>3, <1>5 DEF Awaits
<1>7. 1 \in 1 .. Len(q) /\ q[1] \in Id
  BY SeqFacts
<1>8. CASE k # 1
  <2>1. g.granted[q[1]] < g.granted[i] /\ q[1] # i
    <3>1. 1 < k
      BY <1>6, <1>8
    <3>2. g.granted[q[1]] < g.granted[i]
      BY <1>6, <1>7, <3>1 DEF Awaits
    <3> QED
      BY <1>3, <1>7, <3>2, LedgerTypes
  <2>2. PICK s1 \in WSID, n1 \in Nat : Delivers(g, q[1], d, s1, n1)
    BY <1>7 DEF Awaits
  <2>3. PICK m \in 1 .. Len(wd_sid_fifo[p]) : g.owner[p][m] = q[1]
    BY <1>1, <2>1, <2>2 DEF Delivers
  <2>4. g.granted[i] < g.granted[q[1]]
    BY <1>3, <2>3
  <2> QED
    BY <1>3, <1>7, <2>1, <2>4, LedgerTypes
<1> QED
  BY <1>1, <1>6, <1>8

\* The receiver of a package awaits the rest.
LEMMA AwaitsRest ==
  ASSUME NEW g \in Ledger, NEW h \in Ledger, NEW d, NEW q \in Seq(Id), Awaits(g, q, d),
         q # <<>>, NEW i \in Id, q[1] = i, h.granted = g.granted,
         \A j \in Id : \A s, n : Delivers(h, j, d, s, n)' <=> Delivers(g, j, d, s, n) /\ j # i,
         NEW qq, qq = Tail(q)
  PROVE  Awaits(h, qq, d)'
<1>1. PICK l \in Nat : l + 1 = Len(q)
  <2>1. Len(q) \in Nat /\ Len(q) > 0
    BY SeqFacts
  <2> QED
    BY <2>1
<1>2. Len(qq) = l /\ \A k \in 1 .. l : qq[k] = q[k + 1]
  <2>1. Len(Tail(q)) = Len(q) - 1 /\ \A k \in 1 .. Len(q) - 1 : Tail(q)[k] = q[k + 1]
    BY WordFacts
  <2> QED
    BY <1>1, <2>1
<1>3. \A k \in 1 .. l + 1 : q[k] \in Id /\ g.granted[q[k]] \in Nat
  BY <1>1, LedgerTypes
<1>4. ASSUME NEW k \in 1 .. l
      PROVE  /\ qq[k] = q[k + 1] /\ k + 1 \in 1 .. l + 1 /\ qq[k] \in Id
             /\ qq[k] # i
  <2>1. 1 \in 1 .. Len(q) /\ k + 1 \in 1 .. Len(q) /\ 1 < k + 1
    BY <1>1
  <2>2. g.granted[q[1]] < g.granted[q[k + 1]]
    BY <2>1 DEF Awaits
  <2>3. qq[k] = q[k + 1] /\ k + 1 \in 1 .. l + 1 /\ g.granted[q[1]] \in Nat
    BY <1>1, <1>2, <1>3, <2>1
  <2>4. q[k + 1] # q[1]
    BY <2>2, <2>3
  <2> QED
    BY <1>3, <2>3, <2>4
<1>5. ASSUME NEW k \in 1 .. l
      PROVE  \E s \in WSID, n \in Nat : Delivers(h, qq[k], d, s, n)'
  <2>1. PICK s \in WSID, n \in Nat : Delivers(g, qq[k], d, s, n)
    BY <1>1, <1>4 DEF Awaits
  <2> QED
    BY <1>4, <2>1
<1>6. ASSUME NEW j \in Id, NEW s \in WSID, NEW n \in Nat, Delivers(h, j, d, s, n)'
      PROVE  \E k \in 1 .. l : qq[k] = j
  <2>1. Delivers(g, j, d, s, n) /\ j # i
    BY <1>6
  <2>2. PICK k \in 1 .. l + 1 : q[k] = j
    BY <1>1, <2>1 DEF Awaits
  <2>3. PICK m \in Nat : k = m + 1 /\ m \in 1 .. l
    <3>1. k # 1
      BY <2>1, <2>2
    <3>2. k - 1 \in Nat /\ k - 1 \in 1 .. l /\ k = (k - 1) + 1
      BY <3>1
    <3> QED
      BY <3>2
  <2> QED
    BY <1>2, <2>2, <2>3
<1>7. ASSUME NEW j \in 1 .. l, NEW k \in 1 .. l, j < k
      PROVE  h.granted[qq[j]] < h.granted[qq[k]]
  <2>1. j + 1 \in 1 .. Len(q) /\ k + 1 \in 1 .. Len(q) /\ j + 1 < k + 1
    BY <1>1, <1>7
  <2> QED
    BY <1>4, <2>1 DEF Awaits
<1> QED
  BY <1>2, <1>5, <1>6, <1>7 DEF Awaits

\* The other receivers await what they did.
LEMMA AwaitsOther ==
  ASSUME PortTypeOK, NEW g \in Ledger, NEW h \in Ledger, PortsOK(g), NEW p \in CORE,
         Ready(p), Emptied(p), SameWrites(g, h), NEW d, d # pkb[p].dest,
         NEW q \in Seq(Id), Awaits(g, q, d)
  PROVE  Awaits(h, q, d)'
<1>1. PICK i : i = Packet(p)
  OBVIOUS
<1>2. \A j \in Id : \A s, n : Delivers(h, j, d, s, n)' <=> Delivers(g, j, d, s, n) /\ j # i
  BY <1>1, EmptiedDelivers
<1>3. \A s, n : ~Delivers(g, i, d, s, n)
  BY <1>1, EmptiedDelivers
<1>4. \A j \in Id : \A s, n : Delivers(h, j, d, s, n)' <=> Delivers(g, j, d, s, n)
  BY <1>2, <1>3
<1>5. h.granted = g.granted
  BY DEF SameWrites
<1> QED
  BY <1>4, <1>5, AwaitsSame

\* The NCQ gets the data of the write it awaits first.
LEMMA NcqWcdGrantLedger ==
  ASSUME Inv, NEW g \in Ledger, LedgerOK(g), NEW p \in CORE, NcqWcdGrant(p), Ready(p)
  PROVE  /\ Accounted'
         /\ wdq' = Append(wdq, [id |-> Head(woq), data |-> <<Head(woq)>>])
<1>1. PICK q \in Seq(Id) : q = woq /\ woq # <<>> /\ Head(woq)[1] = p /\ woq' = Tail(q)
  BY DEF NcqWcdGrant, Inv, TypeOK, NcqTypeOK
<1>2. q # <<>> /\ q[1][1] = p /\ q[1] = Head(woq) /\ Len(q) > 0 /\ 1 \in 1 .. Len(q)
  BY <1>1, SeqFacts
<1>3. /\ PortTypeOK /\ PortsOK(g) /\ SlotOK(g) /\ ReceiveOK(g) /\ Emptied(p)
      /\ pkb[p].dest = "ncq" /\ UNCHANGED snb
  BY DEF Inv, TypeOK, LedgerOK, NcqWcdGrant, Packed, Unpack, Emptied
<1>4. PICK i : i = Packet(p)
  OBVIOUS
<1>5. Awaits(g, q, "ncq")
  BY <1>1, <1>3 DEF ReceiveOK
<1>6. q[1] = i
  BY <1>2, <1>3, <1>4, <1>5, FirstAwaited
<1>7. SameWrites(g, g)
  BY DEF SameWrites
<1>8. /\ i \in Id /\ i[1] = p
      /\ \A j \in Id : \A d, s, n :
           Delivers(g, j, d, s, n)' <=> Delivers(g, j, d, s, n) /\ j # i
      /\ Delivers(g, i, "ncq", pkb[p].sid, Len(pkb[p].data))
  BY <1>3, <1>4, <1>7, EmptiedDelivers
<1>9. pkb[p] \in Package /\ pkb[p].sid \in WSID /\ Len(pkb[p].data) \in Nat
  <2>1. pkb[p] \in Package
    BY <1>3 DEF Ready, PortTypeOK
  <2>2. pkb[p].sid \in WSID /\ pkb[p].data \in Seq(Id \cup {NONE})
    BY <2>1 DEF Package, Data
  <2> QED
    BY <2>1, <2>2, SeqFacts
<1>10. Len(pkb[p].data) = 1
  <2>1. "ncq" \in Receiver
    BY DEF Receiver
  <2> QED
    BY <1>3, <1>8, <1>9, <2>1 DEF SlotOK
<1>11. pkb[p].data = <<i>>
  <2>1. PackAt(g, p)
    BY <1>3 DEF PortsOK, PortAt
  <2>2. AllOf(pkb[p].data, 1, i)
    BY <1>4, <1>10, <2>1 DEF PackAt
  <2>3. [k \in 1 .. 1 |-> i] = <<i>>
    OBVIOUS
  <2> QED
    BY <2>2, <2>3 DEF AllOf
<1>12. PortsOK(g)'
  BY <1>3, <1>7, EmptiedPort
<1>13. SlotOK(g)'
  <2>1. \A b, s : Slot(b, s)' = Slot(b, s)
    BY <1>3 DEF Slot, snb
  <2> SUFFICES ASSUME NEW j \in Id, NEW d \in Receiver, NEW s \in WSID, NEW n \in Nat,
                      Delivers(g, j, d, s, n)'
               PROVE  /\ d \in BANK => Waits(d, s, j, n)'
                      /\ d = "ncq" => n = 1
    BY DEF SlotOK
  <2>2. Delivers(g, j, d, s, n)
    BY <1>8
  <2>3. /\ d \in BANK => Waits(d, s, j, n)
        /\ d = "ncq" => n = 1
    BY <1>3, <2>2 DEF SlotOK
  <2> QED
    BY <2>1, <2>3 DEF Waits, TakesData
<1>14. ReceiveOK(g)'
  <2>1. \A b : Awaited(b)' = Awaited(b)
    BY <1>3 DEF Awaited, SelCreate, TakesData, snb
  <2>2. ASSUME NEW b \in BANK PROVE Awaits(g, g.owed[b], b)'
    <3>1. PICK o \in Seq(Id) : o = g.owed[b]
      BY LedgerTypes
    <3>2. b # pkb[p].dest /\ Awaits(g, o, b)
      BY <1>3, <3>1, Sizes DEF ReceiveOK
    <3>3. Awaits(g, o, b)'
      BY <1>3, <1>7, <3>2, AwaitsOther
    <3> QED
      BY <3>1, <3>3
  <2>3. Awaits(g, woq, "ncq")'
    <3>1. PICK qq : qq = Tail(q)
      OBVIOUS
    <3>2. Awaits(g, qq, "ncq")'
      BY <1>2, <1>5, <1>6, <1>8, <3>1, AwaitsRest
    <3>3. woq' = qq
      BY <1>1, <3>1
    <3> QED
      BY <3>2, <3>3 DEF Awaits
  <2>4. \A b \in BANK : /\ Len(g.owed[b]) = Len(Awaited(b)')
                        /\ \A k \in 1 .. Len(Awaited(b)') : g.owed[b][k][1] = Awaited(b)'[k]
    BY <1>3, <2>1 DEF ReceiveOK
  <2> QED
    BY <2>2, <2>3, <2>4 DEF ReceiveOK
<1>15. LastOK(g)'
  BY <1>3, LastKept DEF LedgerOK, snb
<1>16. LedgerOK(g)'
  BY <1>12, <1>13, <1>14, <1>15 DEF LedgerOK
<1>17. wdq' = Append(wdq, [id |-> Head(woq), data |-> <<Head(woq)>>])
  BY <1>2, <1>6, <1>11 DEF NcqWcdGrant
<1> QED
  BY <1>16, <1>17 DEF Accounted

\* The barrier merging buffer gets data that nobody awaits in any order.
LEMMA BmbWcdGrantLedger ==
  ASSUME Inv, NEW g \in Ledger, LedgerOK(g), NEW p \in CORE, BmbWcdGrant(p), Ready(p)
  PROVE  LedgerOK(g)'
<1>1. /\ PortTypeOK /\ PortsOK(g) /\ SlotOK(g) /\ ReceiveOK(g) /\ Emptied(p)
      /\ pkb[p].dest = "bmb" /\ UNCHANGED <<snb, woq>> /\ woq \in Seq(Id)
  BY DEF Inv, TypeOK, NcqTypeOK, LedgerOK, BmbWcdGrant, Packed, Unpack, Emptied, ncq
<1>2. SameWrites(g, g)
  BY DEF SameWrites
<1>3. \A j \in Id : \A d, s, n : Delivers(g, j, d, s, n)' => Delivers(g, j, d, s, n)
  <2>1. PICK i : i = Packet(p)
    OBVIOUS
  <2> QED
    BY <1>1, <1>2, <2>1, EmptiedDelivers
<1>4. PortsOK(g)'
  BY <1>1, <1>2, EmptiedPort
<1>5. SlotOK(g)'
  <2>1. \A b, s : Slot(b, s)' = Slot(b, s)
    BY <1>1 DEF Slot, snb
  <2> SUFFICES ASSUME NEW j \in Id, NEW d \in Receiver, NEW s \in WSID, NEW n \in Nat,
                      Delivers(g, j, d, s, n)'
               PROVE  /\ d \in BANK => Waits(d, s, j, n)'
                      /\ d = "ncq" => n = 1
    BY DEF SlotOK
  <2>2. Delivers(g, j, d, s, n)
    BY <1>3
  <2>3. /\ d \in BANK => Waits(d, s, j, n)
        /\ d = "ncq" => n = 1
    BY <1>1, <2>2 DEF SlotOK
  <2> QED
    BY <2>1, <2>3 DEF Waits, TakesData
<1>6. ReceiveOK(g)'
  <2>1. \A b : Awaited(b)' = Awaited(b)
    BY <1>1 DEF Awaited, SelCreate, TakesData, snb
  <2>2. ASSUME NEW b \in BANK PROVE Awaits(g, g.owed[b], b)'
    <3>1. PICK o \in Seq(Id) : o = g.owed[b]
      BY LedgerTypes
    <3>2. b # pkb[p].dest /\ Awaits(g, o, b)
      BY <1>1, <3>1, Sizes DEF ReceiveOK
    <3>3. Awaits(g, o, b)'
      BY <1>1, <1>2, <3>2, AwaitsOther
    <3> QED
      BY <3>1, <3>3
  <2>3. Awaits(g, woq, "ncq")'
    <3>1. PICK q \in Seq(Id) : q = woq
      BY <1>1
    <3>2. Awaits(g, q, "ncq") /\ "ncq" # pkb[p].dest
      BY <1>1, <3>1 DEF ReceiveOK
    <3>3. Awaits(g, q, "ncq")'
      BY <1>1, <1>2, <3>2, AwaitsOther
    <3>4. woq' = q
      BY <1>1, <3>1
    <3> QED
      BY <3>3, <3>4 DEF Awaits
  <2>4. \A b \in BANK : /\ Len(g.owed[b]) = Len(Awaited(b)')
                        /\ \A k \in 1 .. Len(Awaited(b)') : g.owed[b][k][1] = Awaited(b)'[k]
    BY <1>1, <2>1 DEF ReceiveOK
  <2> QED
    BY <2>2, <2>3, <2>4 DEF ReceiveOK
<1>7. LastOK(g)'
  BY <1>1, LastKept DEF LedgerOK, snb
<1> QED
  BY <1>4, <1>5, <1>6, <1>7 DEF LedgerOK

\* What a bank awaits is wd_sel_fifo, and last the request in its create
\* register.
LEMMA AwaitedType ==
  ASSUME BankTypeOK, CreateOK, NEW b \in BANK
  PROVE  Awaited(b) \in Seq(CORE)
<1>1. wd_sel_fifo[b] \in Seq(CORE) /\ wd_sel_fifo \in [BANK -> Seq(CORE)]
  BY DEF BankTypeOK
<1>2. CASE crt[b] # NONE /\ TakesData(crt[b].entry)
  <2>1. PICK e \in CORE : e = crt[b].entry.mid
    BY <1>2 DEF CreateOK
  <2>2. Awaited(b) = Append(wd_sel_fifo[b], e)
    BY <1>1, <1>2, <2>1 DEF Awaited, SelCreate
  <2> QED
    BY <1>1, <2>2, SeqFacts
<1>3. CASE ~(crt[b] # NONE /\ TakesData(crt[b].entry))
  BY <1>1, <1>3 DEF Awaited, SelCreate
<1> QED
  BY <1>2, <1>3

\* It loses its first word when the bank has taken data.
LEMMA AwaitedTail ==
  ASSUME BankTypeOK, CreateOK, NEW b \in BANK, wd_sel_fifo[b] # <<>>, crt' = crt,
         wd_sel_fifo' = [wd_sel_fifo EXCEPT ![b] = Tail(@)]
  PROVE  \E l \in Nat :
           /\ Len(Awaited(b)) = l + 1 /\ Len(Awaited(b)') = l
           /\ \A k \in 1 .. l : Awaited(b)'[k] = Awaited(b)[k + 1]
           /\ Awaited(b)[1] = Head(wd_sel_fifo[b])
           /\ crt[b] # NONE /\ TakesData(crt[b].entry) => l > 0
<1>1. PICK q \in Seq(CORE) : q = wd_sel_fifo[b] /\ q # <<>>
  BY DEF BankTypeOK
<1>2. PICK m \in Nat : m + 1 = Len(q)
  <2>1. Len(q) \in Nat /\ Len(q) > 0
    BY <1>1, SeqFacts
  <2> QED
    BY <2>1
<1>3. PICK t \in Seq(CORE) : t = Tail(q)
  BY <1>1, SeqFacts
<1>4. Len(t) = m /\ (\A k \in 1 .. m : t[k] = q[k + 1]) /\ q[1] = Head(wd_sel_fifo[b])
  <2>1. Len(Tail(q)) = Len(q) - 1 /\ (\A k \in 1 .. Len(q) - 1 : Tail(q)[k] = q[k + 1]) /\ Head(q) = q[1]
    BY <1>1, WordFacts
  <2> QED
    BY <1>1, <1>2, <1>3, <2>1
<1>5. wd_sel_fifo'[b] = t /\ wd_sel_fifo[b] = q
  BY <1>1, <1>3 DEF BankTypeOK
<1>6. CASE crt[b] # NONE /\ TakesData(crt[b].entry)
  <2>1. PICK e \in CORE : e = crt[b].entry.mid
    BY <1>6 DEF CreateOK
  <2>2. Awaited(b) = Append(q, e) /\ Awaited(b)' = Append(t, e)
    BY <1>5, <1>6, <2>1 DEF Awaited, SelCreate, TakesData, BankTypeOK
  <2>3. /\ Len(Awaited(b)) = m + 2 /\ Awaited(b)[m + 2] = e
        /\ \A k \in 1 .. m + 1 : Awaited(b)[k] = q[k]
    BY <1>2, <2>2, WordFacts
  <2>4. /\ Len(Awaited(b)') = m + 1 /\ Awaited(b)'[m + 1] = e
        /\ \A k \in 1 .. m : Awaited(b)'[k] = t[k]
    BY <1>4, <2>2, WordFacts
  <2>5. ASSUME NEW k \in 1 .. m + 1 PROVE Awaited(b)'[k] = Awaited(b)[k + 1]
    <3>1. CASE k = m + 1
      BY <2>3, <2>4, <3>1
    <3>2. CASE k \in 1 .. m
      <4>1. k + 1 \in 1 .. m + 1
        BY <3>2
      <4> QED
        BY <1>4, <2>3, <2>4, <3>2, <4>1
    <3>3. k = m + 1 \/ k \in 1 .. m
      OBVIOUS
    <3> QED
      BY <3>1, <3>2, <3>3, Zenon
  <2>6. PICK l \in Nat : l = m + 1
    OBVIOUS
  <2>7. Awaited(b)[1] = Head(wd_sel_fifo[b])
    BY <1>4, <2>3
  <2> QED
    BY <2>3, <2>4, <2>5, <2>6, <2>7
<1>7. CASE ~(crt[b] # NONE /\ TakesData(crt[b].entry))
  <2>1. Awaited(b) = q /\ Awaited(b)' = t
    BY <1>5, <1>7 DEF Awaited, SelCreate, TakesData, BankTypeOK
  <2> QED
    BY <1>2, <1>4, <1>7, <2>1
<1> QED
  BY <1>6, <1>7

\* The account after a bank has taken the data that it awaited first.
LEMMA TakenLedger ==
  ASSUME NEW g \in Ledger, NEW b \in BANK, g.owed[b] # <<>>
  PROVE  \E h \in Ledger :
           /\ SameWrites(g, h) /\ h.owed[b] = Tail(g.owed[b])
           /\ \A c \in BANK : c # b => h.owed[c] = g.owed[c]
<1> DEFINE o == [g.owed EXCEPT ![b] = Tail(@)]
           h == [g EXCEPT !.owed = o]
<1>1. g.owed \in [BANK -> Seq(Id)]
  BY LedgerFields
<1>2. Tail(g.owed[b]) \in Seq(Id)
  BY <1>1, SeqFacts
<1>3. o \in [BANK -> Seq(Id)] /\ o[b] = Tail(g.owed[b]) /\ \A c \in BANK : c # b => o[c] = g.owed[c]
  BY <1>1, <1>2
<1> HIDE DEF o
<1>4. h \in Ledger /\ SameWrites(g, h) /\ h.owed = o
  BY <1>3 DEF Ledger, SameWrites
<1> QED
  BY <1>3, <1>4

\* A bank puts data into the entry of its write, of which it awaits it first.
LEMMA SnbWdGrantLedger ==
  ASSUME Inv, NEW g \in Ledger, LedgerOK(g), NEW p \in CORE, NEW b \in BANK, SnbWdGrant(p, b)
  PROVE  /\ Accounted'
         /\ \A c \in BANK, t \in WSID :
              \/ sab'[c][t] = sab[c][t]
              \/ /\ TakesData(sab'[c][t])
                 /\ sab'[c][t].data = [k \in 1 .. sab'[c][t].len |-> sab'[c][t].id]
<1>1. /\ PortTypeOK /\ BankTypeOK /\ CreateOK /\ PortsOK(g) /\ SlotOK(g) /\ ReceiveOK(g)
      /\ LastOK(g) /\ Ready(p) /\ Emptied(p) /\ pkb[p].dest = b
      /\ UNCHANGED <<crt, woq>> /\ woq \in Seq(Id)
      /\ wd_sel_fifo[b] # <<>> /\ Head(wd_sel_fifo[b]) = p
      /\ wd_sel_fifo' = [wd_sel_fifo EXCEPT ![b] = Tail(@)]
  BY DEF Inv, TypeOK, NcqTypeOK, LedgerOK, SnbWdGrant, Packed, Unpack, Emptied, ncq, Ready
<1>2. PICK sid \in WSID, len \in Nat :
        sid = pkb[p].sid /\ len = Len(pkb[p].data) /\ pkb[p].data \in Data
  <2>1. pkb[p] \in Package
    BY <1>1 DEF Ready, PortTypeOK
  <2>2. pkb[p].sid \in WSID /\ pkb[p].data \in Seq(Id \cup {NONE}) /\ pkb[p].data \in Data
    BY <2>1 DEF Package, Data
  <2> QED
    BY <2>2, SeqFacts
<1>3. PICK i : i = Packet(p)
  OBVIOUS
<1>4. PICK l \in Nat :
        /\ Len(Awaited(b)) = l + 1 /\ Len(Awaited(b)') = l
        /\ \A k \in 1 .. l : Awaited(b)'[k] = Awaited(b)[k + 1]
        /\ Awaited(b)[1] = p
        /\ crt[b] # NONE /\ TakesData(crt[b].entry) => l > 0
  BY <1>1, AwaitedTail
<1>5. PICK q \in Seq(Id) : q = g.owed[b]
  BY LedgerTypes
<1>6. /\ Len(q) = l + 1 /\ \A k \in 1 .. l + 1 : q[k][1] = Awaited(b)[k]
      /\ Awaits(g, q, b)
  BY <1>1, <1>4, <1>5 DEF ReceiveOK
<1>7. q # <<>> /\ q[1][1] = p
  BY <1>4, <1>6
<1>8. q[1] = i
  BY <1>1, <1>3, <1>6, <1>7, FirstAwaited
<1>9. PICK h \in Ledger :
        /\ SameWrites(g, h) /\ h.owed[b] = Tail(g.owed[b])
        /\ \A c \in BANK : c # b => h.owed[c] = g.owed[c]
  BY <1>5, <1>7, TakenLedger
<1>10. PICK qq : qq = Tail(q)
  OBVIOUS
<1>11. h.owed[b] = qq /\ Len(qq) = l /\ \A k \in 1 .. l : qq[k] = q[k + 1]
  <2>1. Len(Tail(q)) = Len(q) - 1 /\ \A k \in 1 .. Len(q) - 1 : Tail(q)[k] = q[k + 1]
    BY <1>7, WordFacts
  <2> QED
    BY <1>5, <1>6, <1>9, <1>10, <2>1
<1>12. /\ i \in Id /\ i[1] = p
       /\ \A j \in Id : \A d, s, n :
            Delivers(h, j, d, s, n)' <=> Delivers(g, j, d, s, n) /\ j # i
       /\ Delivers(g, i, b, sid, len)
  BY <1>1, <1>2, <1>3, <1>9, EmptiedDelivers
<1>13. Waits(b, sid, i, len)
  <2>1. b \in Receiver
    BY DEF Receiver
  <2> QED
    BY <1>1, <1>12, <2>1 DEF SlotOK
<1>14. ASSUME crt[b] # NONE, crt[b].sid = sid PROVE FALSE
  <2>1. TakesData(crt[b].entry) /\ crt[b].entry.id = i
    BY <1>13, <1>14 DEF Waits, Slot
  <2>2. q[l + 1] = i /\ l > 0
    BY <1>1, <1>4, <1>5, <1>6, <1>14, <2>1 DEF LastOK
  <2>3. 1 \in 1 .. Len(q) /\ l + 1 \in 1 .. Len(q) /\ 1 < l + 1
    BY <1>6, <2>2
  <2>4. g.granted[q[1]] < g.granted[q[l + 1]] /\ g.granted[i] \in Nat
    BY <1>6, <1>12, <2>3, LedgerTypes DEF Awaits
  <2> QED
    BY <1>8, <2>2, <2>4
<1>15. PICK e \in Entry : e = sab[b][sid]
  BY <1>1 DEF BankTypeOK
<1>16. TakesData(e) /\ e.mid = p /\ e.id = i /\ e.len = len /\ e.data = <<>>
  BY <1>12, <1>13, <1>14, <1>15 DEF Waits, Slot
<1>17. PICK f \in Entry :
         /\ f.kind = e.kind /\ f.id = i /\ f.len = len /\ f.data = pkb[p].data
         /\ \A c \in BANK, t \in WSID :
              sab'[c][t] = IF c = b /\ t = sid THEN f ELSE sab[c][t]
  <2> DEFINE f == [e EXCEPT !.data = pkb[p].data]
  <2>1. f \in Entry /\ f.kind = e.kind /\ f.id = e.id /\ f.len = e.len /\ f.data = pkb[p].data
    BY <1>2 DEF Entry
  <2> HIDE DEF f
  <2>2. sab' = [sab EXCEPT ![b][sid] = f]
    BY <1>1, <1>2, <1>15 DEF SnbWdGrant, BankTypeOK, f
  <2>3. \A c \in BANK, t \in WSID : sab'[c][t] = IF c = b /\ t = sid THEN f ELSE sab[c][t]
    BY <1>1, <2>1, <2>2, SetEntry DEF BankTypeOK
  <2> QED
    BY <1>16, <2>1, <2>3
<1>18. f.data = [k \in 1 .. f.len |-> f.id] /\ TakesData(f)
  <2>1. AllOf(pkb[p].data, Len(pkb[p].data), i)
    BY <1>1, <1>3 DEF PortsOK, PortAt, PackAt
  <2> QED
    BY <1>2, <1>16, <1>17, <2>1 DEF AllOf, TakesData
<1>19. PortsOK(h)'
  BY <1>1, <1>9, EmptiedPort
<1>20. SlotOK(h)'
  <2> SUFFICES ASSUME NEW j \in Id, NEW d \in Receiver, NEW s \in WSID, NEW n \in Nat,
                      Delivers(h, j, d, s, n)'
               PROVE  /\ d \in BANK => Waits(d, s, j, n)'
                      /\ d = "ncq" => n = 1
    BY DEF SlotOK
  <2>1. Delivers(g, j, d, s, n) /\ j # i
    BY <1>12
  <2>2. /\ d \in BANK => Waits(d, s, j, n)
        /\ d = "ncq" => n = 1
    BY <1>1, <2>1 DEF SlotOK
  <2>3. ASSUME d \in BANK PROVE Waits(d, s, j, n)'
    <3>1. ~(d = b /\ s = sid)
      BY <1>13, <2>1, <2>2, <2>3 DEF Waits
    <3>2. Slot(d, s)' = Slot(d, s)
      BY <1>1, <1>17, <2>3, <3>1 DEF Slot
    <3> QED
      BY <2>2, <2>3, <3>2 DEF Waits, TakesData
  <2> QED
    BY <2>2, <2>3
<1>21. ReceiveOK(h)'
  <2>1. ASSUME NEW c \in BANK, c # b
        PROVE  /\ Len(h.owed[c]) = Len(Awaited(c)')
               /\ \A k \in 1 .. Len(Awaited(c)') : h.owed[c][k][1] = Awaited(c)'[k]
               /\ Awaits(h, h.owed[c], c)'
    <3>1. Awaited(c)' = Awaited(c) /\ h.owed[c] = g.owed[c]
      BY <1>1, <1>9, <2>1 DEF Awaited, SelCreate, TakesData, BankTypeOK
    <3>2. PICK o \in Seq(Id) : o = g.owed[c]
      BY LedgerTypes
    <3>3. c # pkb[p].dest /\ Awaits(g, o, c)
      BY <1>1, <2>1, <3>2 DEF ReceiveOK
    <3>4. Awaits(h, o, c)'
      BY <1>1, <1>9, <3>3, AwaitsOther
    <3>5. /\ Len(g.owed[c]) = Len(Awaited(c))
          /\ \A k \in 1 .. Len(Awaited(c)) : g.owed[c][k][1] = Awaited(c)[k]
      BY <1>1 DEF ReceiveOK
    <3> QED
      BY <3>1, <3>2, <3>4, <3>5
  <2>2. Awaits(h, qq, b)'
    <3>1. h.granted = g.granted
      BY <1>9 DEF SameWrites
    <3> QED
      BY <1>6, <1>7, <1>8, <1>10, <1>12, <3>1, AwaitsRest
  <2>3. /\ Len(h.owed[b]) = Len(Awaited(b)')
        /\ \A k \in 1 .. Len(Awaited(b)') : h.owed[b][k][1] = Awaited(b)'[k]
        /\ Awaits(h, h.owed[b], b)'
    <3>1. \A k \in 1 .. l : k + 1 \in 1 .. l + 1
      OBVIOUS
    <3> QED
      BY <1>4, <1>6, <1>11, <2>2, <3>1
  <2>4. Awaits(h, woq, "ncq")'
    <3>1. PICK o \in Seq(Id) : o = woq
      BY <1>1
    <3>2. Awaits(g, o, "ncq") /\ "ncq" # pkb[p].dest
      BY <1>1, <3>1, Sizes DEF ReceiveOK
    <3>3. Awaits(h, o, "ncq")'
      BY <1>1, <1>9, <3>2, AwaitsOther
    <3>4. woq' = o
      BY <1>1, <3>1
    <3> QED
      BY <3>3, <3>4 DEF Awaits
  <2> QED
    BY <2>1, <2>3, <2>4 DEF ReceiveOK
<1>22. LastOK(h)'
  <2> SUFFICES ASSUME NEW c \in BANK, crt'[c] # NONE, TakesData(crt'[c].entry)
               PROVE  h.owed[c][Len(h.owed[c])] = crt'[c].entry.id
    BY DEF LastOK, TakesData
  <2>1. g.owed[c][Len(g.owed[c])] = crt[c].entry.id
    BY <1>1 DEF LastOK
  <2>2. CASE c # b
    BY <1>1, <1>9, <2>1, <2>2
  <2>3. CASE c = b
    <3>1. l > 0 /\ l \in 1 .. l
      BY <1>1, <1>4, <2>3
    <3>2. qq[l] = q[l + 1] /\ q[l + 1] = crt[c].entry.id
      BY <1>5, <1>6, <1>11, <2>1, <2>3, <3>1
    <3> QED
      BY <1>1, <1>11, <2>3, <3>2
  <2> QED
    BY <2>2, <2>3
<1>23. LedgerOK(h)'
  BY <1>19, <1>20, <1>21, <1>22 DEF LedgerOK
<1>24. \A c \in BANK, t \in WSID :
         \/ sab'[c][t] = sab[c][t]
         \/ /\ TakesData(sab'[c][t])
            /\ sab'[c][t].data = [k \in 1 .. sab'[c][t].len |-> sab'[c][t].id]
  BY <1>17, <1>18
<1> QED
  BY <1>23, <1>24 DEF Accounted

-----------------------------------------------------------------------------
(***************************************************************************)
(* The account is there in the beginning, and every step keeps one.        *)
(***************************************************************************)

\* Nothing is under way in the beginning.
LEMMA DataInit == Init => DataInv
<1> SUFFICES ASSUME Init PROVE DataInv
  OBVIOUS
<1>1. Inv
  BY InvInit
<1>2. DataMeetsRequest /\ CdOK
  <2>1. \A b \in BANK, s \in WSID : sab[b][s].data = <<>>
    BY DEF Init, IdleEntry
  <2> QED
    BY <2>1 DEF Init, DataMeetsRequest, CdOK
<1>3. PICK g \in Ledger :
        /\ g.due = {} /\ g.owner = [p \in CORE |-> <<>>] /\ g.owed = [b \in BANK |-> <<>>]
        /\ g.packed = [p \in CORE |-> [c \in CLASS |-> 0]]
        /\ g.total = [p \in CORE |-> [c \in CLASS |-> 0]] /\ g.now = 0
  <2> DEFINE zero == [i \in Id |-> 0]
             none == [p \in CORE |-> [c \in CLASS |-> 0]]
             g == [due |-> {}, class |-> [i \in Id |-> "ws"], from |-> zero, to |-> zero,
                   handed |-> zero, granted |-> zero, owner |-> [p \in CORE |-> <<>>],
                   owed |-> [b \in BANK |-> <<>>], packed |-> none, total |-> none, now |-> 0]
  <2>1. zero \in [Id -> Nat] /\ none \in [CORE -> [CLASS -> Nat]]
    OBVIOUS
  <2>2. [i \in Id |-> "ws"] \in [Id -> CLASS]
    BY DEF CLASS
  <2>3. [p \in CORE |-> <<>>] \in [CORE -> Seq(Id)] /\ [b \in BANK |-> <<>>] \in [BANK -> Seq(Id)]
    OBVIOUS
  <2> HIDE DEF zero, none
  <2>4. g \in Ledger
    BY <2>1, <2>2, <2>3 DEF Ledger
  <2> QED
    BY <2>4 DEF none
<1>4. \A p, c : Stream(g, p, c) = {}
  BY <1>3 DEF Stream
<1>5. ASSUME NEW p \in CORE
      PROVE  /\ bus_arb_w_fifo[p] = <<>> /\ wd_sid_fifo[p] = <<>> /\ pkb[p] = NONE
             /\ \A c : Beats(p, c) = <<>> /\ Register(p, c) = NONE
             /\ g.owner[p] = <<>> /\ \A c \in CLASS : Sent(g, p, c) = 0
             /\ ~HalfWay(p) /\ ~Ready(p)
  <2>1. /\ bus_arb_w_fifo[p] = <<>> /\ wd_sid_fifo[p] = <<>> /\ pkb[p] = NONE
        /\ \A c : Beats(p, c) = <<>> /\ Register(p, c) = NONE
    BY DEF Init, Beats, Register
  <2> QED
    BY <1>3, <2>1 DEF Sent, HalfWay, Filling, Ready
<1>6. ASSUME NEW p \in CORE PROVE PortAt(g, p)
  <2>1. StreamAt(g, p)
    BY <1>3, <1>4, <1>5 DEF StreamAt
  <2>2. BeatsAt(g, p) /\ BusAt(g, p) /\ RegisterAt(g, p)
    BY <1>4, <1>5 DEF BeatsAt, BusAt, RegisterAt, HasData
  <2>3. GrantAt(g, p) /\ PackAt(g, p) /\ OvertakenAt(g, p)
    BY <1>4, <1>5 DEF GrantAt, HasData, PackAt, OvertakenAt
  <2> QED
    BY <2>1, <2>2, <2>3 DEF PortAt
<1>7. \A i \in Id : \A d, s, n : ~Delivers(g, i, d, s, n)
  <2> TAKE i \in Id
  <2>1. i[1] \in CORE
    BY DEF Id
  <2> QED
    BY <1>5, <2>1 DEF Delivers
<1>8. PortsOK(g) /\ SlotOK(g)
  BY <1>3, <1>6, <1>7 DEF PortsOK, StampOK, SlotOK
<1>9. ReceiveOK(g)
  <2>1. \A b \in BANK : g.owed[b] = <<>> /\ Awaited(b) = <<>>
    BY <1>3 DEF Init, Awaited
  <2>2. \A d : Awaits(g, <<>>, d)
    BY <1>7 DEF Awaits
  <2> QED
    BY <2>1, <2>2 DEF ReceiveOK, Init
<1>10. LastOK(g)
  BY DEF LastOK, Init
<1> QED
  BY <1>1, <1>2, <1>8, <1>9, <1>10 DEF DataInv, Accounted, LedgerOK

\* What an entry or a write of the NCQ has is its own, if what it gets is.
LEMMA MeetsKept ==
  ASSUME DataMeetsRequest, wdq \in Seq([id : Id, data : Data]),
         \A b \in BANK, s \in WSID :
           \/ sab'[b][s] = sab[b][s] \/ sab'[b][s].data = <<>>
           \/ /\ TakesData(sab'[b][s])
              /\ sab'[b][s].data = [k \in 1 .. sab'[b][s].len |-> sab'[b][s].id],
         \/ wdq' = wdq
         \/ (wdq # <<>> /\ wdq' = Tail(wdq))
         \/ \E i \in Id : wdq' = Append(wdq, [id |-> i, data |-> <<i>>])
  PROVE  DataMeetsRequest'
<1> DEFINE own(q) == \A k \in DOMAIN q : q[k].data = <<q[k].id>>
<1>1. own(wdq)
  BY DEF DataMeetsRequest
<1>2. own(wdq')
  <2>1. DOMAIN wdq = 1 .. Len(wdq) /\ Len(wdq) \in Nat
    OBVIOUS
  <2>2. CASE wdq' = wdq
    BY <1>1, <2>2
  <2>3. CASE wdq # <<>> /\ wdq' = Tail(wdq)
    <3>1. PICK t \in Seq([id : Id, data : Data]) : t = Tail(wdq)
      BY <2>3, SeqFacts
    <3>2. Len(t) = Len(wdq) - 1 /\ \A k \in 1 .. Len(wdq) - 1 : t[k] = wdq[k + 1]
      BY <2>3, <3>1, SeqFacts, WordFacts
    <3>3. DOMAIN t = 1 .. Len(wdq) - 1
      BY <3>2
    <3>4. \A k \in 1 .. Len(wdq) - 1 : k + 1 \in 1 .. Len(wdq)
      BY <2>1
    <3>5. own(t)
      BY <1>1, <2>1, <3>2, <3>3, <3>4
    <3> QED
      BY <2>3, <3>1, <3>5
  <2>4. ASSUME NEW i \in Id, wdq' = Append(wdq, [id |-> i, data |-> <<i>>])
        PROVE  own(wdq')
    <3>1. PICK x : x = [id |-> i, data |-> <<i>>]
      OBVIOUS
    <3>2. x \in [id : Id, data : Data] /\ x.data = <<x.id>>
      BY <3>1 DEF Data
    <3>3. /\ Append(wdq, x) \in Seq([id : Id, data : Data]) /\ Len(Append(wdq, x)) = Len(wdq) + 1
          /\ Append(wdq, x)[Len(wdq) + 1] = x
          /\ \A k \in 1 .. Len(wdq) : Append(wdq, x)[k] = wdq[k]
      BY <3>2, SeqFacts, WordFacts
    <3>4. wdq' = Append(wdq, x) /\ DOMAIN wdq' = 1 .. Len(wdq) + 1
      BY <2>4, <3>1, <3>3
    <3>5. \A k \in 1 .. Len(wdq) + 1 : k = Len(wdq) + 1 \/ k \in 1 .. Len(wdq)
      BY <2>1
    <3> QED
      BY <1>1, <2>1, <3>2, <3>3, <3>4, <3>5
  <2> QED
    BY <2>2, <2>3, <2>4
<1> HIDE DEF own
<1>3. \A b \in BANK, s \in WSID :
        sab'[b][s].data # <<>> => /\ TakesData(sab'[b][s])
                                  /\ sab'[b][s].data = [k \in 1 .. sab'[b][s].len |-> sab'[b][s].id]
  BY DEF DataMeetsRequest
<1> QED
  BY <1>2, <1>3 DEF DataMeetsRequest, TakesData, own

\* Steps that change no entry and no write of the NCQ.
LEMMA MeetsSame ==
  ASSUME DataMeetsRequest, sab' = sab, wdq' = wdq
  PROVE  DataMeetsRequest'
BY DEF DataMeetsRequest, TakesData

\* A bank creates entries without data, and frees entries.
LEMMA BankMeets ==
  ASSUME Inv, DataMeetsRequest, NEW b \in BANK, wdq' = wdq,
         \/ \E s \in WSID : Complete(b, s)
         \/ \E next : CreateEntry(b, next)
  PROVE  DataMeetsRequest'
<1>1. BankTypeOK /\ CreateOK /\ wdq \in Seq([id : Id, data : Data])
  BY DEF Inv, TypeOK, NcqTypeOK
<1>2. sab \in [BANK -> [WSID -> Entry]]
  BY <1>1 DEF BankTypeOK
<1>3. \A c \in BANK, t \in WSID : sab'[c][t] = sab[c][t] \/ sab'[c][t].data = <<>>
  <2>1. ASSUME NEW s \in WSID, Complete(b, s)
        PROVE  \A c \in BANK, t \in WSID : sab'[c][t] = sab[c][t] \/ sab'[c][t].data = <<>>
    <3>1. \A c \in BANK, t \in WSID :
            sab'[c][t] = IF c = b /\ t = s THEN IdleEntry ELSE sab[c][t]
      BY <1>2, <2>1, IdleType, SetEntry DEF Complete
    <3>2. IdleEntry.data = <<>>
      BY DEF IdleEntry
    <3> QED
      BY <3>1, <3>2
  <2>2. ASSUME NEW next, CreateEntry(b, next)
        PROVE  \A c \in BANK, t \in WSID : sab'[c][t] = sab[c][t] \/ sab'[c][t].data = <<>>
    <3>1. CASE crt[b] = NONE
      BY <2>2, <3>1 DEF CreateEntry
    <3>2. CASE crt[b] # NONE
      <4>1. PICK s \in WSID, e \in Entry : s = crt[b].sid /\ e = crt[b].entry /\ e.data = <<>>
        BY <1>1, <3>2 DEF BankTypeOK, CreateOK
      <4>2. sab' = [sab EXCEPT ![b][s] = e]
        BY <2>2, <3>2, <4>1 DEF CreateEntry
      <4>3. \A c \in BANK, t \in WSID : sab'[c][t] = IF c = b /\ t = s THEN e ELSE sab[c][t]
        BY <1>2, <4>2, SetEntry
      <4> QED
        BY <4>1, <4>3
    <3> QED
      BY <3>1, <3>2
  <2> QED
    BY <2>1, <2>2
<1>4. \A c \in BANK, t \in WSID :
        \/ sab'[c][t] = sab[c][t] \/ sab'[c][t].data = <<>>
        \/ /\ TakesData(sab'[c][t])
           /\ sab'[c][t].data = [k \in 1 .. sab'[c][t].len |-> sab'[c][t].id]
  BY <1>3
<1>5. \/ wdq' = wdq
      \/ (wdq # <<>> /\ wdq' = Tail(wdq))
      \/ \E i \in Id : wdq' = Append(wdq, [id |-> i, data |-> <<i>>])
  OBVIOUS
<1> QED
  BY <1>1, <1>4, <1>5, MeetsKept

\* Snoop data goes to banks only: no step puts any other into a package buffer.
LEMMA CdStepOK ==
  ASSUME Inv, CdOK, [Next]_vars
  PROVE  CdOK'
<1>1. PortTypeOK /\ pkb \in [CORE -> Package \cup {NONE}]
  BY DEF Inv, TypeOK, PortTypeOK
<1>2. ASSUME NEW p \in CORE, NEW k, pkb' = [pkb EXCEPT ![p] = k],
             k # NONE /\ k.cd => k.dest \in BANK
      PROVE  CdOK'
  BY <1>1, <1>2 DEF CdOK
<1>3. ASSUME NEW p \in CORE, PkbCd(p) PROVE CdOK'
  <2>1. PICK k : pkb' = [pkb EXCEPT ![p] = k] /\ k.dest = Head(cd_sid_fifo[p])
    <3>1. PICK data : data = IF pkb[p] = NONE THEN <<NONE>> ELSE Append(pkb[p].data, NONE)
      OBVIOUS
    <3>2. PICK k : k = [cd |-> TRUE, dest |-> Head(cd_sid_fifo[p]), sid |-> 0,
                        data |-> data, rdy |-> Len(data) = LINE_BEATS]
      OBVIOUS
    <3>3. pkb' = [pkb EXCEPT ![p] = k]
      BY <1>3, <3>1, <3>2 DEF PkbCd
    <3>4. k.cd /\ k.dest = Head(cd_sid_fifo[p])
      BY <3>2
    <3> QED
      BY <3>3, <3>4
  <2>2. Head(cd_sid_fifo[p]) \in BANK
    <3>1. cd_sid_fifo[p] \in Seq(BANK) /\ cd_sid_fifo[p] # <<>>
      BY <1>1, <1>3 DEF PortTypeOK, PkbCd, pkb_cd_grant, cd_pkb_req
    <3> QED
      BY <3>1, SeqFacts
  <2> QED
    BY <1>2, <2>1, <2>2
<1>4. ASSUME NEW p \in CORE, PkbWd(p) PROVE CdOK'
  <2>1. PICK beat, h, data :
          pkb' = [pkb EXCEPT ![p] =
                  IF @ = NONE THEN [cd |-> FALSE, dest |-> h.dest, sid |-> h.sid,
                                    data |-> data, rdy |-> beat.last]
                  ELSE [@ EXCEPT !.data = data, !.rdy = beat.last]]
    BY <1>4 DEF PkbWd
  <2>2. CASE pkb[p] = NONE
    <3>1. PICK k : k = [cd |-> FALSE, dest |-> h.dest, sid |-> h.sid,
                        data |-> data, rdy |-> beat.last]
      OBVIOUS
    <3> QED
      BY <1>1, <1>2, <2>1, <2>2, <3>1
  <2>3. CASE pkb[p] # NONE
    <3>1. PICK k : k = [pkb[p] EXCEPT !.data = data, !.rdy = beat.last]
      OBVIOUS
    <3>2. pkb[p] \in Package /\ ~pkb[p].cd
      BY <1>1, <1>4, <2>3 DEF PkbWd, pkb_wd_grant
    <3>3. ~k.cd
      BY <3>1, <3>2 DEF Package
    <3>4. pkb' = [pkb EXCEPT ![p] = k]
      BY <1>1, <2>1, <2>3, <3>1
    <3> QED
      BY <1>2, <3>3, <3>4
  <2> QED
    BY <2>2, <2>3
<1>5. ASSUME NEW p \in CORE, WdStep(p) PROVE CdOK'
  <2>1. pkb' = [pkb EXCEPT ![p] = NONE]
    BY <1>5 DEF WdStep, NcqWcdGrant, BmbWcdGrant, SnbCdGrant, SnbWdGrant, Unpack
  <2> QED
    BY <1>1, <2>1 DEF CdOK
<1>6. CASE pkb' = pkb
  BY <1>6 DEF CdOK
<1>7. \/ pkb' = pkb
      \/ \E p \in CORE : PkbCd(p) \/ PkbWd(p) \/ WdStep(p)
  <2>1. ASSUME NEW p \in CORE, CoreStep(p) \/ AwStep(p)
        PROVE  pkb' = pkb
    BY <2>1 DEF CoreStep, AwStep, AwHand, WBeat, CdBeat, CdResponse, NcqAwGrant, BmbAwGrant,
                SnbAwGrant, AwGranted
  <2>2. ASSUME NEW b \in BANK, BankStep(b)
        PROVE  pkb' = pkb
    BY <2>2 DEF BankStep, AwCreate, SnbBarGrant, Complete
  <2> QED
    BY <2>1, <2>2 DEF Next, PortStep, NcqPop, vars
<1> QED
  BY <1>3, <1>4, <1>5, <1>6, <1>7

\* The steps that move write data towards the port, or into its package
\* buffer, and those of the banks and the grants.
LEMMA AccountStep ==
  ASSUME DataInv, NEW p \in CORE, CoreStep(p) \/ PortStep(p) \/ AwStep(p)
  PROVE  Accounted'
<1>1. PICK g \in Ledger : LedgerOK(g)
  BY DEF DataInv, Accounted
<1>2. Inv
  BY DEF DataInv
<1>3. CASE AwHand(p)
  BY <1>1, <1>2, <1>3, AwHandLedger
<1>4. CASE WBeat(p)
  BY <1>1, <1>2, <1>4, WBeatLedger DEF Accounted
<1>5. CASE CdBeat(p) \/ \E b \in BANK : CdResponse(p, b)
  <2>1. PackSame /\ UNCHANGED <<bus_arb_w_fifo, aw, wd_sid_fifo, wd, snb, woq>>
    BY <1>5 DEF CdBeat, CdResponse, PackSame, PackSameAt, ncq
  <2> QED
    BY <1>1, <1>2, <2>1, QuietLedger DEF Accounted
<1>6. CASE PkbCd(p)
  <2>1. UNCHANGED <<bus_arb_w_fifo, aw, wd_sid_fifo, wd, snb, woq>>
    BY <1>6 DEF PkbCd, ncq
  <2>2. PICK k : pkb' = [pkb EXCEPT ![p] = k] /\ k.cd
    <3>1. PICK data : data = IF pkb[p] = NONE THEN <<NONE>> ELSE Append(pkb[p].data, NONE)
      OBVIOUS
    <3>2. PICK k : k = [cd |-> TRUE, dest |-> Head(cd_sid_fifo[p]), sid |-> 0,
                        data |-> data, rdy |-> Len(data) = LINE_BEATS]
      OBVIOUS
    <3>3. pkb' = [pkb EXCEPT ![p] = k]
      BY <1>6, <3>1, <3>2 DEF PkbCd
    <3>4. k.cd /\ k.dest = Head(cd_sid_fifo[p])
      BY <3>2
    <3> QED
      BY <3>3, <3>4
  <2>3. ~HalfWay(p) /\ ~Ready(p)
    BY <1>6 DEF PkbCd, pkb_cd_grant, HalfWay, Ready, Filling
  <2>4. PackSame
    BY <1>2, <2>2, <2>3 DEF PackSame, PackSameAt, HalfWay, Ready, Filling, Inv, TypeOK, PortTypeOK
  <2> QED
    BY <1>1, <1>2, <2>1, <2>4, QuietLedger DEF Accounted
<1>7. CASE PkbWd(p)
  BY <1>1, <1>2, <1>7, PkbWdLedger
<1>8. CASE AwStep(p)
  BY <1>1, <1>2, <1>8, NcqAwGrantLedger, SnbAwGrantLedger DEF AwStep
<1> QED
  BY <1>3, <1>4, <1>5, <1>6, <1>7, <1>8 DEF CoreStep, PortStep

\* Every step keeps what entries and the NCQ have, and an account.
LEMMA DataStep == DataInv /\ [Next]_vars => DataInv'
<1> SUFFICES ASSUME DataInv, [Next]_vars
             PROVE  DataMeetsRequest' /\ Accounted'
  BY InvStep, CdStepOK DEF DataInv
<1>1. Inv /\ CdOK /\ DataMeetsRequest
  BY DEF DataInv
<1>2. PICK g \in Ledger : LedgerOK(g)
  BY DEF DataInv, Accounted
<1>3. wdq \in Seq([id : Id, data : Data])
  BY <1>1 DEF Inv, TypeOK, NcqTypeOK
<1>4. ASSUME NEW p \in CORE, CoreStep(p) \/ PortStep(p)
      PROVE  DataMeetsRequest' /\ Accounted'
  <2>1. sab' = sab /\ wdq' = wdq
    BY <1>4 DEF CoreStep, PortStep, AwHand, WBeat, CdBeat, CdResponse, PkbCd, PkbWd, snb, ncq
  <2> QED
    BY <1>1, <1>4, <2>1, MeetsSame, AccountStep
<1>5. ASSUME NEW p \in CORE, AwStep(p)
      PROVE  DataMeetsRequest' /\ Accounted'
  <2>1. Accounted'
    BY <1>5, AccountStep
  <2>2. CASE NcqAwGrant(p) \/ BmbAwGrant(p)
    <3>1. sab' = sab /\ wdq' = wdq
      BY <2>2 DEF NcqAwGrant, BmbAwGrant, snb, ncq
    <3> QED
      BY <1>1, <2>1, <3>1, MeetsSame
  <2>3. ASSUME NEW b \in BANK, SnbAwGrant(p, b)
        PROVE  DataMeetsRequest'
    <3>1. wdq' = wdq /\ \E next : CreateEntry(b, next)
      BY <2>3 DEF SnbAwGrant, ncq
    <3> QED
      BY <1>1, <3>1, BankMeets
  <2> QED
    BY <1>5, <2>1, <2>2, <2>3 DEF AwStep
<1>6. ASSUME NEW p \in CORE, WdStep(p)
      PROVE  DataMeetsRequest' /\ Accounted'
  <2>1. ASSUME NEW b \in BANK, SnbCdGrant(p, b)
        PROVE  DataMeetsRequest' /\ Accounted'
    <3>1. /\ sab' = sab /\ wdq' = wdq
          /\ UNCHANGED <<bus_arb_w_fifo, aw, wd_sid_fifo, wd, snb, woq>>
      BY <2>1 DEF SnbCdGrant, snb, ncq
    <3>2. PackSame
      BY <1>1, <2>1 DEF SnbCdGrant, Packed, Unpack, PackSame, PackSameAt, HalfWay, Ready, Filling,
                        Inv, TypeOK, PortTypeOK
    <3>3. Accounted'
      BY <1>1, <1>2, <3>1, <3>2, QuietLedger DEF Accounted
    <3> QED
      BY <1>1, <3>1, <3>3, MeetsSame
  <2>2. ASSUME NEW b \in BANK, SnbWdGrant(p, b)
        PROVE  DataMeetsRequest' /\ Accounted'
    <3>1. /\ Accounted'
          /\ \A c \in BANK, t \in WSID :
               \/ sab'[c][t] = sab[c][t]
               \/ /\ TakesData(sab'[c][t])
                  /\ sab'[c][t].data = [k \in 1 .. sab'[c][t].len |-> sab'[c][t].id]
      BY <1>1, <1>2, <2>2, SnbWdGrantLedger
    <3>2. wdq' = wdq
      BY <2>2 DEF SnbWdGrant, ncq
    <3>3. DataMeetsRequest'
      BY <1>1, <1>3, <3>1, <3>2, MeetsKept
    <3> QED
      BY <3>1, <3>3
  <2>3. Packed(p, "ncq") \/ Packed(p, "bmb") => Ready(p)
    BY <1>1, Sizes DEF Packed, Ready, CdOK
  <2>4. CASE NcqWcdGrant(p)
    <3>1. Ready(p)
      BY <2>3, <2>4 DEF NcqWcdGrant
    <3>2. Accounted' /\ wdq' = Append(wdq, [id |-> Head(woq), data |-> <<Head(woq)>>])
      BY <1>1, <1>2, <2>4, <3>1, NcqWcdGrantLedger
    <3>3. Head(woq) \in Id
      BY <1>1, <2>4, SeqFacts DEF NcqWcdGrant, Inv, TypeOK, NcqTypeOK
    <3>4. sab' = sab
      BY <2>4 DEF NcqWcdGrant, snb
    <3>5. DataMeetsRequest'
      BY <1>1, <1>3, <3>2, <3>3, <3>4, MeetsKept
    <3> QED
      BY <3>2, <3>5
  <2>5. CASE BmbWcdGrant(p)
    <3>1. Ready(p)
      BY <2>3, <2>5 DEF BmbWcdGrant
    <3>2. Accounted'
      BY <1>1, <1>2, <2>5, <3>1, BmbWcdGrantLedger DEF Accounted
    <3>3. sab' = sab /\ wdq' = wdq
      BY <2>5 DEF BmbWcdGrant, snb, ncq
    <3> QED
      BY <1>1, <3>2, <3>3, MeetsSame
  <2> QED
    BY <1>6, <2>1, <2>2, <2>4, <2>5 DEF WdStep
<1>7. ASSUME NEW b \in BANK, BankStep(b)
      PROVE  DataMeetsRequest' /\ Accounted'
  <2>1. wdq' = wdq
    BY <1>7 DEF BankStep, AwCreate, SnbBarGrant, Complete, ncq
  <2>2. (\E s \in WSID : Complete(b, s)) \/ (\E next : CreateEntry(b, next))
    BY <1>7 DEF BankStep, AwCreate, SnbBarGrant
  <2>3. DataMeetsRequest'
    BY <1>1, <2>1, <2>2, BankMeets
  <2>4. Accounted'
    BY <1>1, <1>2, <1>7, BankStepLedger DEF Accounted
  <2> QED
    BY <2>3, <2>4
<1>8. CASE NcqPop
  <2>1. PackSame /\ UNCHANGED <<bus_arb_w_fifo, aw, wd_sid_fifo, wd, snb, woq>>
    BY <1>8 DEF NcqPop, PackSame, PackSameAt
  <2>2. Accounted'
    BY <1>1, <1>2, <2>1, QuietLedger DEF Accounted
  <2>3. sab' = sab /\ wdq # <<>> /\ wdq' = Tail(wdq)
    BY <1>8 DEF NcqPop, snb
  <2>4. DataMeetsRequest'
    BY <1>1, <1>3, <2>3, MeetsKept
  <2> QED
    BY <2>2, <2>4
<1>9. CASE UNCHANGED vars
  <2>1. PackSame /\ UNCHANGED <<bus_arb_w_fifo, aw, wd_sid_fifo, wd, snb, woq>> /\ sab' = sab /\ wdq' = wdq
    BY <1>9 DEF vars, PackSame, PackSameAt, snb, ncq
  <2>2. Accounted'
    BY <1>1, <1>2, <2>1, QuietLedger DEF Accounted
  <2> QED
    BY <1>1, <2>1, <2>2, MeetsSame
<1> QED
  BY <1>4, <1>5, <1>6, <1>7, <1>8, <1>9 DEF Next

\* The inductive invariant of the data: at all times there is an account of the
\* writes under way that agrees with the queues of the ports, with the entries
\* that wait for data and with what the receivers will select.
THEOREM DataInvariant == Spec => []DataInv
<1>1. Init => DataInv
  BY DataInit
<1>2. DataInv /\ [Next]_vars => DataInv'
  BY DataStep
<1> QED
  BY <1>1, <1>2, PTL DEF Spec

-----------------------------------------------------------------------------
(***************************************************************************)
(* The theorems about the data.                                            *)
(***************************************************************************)

\* The data an entry of a bank or a write of the NCQ gets is its own, all of
\* it and nothing else (ct_ciu_snb_arb 928-945, ct_ciu_ncq 977-1070,
\* ct_piu_other_io 878-1044), in whatever order the classes of a core's writes
\* overtake each other and whatever snoop data comes in between.
THEOREM DataIsOwn == Spec => []DataMeetsRequest
<1>1. DataInv => DataMeetsRequest
  BY DEF DataInv
<1> QED
  BY <1>1, DataInvariant, PTL

\* What the core has still to send are writes of its port, each once: granted
\* and in wd_sid_fifo, or in one of the two registers.
LEMMA OrderedOnce ==
  ASSUME Inv, NEW g \in Ledger, LedgerOK(g), NEW p \in CORE
  PROVE  /\ Len(bus_arb_w_fifo[p]) \in Nat /\ Len(g.owner[p]) \in Nat
         /\ Len(g.owner[p]) <= SID_DEPTH
         /\ \A k \in 1 .. Len(bus_arb_w_fifo[p]) :
              \/ \E m \in 1 .. Len(g.owner[p]) : g.owner[p][m] = bus_arb_w_fifo[p][k].id
              \/ Register(p, "ws").id = bus_arb_w_fifo[p][k].id
              \/ Register(p, "wns").id = bus_arb_w_fifo[p][k].id
         /\ \A j, k \in 1 .. Len(bus_arb_w_fifo[p]) :
              bus_arb_w_fifo[p][j].id = bus_arb_w_fifo[p][k].id => j = k
<1>1. PortTypeOK /\ DepthOK /\ GrantAt(g, p) /\ BusAt(g, p)
  BY DEF Inv, TypeOK, LedgerOK, PortsOK, PortAt
<1>2. Len(bus_arb_w_fifo[p]) \in Nat /\ Len(g.owner[p]) \in Nat /\ Len(g.owner[p]) <= SID_DEPTH
  BY <1>1, PortTypes, LedgerTypes DEF GrantAt, DepthOK
<1>3. ASSUME NEW k \in 1 .. Len(bus_arb_w_fifo[p])
      PROVE  \/ \E m \in 1 .. Len(g.owner[p]) : g.owner[p][m] = bus_arb_w_fifo[p][k].id
             \/ Register(p, "ws").id = bus_arb_w_fifo[p][k].id
             \/ Register(p, "wns").id = bus_arb_w_fifo[p][k].id
  <2>1. PICK c \in CLASS : bus_arb_w_fifo[p][k].id \in Stream(g, p, c)
    BY <1>1, ClassType DEF BusAt, OrderOK
  <2>2. \/ \E m \in 1 .. Len(g.owner[p]) : g.owner[p][m] = bus_arb_w_fifo[p][k].id
        \/ HasData(Register(p, c)) /\ Register(p, c).id = bus_arb_w_fifo[p][k].id
    BY <1>1, <2>1 DEF GrantAt
  <2> QED
    BY <2>2 DEF CLASS
<1>4. ASSUME NEW j \in 1 .. Len(bus_arb_w_fifo[p]), NEW k \in 1 .. Len(bus_arb_w_fifo[p]), j < k
      PROVE  bus_arb_w_fifo[p][j].id # bus_arb_w_fifo[p][k].id
  <2>1. g.handed[bus_arb_w_fifo[p][j].id] < g.handed[bus_arb_w_fifo[p][k].id]
    BY <1>1, <1>4 DEF BusAt
  <2>2. bus_arb_w_fifo[p][j] \in Order
    BY <1>1, PortTypes
  <2>3. g.handed[bus_arb_w_fifo[p][j].id] \in Nat
    BY <2>2, LedgerTypes DEF Order
  <2> QED
    BY <2>1, <2>3
<1>5. ASSUME NEW j \in 1 .. Len(bus_arb_w_fifo[p]), NEW k \in 1 .. Len(bus_arb_w_fifo[p]),
             bus_arb_w_fifo[p][j].id = bus_arb_w_fifo[p][k].id
      PROVE  j = k
  <2>1. ~(j < k) /\ ~(k < j)
    BY <1>4, <1>5
  <2> QED
    BY <2>1
<1> QED
  BY <1>2, <1>3, <1>5

\* So there are no more of them than wd_sid_fifo has words and two.
LEMMA RoomInOrder ==
  ASSUME DataInv
  PROVE  WOrderRoom
<1> SUFFICES ASSUME NEW p \in CORE
             PROVE  Len(bus_arb_w_fifo[p]) <= SID_DEPTH + 2
  BY DEF WOrderRoom
<1>1. PICK g \in Ledger : LedgerOK(g)
  BY DEF DataInv, Accounted
<1>2. PICK n \in Nat, l \in Nat : n = Len(bus_arb_w_fifo[p]) /\ l = Len(g.owner[p])
  BY <1>1, OrderedOnce DEF DataInv
<1>3. PICK id : id = [k \in 1 .. n |-> bus_arb_w_fifo[p][k].id]
  OBVIOUS
<1>4. PICK o, a, b : o = g.owner[p] /\ a = Register(p, "ws").id /\ b = Register(p, "wns").id
  OBVIOUS
<1>5. /\ l <= SID_DEPTH
      /\ \A k \in 1 .. n : (\E m \in 1 .. l : o[m] = id[k]) \/ a = id[k] \/ b = id[k]
      /\ \A j, k \in 1 .. n : id[j] = id[k] => j = k
  BY <1>1, <1>2, <1>3, <1>4, OrderedOnce DEF DataInv
<1>6. PICK at \in [1 .. n -> 1 .. l + 2] :
        \A k \in 1 .. n : \/ at[k] \in 1 .. l /\ o[at[k]] = id[k]
                          \/ at[k] = l + 1 /\ a = id[k]
                          \/ at[k] = l + 2 /\ b = id[k]
  <2> DEFINE Place(k) == CHOOSE m \in 1 .. l + 2 : \/ m \in 1 .. l /\ o[m] = id[k]
                                                   \/ m = l + 1 /\ a = id[k]
                                                   \/ m = l + 2 /\ b = id[k]
  <2>1. ASSUME NEW k \in 1 .. n
        PROVE  \E m \in 1 .. l + 2 : \/ m \in 1 .. l /\ o[m] = id[k]
                                     \/ m = l + 1 /\ a = id[k]
                                     \/ m = l + 2 /\ b = id[k]
    <3>1. l + 1 \in 1 .. l + 2 /\ l + 2 \in 1 .. l + 2 /\ \A m \in 1 .. l : m \in 1 .. l + 2
      OBVIOUS
    <3> QED
      BY <1>5, <3>1
  <2>2. \A k \in 1 .. n : /\ Place(k) \in 1 .. l + 2
                          /\ \/ Place(k) \in 1 .. l /\ o[Place(k)] = id[k]
                             \/ Place(k) = l + 1 /\ a = id[k]
                             \/ Place(k) = l + 2 /\ b = id[k]
    BY <2>1
  <2> HIDE DEF Place
  <2>3. PICK at : at = [k \in 1 .. n |-> Place(k)]
    OBVIOUS
  <2> QED
    BY <2>2, <2>3
<1>7. \A j, k \in 1 .. n : at[j] = at[k] => j = k
  <2> SUFFICES ASSUME NEW j \in 1 .. n, NEW k \in 1 .. n, at[j] = at[k] PROVE j = k
    OBVIOUS
  <2>1. l + 1 \notin 1 .. l /\ l + 2 \notin 1 .. l /\ l + 1 # l + 2
    OBVIOUS
  <2>2. id[j] = id[k]
    BY <1>6, <2>1
  <2> QED
    BY <1>5, <2>2
<1>8. n <= l + 2
  <2>1. /\ IsFiniteSet(1 .. n) /\ Cardinality(1 .. n) = n
        /\ IsFiniteSet(1 .. l + 2) /\ Cardinality(1 .. l + 2) = l + 2
    BY FS_Interval
  <2>2. ~(l + 2 < n)
    BY <1>6, <1>7, <2>1, FS_PigeonHole
  <2> QED
    BY <2>2
<1> QED
  BY <1>2, <1>5, <1>8, SizeAssumption

\* bus_arb_w_fifo, which the core fills without a test (ct_biu_write_channel
\* 462), is never longer than what the port lets in: what wd_sid_fifo holds and
\* one request in each of the two registers.
THEOREM WOrderNeverOverflows == Spec => []WOrderRoom
<1>1. DataInv => WOrderRoom
  BY RoomInOrder
<1> QED
  BY <1>1, DataInvariant, PTL

\* The beats the port wants have come, or the core can send: what of the other
\* class was handed over before them fits.
LEMMA StreamWhenWanted ==
  ASSUME DataInv, LINE_BEATS <= WS_DEPTH
  PROVE  StreamMoves
<1> SUFFICES ASSUME NEW p \in CORE, wd_sid_fifo[p] # <<>>, ~wd_pkb_req(p)
             PROVE  /\ bus_arb_w_fifo[p] # <<>>
                    /\ IF Head(bus_arb_w_fifo[p]).wns THEN wns_wready(p) ELSE ws_wready(p)
  BY DEF StreamMoves
<1>1. PICK g \in Ledger : LedgerOK(g)
  BY DEF DataInv, Accounted
<1>2. /\ Inv /\ PortTypeOK /\ StreamAt(g, p) /\ BeatsAt(g, p) /\ BusAt(g, p) /\ GrantAt(g, p)
      /\ PackAt(g, p) /\ OvertakenAt(g, p) /\ StampOK(g)
  BY <1>1 DEF DataInv, Inv, TypeOK, LedgerOK, PortsOK, PortAt
<1>0. PICK i : i = g.owner[p][1]
  OBVIOUS
<1>3. PICK x \in SidEntry, c \in CLASS :
        x = wd_sid_fifo[p][1] /\ c = ClassOf(x.wns) /\ i = g.owner[p][1]
  <2>1. wd_sid_fifo[p] \in Seq(SidEntry)
    BY <1>2, PortTypes
  <2>2. wd_sid_fifo[p][1] \in SidEntry
    BY <2>1, SeqFacts
  <2> QED
    BY <1>0, <2>2, ClassType
<1>4. 1 \in 1 .. Len(wd_sid_fifo[p])
  BY <1>2, PortTypes, SeqFacts
<1>5. i \in Stream(g, p, c) /\ g.packed[p][c] < g.to[i]
  <2>1. i \in Stream(g, p, c)
    BY <1>2, <1>3, <1>4 DEF GrantAt
  <2> QED
    BY <1>2, <2>1 DEF StreamAt
<1>6. Beats(p, c) = <<>>
  <2>1. WdFifo(p) = <<>> /\ Head(wd_sid_fifo[p]) = x
    BY <1>3 DEF wd_pkb_req
  <2>2. x.wns \in BOOLEAN
    BY DEF SidEntry
  <2> QED
    BY <1>3, <2>1, <2>2 DEF WdFifo, wd_dfifo_sel_wns, Beats, ClassOf
<1>7. PICK k \in 1 .. Len(bus_arb_w_fifo[p]) : bus_arb_w_fifo[p][k].id = i
  <2>1. Sent(g, p, c) = g.packed[p][c]
    BY <1>6, LedgerTypes DEF Sent
  <2> QED
    BY <1>2, <1>5, <2>1 DEF BusAt
<1>8. bus_arb_w_fifo[p] # <<>>
  BY <1>2, <1>7, PortTypes
<1>9. PICK w \in Order, d \in CLASS :
        /\ w = bus_arb_w_fifo[p][1] /\ w = Head(bus_arb_w_fifo[p]) /\ d = ClassOf(w.wns)
        /\ w.id \in Stream(g, p, d) /\ Sent(g, p, d) < g.to[w.id]
  <2>1. bus_arb_w_fifo[p] \in Seq(Order) /\ 1 \in 1 .. Len(bus_arb_w_fifo[p])
    BY <1>2, <1>8, PortTypes, SeqFacts
  <2>2. bus_arb_w_fifo[p][1] \in Order /\ bus_arb_w_fifo[p][1] = Head(bus_arb_w_fifo[p])
    BY <2>1, PortTypes
  <2>3. OrderOK(g, p, bus_arb_w_fifo[p][1])
    BY <1>2, <2>1 DEF BusAt
  <2> QED
    BY <2>2, <2>3, ClassType DEF OrderOK
<1>10. w.wns \in BOOLEAN
  BY DEF Order
<1>11. CASE d = c
  <2>1. Len(Beats(p, d)) = 0
    BY <1>6, <1>11
  <2>2. IF w.wns THEN wns_wready(p) ELSE ws_wready(p)
    BY <1>9, <1>10, <2>1, SizeAssumption DEF wns_wready, ws_wready, Beats, ClassOf
  <2> QED
    BY <1>8, <1>9, <2>2
<1>12. CASE d # c
  <2>1. g.handed[w.id] < g.handed[i]
    <3>1. w.id # i
      BY <1>5, <1>9, <1>12, StreamType
    <3>2. 1 < k /\ 1 \in 1 .. Len(bus_arb_w_fifo[p])
      BY <1>7, <1>9, <3>1
    <3> QED
      BY <1>2, <1>7, <1>9, <3>2 DEF BusAt
  <2>2. \A j : Late(g, p, 1, j) <=> g.handed[j] < g.handed[i]
    BY <1>3 DEF Late
  <2>3. CASE d = "wns"
    <3>1. ~x.wns
      BY <1>3, <1>12, <2>3 DEF ClassOf
    <3> QED
      BY <1>2, <1>3, <1>4, <1>9, <2>1, <2>2, <2>3, <3>1 DEF OvertakenAt
  <2>4. CASE d = "ws"
    <3>1. x.wns /\ ~w.wns
      BY <1>3, <1>9, <1>12, <2>4 DEF ClassOf, CLASS
    <3>2. PICK n \in Nat, m \in Nat : n = Len(Beats(p, d)) /\ m = g.packed[p][d]
      BY <1>2, LedgerTypes, PortTypes
    <3>3. /\ g.from[w.id] \in Nat /\ g.to[w.id] \in Nat /\ m + n < g.to[w.id]
          /\ g.to[w.id] <= g.from[w.id] + LINE_BEATS
      BY <1>2, <1>9, <3>2, StreamType DEF StreamAt, Sent
    <3>4. ASSUME n > 0 PROVE g.from[w.id] <= m
      <4>1. PICK j : j = Beats(p, d)[1].id
        OBVIOUS
      <4>2. j \in Stream(g, p, d) /\ g.from[j] < m + 1 /\ m + 1 <= g.to[j]
        <5>1. 1 \in 1 .. n
          BY <3>4
        <5>2. BeatOK(g, p, d, 1)
          BY <1>2, <3>2, <5>1 DEF BeatsAt
        <5> QED
          BY <3>2, <4>1, <5>2 DEF BeatOK
      <4>3. j = w.id
        <5> SUFFICES ASSUME j # w.id PROVE FALSE
          OBVIOUS
        <5>1. /\ g.from[j] \in Nat /\ g.to[j] \in Nat /\ g.handed[j] \in Nat /\ g.handed[w.id] \in Nat
              /\ g.handed[i] \in Nat
          BY <1>5, <1>9, <4>2, StreamType
        <5>2. ~(g.handed[w.id] < g.handed[j])
          <6> SUFFICES ASSUME g.handed[w.id] < g.handed[j] PROVE FALSE
            OBVIOUS
          <6>1. g.to[w.id] <= g.from[j]
            BY <1>2, <1>9, <4>2 DEF StreamAt
          <6>2. PICK u, v : u = g.to[w.id] /\ v = g.from[j]
            OBVIOUS
          <6>3. u \in Nat /\ v \in Nat /\ m + n < u /\ v < m + 1 /\ u <= v
            BY <3>3, <4>2, <5>1, <6>1, <6>2
          <6> QED
            BY <3>2, <6>3
        <5>3. g.handed[j] # g.handed[w.id]
          <6>1. j \in g.due /\ w.id \in g.due /\ j[1] = p /\ w.id[1] = p
            BY <1>9, <4>2, StreamType
          <6> QED
            BY <1>2, <6>1 DEF StampOK
        <5>4. g.handed[j] < g.handed[i]
          BY <2>1, <5>1, <5>2, <5>3
        <5>5. Late(g, p, 1, j) /\ Late(g, p, 1, w.id)
          BY <2>1, <2>2, <5>4
        <5> QED
          BY <1>2, <1>3, <1>4, <1>9, <2>4, <3>1, <4>2, <5>5 DEF OvertakenAt
      <4>4. g.from[j] \in Nat
        BY <4>2, StreamType
      <4> QED
        BY <4>2, <4>3, <4>4
    <3>5. n < LINE_BEATS
      BY <3>2, <3>3, <3>4, Sizes
    <3>6. ws_wready(p)
      BY <2>4, <3>2, <3>5, Sizes, SizeAssumption DEF ws_wready, Beats
    <3> QED
      BY <1>8, <1>9, <3>1, <3>6
  <2> QED
    BY <2>3, <2>4 DEF CLASS
<1> QED
  BY <1>11, <1>12

\* The W channel of a core can move, or the beats its port wants next have come
\* (ct_biu_write_channel 462-487, ct_piu_other_io 878-1044), if wd_ws_dfifo
\* holds a line, as it does in the code: of the stores a granted victim has
\* overtaken, no more than one line was handed over before it.
THEOREM StreamNeverStuck ==
  ASSUME LINE_BEATS <= WS_DEPTH
  PROVE  Spec => []StreamMoves
<1>1. DataInv => StreamMoves
  BY StreamWhenWanted
<1> QED
  BY <1>1, DataInvariant, PTL

\* The first of what a port has still to deliver.
LEMMA PendingHead ==
  ASSUME PortTypeOK, NEW p \in CORE, Ready(p) \/ wd_sid_fifo[p] # <<>>
  PROVE  /\ Pending(p) # <<>>
         /\ Head(Pending(p)).dest = IF Ready(p) THEN pkb[p].dest ELSE wd_sid_fifo[p][1].dest
<1>1. PICK r : r = [k \in DOMAIN wd_sid_fifo[p] |->
                      [dest |-> wd_sid_fifo[p][k].dest, sid |-> wd_sid_fifo[p][k].sid]]
  OBVIOUS
<1>2. wd_sid_fifo[p] \in Seq(SidEntry) /\ Len(wd_sid_fifo[p]) \in Nat
  BY PortTypes
<1> DEFINE R == [dest : Receiver, sid : WSID]
<1>3. \A k \in 1 .. Len(wd_sid_fifo[p]) :
        wd_sid_fifo[p][k].dest \in Receiver /\ wd_sid_fifo[p][k].sid \in WSID
  <2>1. \A k \in 1 .. Len(wd_sid_fifo[p]) : wd_sid_fifo[p][k] \in SidEntry
    BY PortTypes
  <2> QED
    BY <2>1 DEF SidEntry
<1>4. r \in Seq(R) /\ Len(r) = Len(wd_sid_fifo[p])
  <2>1. DOMAIN wd_sid_fifo[p] = 1 .. Len(wd_sid_fifo[p])
    BY <1>2
  <2>2. \A k \in 1 .. Len(wd_sid_fifo[p]) :
          [dest |-> wd_sid_fifo[p][k].dest, sid |-> wd_sid_fifo[p][k].sid] \in R
    BY <1>3
  <2> HIDE DEF R
  <2> QED
    BY <1>1, <1>2, <2>1, <2>2
<1> HIDE DEF R
<1>5. CASE Ready(p)
  <2>1. PICK x : x = [dest |-> pkb[p].dest, sid |-> pkb[p].sid]
    OBVIOUS
  <2>2. x \in R
    BY <1>5, <2>1 DEF Ready, PortTypeOK, Package, R
  <2>3. Pending(p) = <<x>> \o r
    BY <1>1, <1>5, <2>1 DEF Pending, Ready
  <2>4. <<x>> \o r # <<>> /\ Head(<<x>> \o r) = x
    BY <1>4, <2>2
  <2> QED
    BY <1>5, <2>1, <2>3, <2>4
<1>6. CASE ~Ready(p)
  <2>1. Pending(p) = <<>> \o r
    BY <1>1, <1>6 DEF Pending, Ready
  <2>2. <<>> \o r = r
    BY <1>4
  <2>3. wd_sid_fifo[p] # <<>> /\ 1 \in DOMAIN wd_sid_fifo[p]
    BY <1>2, <1>6, SeqFacts
  <2>4. r # <<>> /\ Head(r) = r[1]
    BY <1>2, <1>4, <2>3, WordFacts, SeqFacts
  <2>5. r[1].dest = wd_sid_fifo[p][1].dest
    BY <1>1, <2>3
  <2> QED
    BY <1>6, <2>1, <2>2, <2>4, <2>5
<1> QED
  BY <1>5, <1>6

\* What there is to deliver, or is awaited, is a write that some port delivers.
LEMMA SomeDelivery ==
  ASSUME Inv, NEW g \in Ledger, LedgerOK(g),
         \/ \E p \in CORE : Pending(p) # <<>>
         \/ \E b \in BANK : Awaited(b) # <<>>
         \/ woq # <<>>
  PROVE  \E i \in Id, d \in Receiver, s \in WSID, n \in Nat : Delivers(g, i, d, s, n)
<1>1. PortTypeOK /\ ReceiveOK(g) /\ \A p \in CORE : GrantAt(g, p) /\ PackAt(g, p)
  BY DEF Inv, TypeOK, LedgerOK, PortsOK, PortAt
<1>2. ASSUME NEW d \in Receiver, NEW q \in Seq(Id), q # <<>>, Awaits(g, q, d)
      PROVE  \E i \in Id, s \in WSID, n \in Nat : Delivers(g, i, d, s, n)
  <2>1. 1 \in 1 .. Len(q) /\ q[1] \in Id
    BY <1>2, SeqFacts
  <2> QED
    BY <1>2, <2>1 DEF Awaits
<1>3. ASSUME NEW p \in CORE, Pending(p) # <<>>
      PROVE  \E i \in Id, d \in Receiver, s \in WSID, n \in Nat : Delivers(g, i, d, s, n)
  <2>1. CASE Ready(p)
    <3>1. pkb[p] \in Package
      BY <1>1, <2>1 DEF Ready, PortTypeOK
    <3>2. pkb[p].dest \in Receiver /\ pkb[p].sid \in WSID /\ pkb[p].data \in Seq(Id \cup {NONE})
      BY <3>1 DEF Package, Data
    <3>3. Len(pkb[p].data) \in Nat
      BY <3>2, SeqFacts
    <3>4. PICK i \in Id : i = Packet(p) /\ i[1] = p
      BY <1>1, <2>1 DEF PackAt
    <3>5. Delivers(g, i, pkb[p].dest, pkb[p].sid, Len(pkb[p].data))
      BY <2>1, <3>4 DEF Delivers
    <3> QED
      BY <3>2, <3>3, <3>5
  <2>2. CASE ~Ready(p)
    <3>1. wd_sid_fifo[p] # <<>>
      <4>1. ASSUME wd_sid_fifo[p] = <<>> PROVE Pending(p) = <<>>
        <5>1. Pending(p) = <<>> \o [k \in DOMAIN wd_sid_fifo[p] |->
                  [dest |-> wd_sid_fifo[p][k].dest, sid |-> wd_sid_fifo[p][k].sid]]
          BY <2>2 DEF Pending, Ready
        <5>2. [k \in DOMAIN wd_sid_fifo[p] |->
                  [dest |-> wd_sid_fifo[p][k].dest, sid |-> wd_sid_fifo[p][k].sid]] = <<>>
          BY <4>1
        <5> QED
          BY <5>1, <5>2
      <4> QED
        BY <1>3, <4>1
    <3>2. 1 \in 1 .. Len(wd_sid_fifo[p]) /\ wd_sid_fifo[p][1] \in SidEntry
      BY <1>1, <3>1, PortTypes, SeqFacts
    <3>3. PICK i : i = g.owner[p][1] /\ i \in Stream(g, p, ClassOf(wd_sid_fifo[p][1].wns))
      BY <1>1, <3>2 DEF GrantAt
    <3>4. i \in Id /\ i[1] = p /\ g.from[i] \in Nat /\ g.to[i] \in Nat
      BY <3>3, StreamType
    <3>5. g.to[i] - g.from[i] \in Nat
      <4>1. g.from[i] < g.to[i]
        BY <3>3, ClassType DEF LedgerOK, PortsOK, PortAt, StreamAt
      <4> QED
        BY <3>4, <4>1
    <3>6. Delivers(g, i, wd_sid_fifo[p][1].dest, wd_sid_fifo[p][1].sid, g.to[i] - g.from[i])
      BY <3>2, <3>3, <3>4 DEF Delivers
    <3>7. wd_sid_fifo[p][1].dest \in Receiver /\ wd_sid_fifo[p][1].sid \in WSID
      BY <3>2 DEF SidEntry
    <3> QED
      BY <3>4, <3>5, <3>6, <3>7
  <2> QED
    BY <2>1, <2>2
<1>4. ASSUME NEW b \in BANK, Awaited(b) # <<>>
      PROVE  \E i \in Id, d \in Receiver, s \in WSID, n \in Nat : Delivers(g, i, d, s, n)
  <2>1. Len(g.owed[b]) = Len(Awaited(b)) /\ Awaits(g, g.owed[b], b) /\ g.owed[b] \in Seq(Id)
    BY <1>1, LedgerTypes DEF ReceiveOK
  <2>2. g.owed[b] # <<>>
    <3>1. Awaited(b) \in Seq(CORE)
      BY AwaitedType DEF Inv, TypeOK
    <3> QED
      BY <1>4, <2>1, <3>1, SeqFacts
  <2>3. b \in Receiver
    BY DEF Receiver
  <2> QED
    BY <1>2, <2>1, <2>2, <2>3
<1>5. CASE woq # <<>>
  <2>1. "ncq" \in Receiver /\ woq \in Seq(Id) /\ Awaits(g, woq, "ncq")
    BY <1>1 DEF Receiver, Inv, TypeOK, NcqTypeOK, ReceiveOK
  <2>2. PICK q \in Seq(Id) : q = woq
    BY <2>1
  <2> QED
    BY <1>2, <1>5, <2>1, <2>2
<1> QED
  BY <1>3, <1>4, <1>5

\* The write that was granted first, of all that are under way, is the first
\* of its port and the first of its receiver.
LEMMA FirstMeets ==
  ASSUME DataInv
  PROVE  HeadsMeet
<1> SUFFICES ASSUME \/ \E p \in CORE : Pending(p) # <<>>
                    \/ \E b \in BANK : Awaited(b) # <<>>
                    \/ woq # <<>>
             PROVE  \E p \in CORE : Meets(p)
  BY DEF HeadsMeet
<1>1. PICK g \in Ledger : LedgerOK(g)
  BY DEF DataInv, Accounted
<1>2. /\ Inv /\ PortTypeOK /\ ReceiveOK(g) /\ \A p \in CORE : GrantAt(g, p) /\ PackAt(g, p)
      /\ BankTypeOK /\ CreateOK /\ woq \in Seq(Id)
  BY <1>1 DEF DataInv, Inv, TypeOK, NcqTypeOK, LedgerOK, PortsOK, PortAt
<1> DEFINE Under(j) == \E d \in Receiver, s \in WSID, n \in Nat : Delivers(g, j, d, s, n)
           T == {g.granted[j] : j \in {x \in Id : Under(x)}}
<1>3. PICK i \in Id : Under(i) /\ \A j \in Id : Under(j) => g.granted[i] <= g.granted[j]
  <2>1. T \subseteq Nat
    BY LedgerTypes
  <2>2. T # {}
    <3>1. PICK j \in Id : Under(j)
      BY <1>1, <1>2, SomeDelivery
    <3> HIDE DEF Under
    <3> QED
      BY <3>1
  <2>3. PICK n \in T : \A m \in T : n <= m
    <3> HIDE DEF T
    <3> QED
      BY <2>1, <2>2, LeastNat
  <2> HIDE DEF Under
  <2> QED
    BY <2>3
<1>4. PICK d \in Receiver, s \in WSID, n \in Nat : Delivers(g, i, d, s, n)
  BY <1>3
<1>5. PICK p \in CORE : p = i[1]
  BY DEF Id
<1>6. \A j \in Id : g.granted[j] \in Nat
  BY LedgerTypes
<1>7. ASSUME NEW j \in Id, Under(j) PROVE ~(g.granted[j] < g.granted[i])
  BY <1>3, <1>6, <1>7
<1>8. Pending(p) # <<>> /\ Head(Pending(p)).dest = d
  <2>1. CASE Ready(p) /\ Packet(p) = i /\ pkb[p].dest = d
    BY <1>2, <2>1, PendingHead
  <2>2. ASSUME NEW k \in 1 .. Len(wd_sid_fifo[p]), g.owner[p][k] = i, wd_sid_fifo[p][k].dest = d
        PROVE  Pending(p) # <<>> /\ Head(Pending(p)).dest = d
    <3>1. ~Ready(p)
      <4> SUFFICES ASSUME Ready(p) PROVE FALSE
        OBVIOUS
      <4>1. PICK x \in Id : x = Packet(p) /\ x[1] = p
        BY <1>2 DEF PackAt
      <4>2. g.granted[x] < g.granted[i]
        BY <1>2, <2>2, <4>1 DEF PackAt, GrantAt
      <4>3. pkb[p].dest \in Receiver /\ pkb[p].sid \in WSID /\ Len(pkb[p].data) \in Nat
        <5>1. pkb[p] \in Package
          BY <1>2 DEF Ready, PortTypeOK
        <5>2. pkb[p].dest \in Receiver /\ pkb[p].sid \in WSID /\ pkb[p].data \in Seq(Id \cup {NONE})
          BY <5>1 DEF Package, Data
        <5> QED
          BY <5>2, SeqFacts
      <4>4. Delivers(g, x, pkb[p].dest, pkb[p].sid, Len(pkb[p].data))
        BY <4>1 DEF Delivers
      <4> QED
        BY <1>7, <4>2, <4>3, <4>4
    <3>2. k = 1
      <4> SUFFICES ASSUME k # 1 PROVE FALSE
        OBVIOUS
      <4>1. 1 \in 1 .. Len(wd_sid_fifo[p]) /\ 1 < k
        BY <1>2, PortTypes
      <4>2. PICK x : x = g.owner[p][1]
        OBVIOUS
      <4>3. x \in Stream(g, p, ClassOf(wd_sid_fifo[p][1].wns)) /\ g.granted[x] < g.granted[i]
        BY <1>2, <2>2, <4>1, <4>2 DEF GrantAt
      <4>4. x \in Id /\ x[1] = p /\ g.from[x] \in Nat /\ g.to[x] \in Nat
        BY <4>3, StreamType
      <4>5. g.to[x] - g.from[x] \in Nat
        <5>1. g.from[x] < g.to[x]
          BY <1>1, <4>3, ClassType DEF LedgerOK, PortsOK, PortAt, StreamAt
        <5> QED
          BY <4>4, <5>1
      <4>6. Delivers(g, x, wd_sid_fifo[p][1].dest, wd_sid_fifo[p][1].sid, g.to[x] - g.from[x])
        BY <4>1, <4>2, <4>4 DEF Delivers
      <4>7. wd_sid_fifo[p][1].dest \in Receiver /\ wd_sid_fifo[p][1].sid \in WSID
        BY <1>2, <4>1, PortTypes DEF SidEntry
      <4> QED
        BY <1>7, <4>3, <4>4, <4>5, <4>6, <4>7
    <3>3. wd_sid_fifo[p] # <<>>
      BY <1>2, <2>2, PortTypes
    <3> QED
      BY <1>2, <2>2, <3>1, <3>2, <3>3, PendingHead
  <2> QED
    BY <1>4, <1>5, <2>1, <2>2 DEF Delivers
<1>9. ASSUME NEW q \in Seq(Id), Awaits(g, q, d)
      PROVE  q # <<>> /\ q[1] = i
  <2>1. PICK k \in 1 .. Len(q) : q[k] = i
    BY <1>4, <1>9 DEF Awaits
  <2>2. 1 \in 1 .. Len(q) /\ q[1] \in Id /\ q # <<>>
    BY <2>1
  <2>3. CASE k # 1
    <3>1. 1 < k
      BY <2>1, <2>3
    <3>2. g.granted[q[1]] < g.granted[i]
      BY <1>9, <2>1, <2>2, <3>1 DEF Awaits
    <3>3. Under(q[1])
      BY <1>9, <2>2 DEF Awaits
    <3> QED
      BY <1>7, <2>2, <3>2, <3>3
  <2> QED
    BY <2>1, <2>2, <2>3
<1> HIDE DEF Under, T
<1>10. CASE d = "bmb"
  BY <1>8, <1>10 DEF Meets
<1>11. CASE d = "ncq"
  <2>1. PICK q \in Seq(Id) : q = woq
    BY <1>2
  <2>2. q # <<>> /\ q[1] = i
    BY <1>2, <1>9, <1>11, <2>1 DEF ReceiveOK
  <2>3. woq # <<>> /\ Head(woq)[1] = p
    BY <1>5, <2>1, <2>2, WordFacts
  <2> QED
    BY <1>8, <1>11, <2>3 DEF Meets
<1>12. CASE d \in BANK
  <2>1. PICK q \in Seq(Id) : q = g.owed[d]
    BY <1>12, LedgerTypes
  <2>2. q # <<>> /\ q[1] = i
    BY <1>2, <1>9, <1>12, <2>1 DEF ReceiveOK
  <2>3. PICK a \in Seq(CORE) : a = Awaited(d)
    BY <1>2, <1>12, AwaitedType
  <2>4. Len(a) = Len(q) /\ (1 \in 1 .. Len(a) => a[1] = i[1])
    BY <1>2, <1>12, <2>1, <2>2, <2>3 DEF ReceiveOK
  <2>5. a # <<>> /\ Head(a) = p
    <3>1. Len(q) > 0 /\ Len(a) \in Nat
      BY <2>2, <2>3, SeqFacts
    <3>2. a # <<>>
      BY <2>4, <3>1
    <3>3. 1 \in 1 .. Len(a)
      BY <2>4, <3>1
    <3> QED
      BY <1>5, <2>4, <3>2, <3>3, WordFacts
  <2> QED
    BY <1>8, <1>12, <2>3, <2>5 DEF Meets
<1> QED
  BY <1>4, <1>10, <1>11, <1>12 DEF Receiver

\* The ports deliver in their orders and the receivers take in theirs
\* (wd_sid_fifo, wd_sel_fifo, woq); yet while anything is owed, some port comes
\* next in both.
THEOREM OrdersMeet == Spec => []HeadsMeet
<1>1. DataInv => HeadsMeet
  BY FirstMeets
<1> QED
  BY <1>1, DataInvariant, PTL
=============================================================================
