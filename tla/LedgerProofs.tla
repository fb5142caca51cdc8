---------------------------- MODULE LedgerProofs ----------------------------
(***************************************************************************)
(* Proofs about the two ledgers: the stock movements of Inventory and the  *)
(* receivables of Settlement.  What both keep right is a sum over rows     *)
(* that concurrent transactions write; the lemmas about sums are in Sums.  *)
(*                                                                         *)
(* Stock: one unit per product, balanced transfers, one movement and one   *)
(* event per provenance pair, and counts that leave what was counted, for  *)
(* every number of concurrent requests and jobs.  The properties speak of  *)
(* committed rows; InventoryInvariant extends them to the rows that open   *)
(* transactions have written, since a commit publishes them unchecked.     *)
(*                                                                         *)
(* Money: the lifecycle of receivables and claims, and that no interleaving*)
(* makes or loses money, for every number of receivables, claims, consoles *)
(* and concurrent transactions.                                            *)
(***************************************************************************)
EXTENDS Inventory, Settlement, SequenceTheorems, Sums

\* What the requests of all six operations have in common.
LEMMA RequestLegs ==
    ASSUME NEW r \in Requests
    PROVE  /\ r.legs \in Seq(Legs) /\ Len(r.legs) \in Nat \ {0}
           /\ r.op \in {"manual", "transfer", "count", "sale", "restock", "job"}
           /\ \A i \in 1..Len(r.legs) : r.legs[i] \in Legs
           /\ r.op \notin {"transfer", "job"} => Len(r.legs) = 1
<1> USE InventoryAssumption
<1>1. ASSUME NEW s \in StockStores, NEW p \in Products \cup {None}, NEW u \in Units,
             NEW q \in Int, NEW t \in MovementTypes, NEW e \in Nat
      PROVE  Leg(s, p, u, q, t, e) \in Legs
  BY DEF Leg, Legs
<1>2. ASSUME NEW x \in Legs PROVE <<x>> \in Seq(Legs) /\ Len(<<x>>) = 1 /\ <<x>>[1] = x
  OBVIOUS
<1>3. ASSUME NEW i \in DOMAIN SaleLines
      PROVE  /\ SaleLines[i].product \in Products \cup {None}
             /\ SaleLines[i].unit \in Units
             /\ SaleLines[i].qty \in Int /\ -SaleLines[i].qty \in Int
             /\ i \in Nat /\ Len(SaleLines) + i \in Nat
  <2> DEFINE Lines == [product : Products \cup {None}, unit : Units, qty : Quantities]
  <2>1. SaleLines \in Seq(Lines) /\ i \in 1..Len(SaleLines) /\ Len(SaleLines) \in Nat
    BY LenProperties
  <2>2. SaleLines[i] \in Lines
    BY <2>1, ElementOfSeq
  <2>3. SaleLines[i].qty \in Nat
    BY <2>2
  <2>4. QED BY <2>1, <2>2, <2>3
<1>4. CASE r \in ManualRequests
  <2>1. PICK s \in StockStores, p \in ManualProducts, u \in Units, e \in ManualEntries :
          r = [op |-> "manual", legs |-> <<Leg(s, p, u, e.qty, e.type, 0)>>]
    BY <1>4 DEF ManualRequests
  <2>2. p \in Products \cup {None} /\ e.qty \in Int /\ e.type \in MovementTypes
    BY DEF MovementTypes
  <2>3. Leg(s, p, u, e.qty, e.type, 0) \in Legs
    BY <1>1, <2>2
  <2>4. QED BY <1>2, <2>1, <2>3
<1>5. CASE r \in TransferRequests
  <2>1. PICK w \in StockStores \X StockStores, p \in Products, u \in Units, q \in Quantities :
          r = [op |-> "transfer",
               legs |-> <<Leg(w[1], p, u, -q, "transfer_out", 0),
                          Leg(w[2], p, u, q, "transfer_in", 0)>>]
    BY <1>5 DEF TransferRequests
  <2>2. /\ Leg(w[1], p, u, -q, "transfer_out", 0) \in Legs
        /\ Leg(w[2], p, u, q, "transfer_in", 0) \in Legs
    BY <1>1 DEF MovementTypes
  <2>3. QED BY <2>1, <2>2
<1>6. CASE r \in CountRequests
  <2>1. PICK s \in StockStores, p \in Products, u \in Units, q \in Quantities \cup {0} :
          r = [op |-> "count", legs |-> <<Leg(s, p, u, q, "count_correction", 0)>>]
    BY <1>6 DEF CountRequests
  <2>2. Leg(s, p, u, q, "count_correction", 0) \in Legs
    BY <1>1 DEF MovementTypes
  <2>3. QED BY <1>2, <2>1, <2>2
<1>7. CASE r \in SaleRequests
  <2>1. PICK i \in DOMAIN SaleLines :
          r = [op |-> "sale", legs |-> <<Leg(SaleStore, SaleLines[i].product,
                 SaleLines[i].unit, -SaleLines[i].qty, "outbound", i)>>]
    BY <1>7 DEF SaleRequests
  <2>2. Leg(SaleStore, SaleLines[i].product, SaleLines[i].unit, -SaleLines[i].qty,
            "outbound", i) \in Legs
    BY <1>1, <1>3 DEF MovementTypes
  <2>3. QED BY <1>2, <2>1, <2>2
<1>8. CASE r \in RestockRequests
  <2>1. PICK i \in DOMAIN SaleLines :
          r = [op |-> "restock", legs |-> <<Leg(SaleStore, SaleLines[i].product,
                 SaleLines[i].unit, SaleLines[i].qty, "inbound", Len(SaleLines) + i)>>]
    BY <1>8 DEF RestockRequests
  <2>2. Leg(SaleStore, SaleLines[i].product, SaleLines[i].unit, SaleLines[i].qty,
            "inbound", Len(SaleLines) + i) \in Legs
    BY <1>1, <1>3 DEF MovementTypes
  <2>3. QED BY <1>2, <2>1, <2>2
<1>9. CASE r = JobRequest
  <2> DEFINE leg(i) == Leg(SaleStore, SaleLines[i].product, SaleLines[i].unit,
                           -SaleLines[i].qty, "outbound", i)
             legs == [i \in DOMAIN SaleLines |-> leg(i)]
  <2>1. r.op = "job" /\ r.legs = legs
    BY <1>9 DEF JobRequest
  <2>2. \A i \in DOMAIN SaleLines : leg(i) \in Legs
    BY <1>1, <1>3 DEF MovementTypes
  <2>3. DOMAIN SaleLines = 1..Len(SaleLines) /\ Len(SaleLines) \in Nat \ {0}
    OBVIOUS
  <2> HIDE DEF leg
  <2>4. legs \in Seq(Legs) /\ Len(legs) = Len(SaleLines)
    BY <2>2, <2>3
  <2>5. QED BY <2>1, <2>2, <2>3, <2>4
<1>10. QED BY <1>4, <1>5, <1>6, <1>7, <1>8, <1>9 DEF Requests

\* The two legs of a transfer: out of one store, into another, the same amount.
LEMMA TransferLegs ==
    ASSUME NEW r \in Requests, r.op = "transfer"
    PROVE  /\ Len(r.legs) = 2
           /\ r.legs[1].ext = 0 /\ r.legs[2].ext = 0
           /\ r.legs[1].store # r.legs[2].store
           /\ r.legs[1].product = r.legs[2].product
           /\ r.legs[1].unit = r.legs[2].unit
           /\ r.legs[2].qty = -r.legs[1].qty /\ r.legs[1].qty = -r.legs[2].qty
<1>1. r \in TransferRequests
  BY DEF Requests, ManualRequests, CountRequests, SaleRequests, RestockRequests,
     JobRequest
<1>2. PICK w \in {x \in StockStores \X StockStores : x[1] # x[2]}, p \in Products, u \in Units,
           q \in Quantities :
        r = [op |-> "transfer",
             legs |-> <<Leg(w[1], p, u, -q, "transfer_out", 0),
                        Leg(w[2], p, u, q, "transfer_in", 0)>>]
  BY <1>1 DEF TransferRequests
<1>3. q \in Nat /\ -(-q) = q
  BY InventoryAssumption
<1>4. QED BY <1>2, <1>3 DEF Leg

-----------------------------------------------------------------------------
(* A step of one client that commits nothing.                               *)

\* It keeps the invariant, if what it writes is its own and competes with
\* nothing that is written.
LEMMA ClientStepKeeps ==
    ASSUME InventoryInvariant, NEW c \in Clients,
           UNCHANGED <<movements, events>>,
           ops' >= ops, InventoryTypeOK', ClientsOK',
           \A d \in Clients \ {c} :
             /\ at'[d] = at[d] /\ req'[d] = req[d] /\ started'[d] = started[d]
             /\ place'[d] = place[d] /\ wrote'[d] = wrote[d],
           started'[c] \in {0, started[c], ops'},
           started'[c] # 0 /\ started'[c] # started[c] => ops' > ops,
           ClientShape(c)', FreshId(c)', OwnRows(c)', TransferRows(c)',
           \A r \in wrote'[c] \ wrote[c], q \in Written \cup wrote'[c] :
             ~UnitsClash(r, q) /\ ~UnitsClash(q, r) /\ (SamePair(r, q) => r = q)
    PROVE  InventoryInvariant'
<1> USE DEF InventoryInvariant
<1>1. AppliedAndAnnouncedOnce' /\ TransfersBalance'
  BY DEF AppliedAndAnnouncedOnce, TransfersBalance, RowId
<1>2. ops \in Nat /\ ops' \in Nat
  BY InventoryAssumption DEF AppliedAndAnnouncedOnce, InventoryTypeOK
<1>3. movements \subseteq MovementRow
  BY DEF AppliedAndAnnouncedOnce, InventoryTypeOK
<1>4. CommittedIds'
  BY <1>2, <1>3 DEF CommittedIds, RowId, MovementRow
<1>5. NoCompetitors'
  <2> SUFFICES ASSUME NEW r \in Written', NEW q \in Written'
               PROVE  ~UnitsClash(r, q) /\ (SamePair(r, q) => r = q)
    BY DEF NoCompetitors, UnitsClash, SamePair
  <2>1. Written' \subseteq Written \cup (wrote'[c] \ wrote[c])
    BY DEF Written
  <2>2. CASE r \in wrote'[c] \ wrote[c]
    BY <2>1, <2>2
  <2>3. CASE q \in wrote'[c] \ wrote[c]
    <3>1. SamePair(r, q) <=> SamePair(q, r)
      BY DEF SamePair
    <3>2. QED BY <2>1, <2>3, <3>1
  <2>4. CASE r \in Written /\ q \in Written
    BY <2>4 DEF NoCompetitors
  <2>5. QED BY <2>1, <2>2, <2>3, <2>4
<1>6. ASSUME NEW d \in Clients, d # c
      PROVE  (ClientShape(d) /\ FreshId(d) /\ OwnRows(d) /\ TransferRows(d))'
  <2>1. /\ at'[d] = at[d] /\ req'[d] = req[d] /\ started'[d] = started[d]
        /\ place'[d] = place[d] /\ wrote'[d] = wrote[d]
    BY <1>6
  <2>2. ClientShape(d)' /\ OwnRows(d)'
    BY <2>1 DEF ClientShape, OwnRows
  <2>3. TransferRows(d)'
    <3>1. LegsPast(d)' = LegsPast(d)
      BY <2>1 DEF LegsPast
    <3>2. \A i : TransferLeg(d, i)' = TransferLeg(d, i)
      BY <2>1 DEF TransferLeg
    <3>3. QED BY <2>1, <3>1, <3>2 DEF TransferRows
  <2>4. FreshId(d)'
    <3> SUFFICES ASSUME at[d] # "idle"
                 PROVE  /\ started[d] \in 1..ops'
                        /\ \A r \in movements : r.op # started[d]
                        /\ \A e \in Clients : started'[e] = started[d] => e = d
      BY <2>1 DEF FreshId
    <3>1. /\ started[d] \in 1..ops
          /\ \A r \in movements : r.op # started[d]
          /\ \A e \in Clients : started[e] = started[d] => e = d
      BY DEF FreshId
    <3>2. started'[c] # started[d]
      BY <1>2, <1>6, <3>1
    <3>3. QED BY <1>2, <3>1, <3>2
  <2>5. QED BY <2>2, <2>3, <2>4
<1>7. QED BY <1>1, <1>4, <1>5, <1>6

\* Whatever ends without a commit leaves the ledger as it was.
LEMMA EndedKeeps ==
    ASSUME InventoryInvariant, NEW c \in Clients, Ended(c), UNCHANGED ledger
    PROVE  InventoryInvariant'
<1> USE InventoryAssumption DEF InventoryInvariant
<1>1. UNCHANGED <<movements, events, ops>> /\ ops \in Nat
  BY DEF ledger, Ended, AppliedAndAnnouncedOnce, InventoryTypeOK
<1>2. /\ at'[c] = "idle" /\ req'[c] = NoRequest /\ started'[c] = 0
      /\ place'[c] = 1 /\ wrote'[c] = {}
      /\ \A d \in Clients \ {c} :
           /\ at'[d] = at[d] /\ req'[d] = req[d] /\ started'[d] = started[d]
           /\ place'[d] = place[d] /\ wrote'[d] = wrote[d]
  BY DEF Ended, AppliedAndAnnouncedOnce, InventoryTypeOK, ClientsOK
<1>3. InventoryTypeOK'
  BY <1>1, <1>2 DEF Ended, AppliedAndAnnouncedOnce, InventoryTypeOK, Statements
<1>4. ClientsOK'
  BY DEF Ended, ClientsOK
<1>5. (ClientShape(c) /\ FreshId(c) /\ OwnRows(c) /\ TransferRows(c))'
  BY <1>2 DEF ClientShape, FreshId, OwnRows, TransferRows, NoRequest
<1>6. QED BY <1>1, <1>2, <1>3, <1>4, <1>5, ClientStepKeeps

\* A request begins under a time stamp of its own.
LEMMA BeginKeeps ==
    ASSUME InventoryInvariant, NEW c \in Clients, NEW r \in Requests, Begin(c, r)
    PROVE  InventoryInvariant'
<1> USE InventoryAssumption DEF InventoryInvariant
<1>1. /\ UNCHANGED <<movements, events, wrote, place, seen>>
      /\ ops \in Nat /\ ops < MaxOps /\ ops' = ops + 1 /\ at[c] = "idle"
      /\ wrote[c] = {} /\ started[c] = 0
  BY DEF Begin, ledger, AppliedAndAnnouncedOnce, InventoryTypeOK
<1>2. /\ at'[c] = "check" /\ req'[c] = r /\ started'[c] = ops + 1
      /\ \A d \in Clients \ {c} :
           at'[d] = at[d] /\ req'[d] = req[d] /\ started'[d] = started[d]
  BY DEF Begin, AppliedAndAnnouncedOnce, InventoryTypeOK, ClientsOK
<1>3. InventoryTypeOK'
  BY <1>1, <1>2 DEF Begin, AppliedAndAnnouncedOnce, InventoryTypeOK, Statements
<1>4. ClientsOK'
  BY <1>1 DEF Begin, ClientsOK
<1>5. place[c] = 1
  BY <1>1 DEF ClientShape
<1>6. ClientShape(c)'
  BY <1>1, <1>2, <1>5, RequestLegs DEF ClientShape
<1>7. FreshId(c)'
  <2>1. \A q \in movements : q.op # ops + 1
    BY <1>1 DEF CommittedIds, AppliedAndAnnouncedOnce, InventoryTypeOK, MovementRow
  <2>2. \A d \in Clients \ {c} : started[d] # ops + 1
    BY <1>1 DEF FreshId, AppliedAndAnnouncedOnce, InventoryTypeOK
  <2>3. QED BY <1>1, <1>2, <2>1, <2>2 DEF FreshId
<1>8. OwnRows(c)'
  BY <1>1 DEF OwnRows
<1>9. TransferRows(c)'
  BY <1>1, <1>2 DEF TransferRows, LegsPast
<1>10. QED
  BY <1>1, <1>2, <1>3, <1>4, <1>6, <1>7, <1>8, <1>9, ClientStepKeeps

\* A statement that writes no movement.
LEMMA MoveKeeps ==
    ASSUME InventoryInvariant, NEW c \in Clients, at[c] # "idle",
           NEW a \in Statements \ {"idle"}, NEW n \in 1..Len(req[c].legs),
           UNCHANGED <<movements, events, ops, req, started, wrote>>,
           at' = [at EXCEPT ![c] = a], place' = [place EXCEPT ![c] = n],
           seen' \in [Clients -> -NumericMax..NumericMax],
           a = "sum" => req[c].op = "count",
           OwnRows(c)', TransferRows(c)'
    PROVE  InventoryInvariant'
<1> USE InventoryAssumption DEF InventoryInvariant
<1>1. req[c] \in Requests /\ n \in Nat /\ ops \in Nat
  BY DEF ClientShape, AppliedAndAnnouncedOnce, InventoryTypeOK
<1>2. /\ at'[c] = a /\ place'[c] = n
      /\ \A d \in Clients \ {c} : at'[d] = at[d] /\ place'[d] = place[d]
  BY DEF AppliedAndAnnouncedOnce, InventoryTypeOK, ClientsOK
<1>3. InventoryTypeOK'
  BY <1>2 DEF AppliedAndAnnouncedOnce, InventoryTypeOK
<1>4. ClientsOK'
  BY <1>1 DEF ClientsOK
<1>5. ClientShape(c)'
  BY <1>1, <1>2 DEF ClientShape
<1>6. FreshId(c)'
  BY <1>2 DEF FreshId
<1>7. ops' >= ops /\ started'[c] = started[c] /\ wrote'[c] \ wrote[c] = {}
  BY <1>1
<1>8. QED BY <1>2, <1>3, <1>4, <1>5, <1>6, <1>7, ClientStepKeeps

\* The place of the next statement.
LEMMA Place ==
    ASSUME InventoryInvariant, NEW c \in Clients, at[c] # "idle"
    PROVE  /\ req[c] \in Requests /\ place[c] \in 1..Len(req[c].legs)
           /\ Len(req[c].legs) \in Nat \ {0} /\ place[c] \in Nat
           /\ Current(c) \in Legs
           /\ LastLeg(c) <=> place[c] = Len(req[c].legs)
           /\ ~LastLeg(c) => place[c] + 1 \in 1..Len(req[c].legs)
<1>1. req[c] \in Requests /\ place[c] \in 1..Len(req[c].legs)
  BY DEF InventoryInvariant, ClientShape
<1>2. /\ Len(req[c].legs) \in Nat \ {0}
      /\ \A i \in 1..Len(req[c].legs) : req[c].legs[i] \in Legs
  BY <1>1, RequestLegs
<1>3. QED BY <1>1, <1>2 DEF Current, LastLeg

\* The unit check of a leg.
LEMMA CheckKeeps ==
    ASSUME InventoryInvariant, NEW c \in Clients, AssertUnitMatchesEstablished(c)
    PROVE  InventoryInvariant'
<1> USE DEF InventoryInvariant
<1>1. at[c] = "check" /\ UNCHANGED <<movements, events, ops, req, started, wrote, seen>>
  BY DEF AssertUnitMatchesEstablished, ledger
<1> DEFINE more == req[c].op # "job" /\ ~LastLeg(c)
           n == CASE more -> place[c] + 1
                  [] req[c].op = "job" -> place[c]
                  [] OTHER -> 1
           a == CASE more -> "check"
                  [] req[c].op = "count" -> "sum"
                  [] OTHER -> "insert"
<1>2. at' = [at EXCEPT ![c] = a] /\ place' = [place EXCEPT ![c] = n]
  BY DEF AssertUnitMatchesEstablished, ClientsOK
<1>3. /\ a \in Statements \ {"idle"} /\ n \in 1..Len(req[c].legs)
      /\ a = "sum" => req[c].op = "count"
  BY <1>1, Place DEF Statements
<1>4. req[c].op # "job" => wrote[c] = {}
  BY <1>1 DEF OwnRows
<1>5. req[c].op = "job" => a = "insert" /\ n = place[c]
  OBVIOUS
<1> HIDE DEF n, a
<1>6. at'[c] = a /\ place'[c] = n
  BY <1>2 DEF AppliedAndAnnouncedOnce, InventoryTypeOK, ClientsOK
<1>7. OwnRows(c)'
  BY <1>1, <1>4, <1>5, <1>6 DEF OwnRows
<1>8. TransferRows(c)'
  <2> SUFFICES ASSUME req[c].op = "transfer"
               PROVE  LegsPast(c)' = {} /\ wrote[c] = {}
    BY <1>1 DEF TransferRows
  <2>1. a = "check" \/ (a = "insert" /\ n = 1)
    BY DEF a, n
  <2>2. 1..(1 - 1) = {}
    OBVIOUS
  <2>3. QED BY <1>4, <1>6, <2>1, <2>2 DEF LegsPast
<1>9. seen' \in [Clients -> -NumericMax..NumericMax]
  BY <1>1 DEF ClientsOK
<1>10. QED BY <1>1, <1>2, <1>3, <1>7, <1>8, <1>9, MoveKeeps

\* The on-hand read of a count.
LEMMA ReadKeeps ==
    ASSUME InventoryInvariant, NEW c \in Clients, ReadDerivedOnHand(c)
    PROVE  InventoryInvariant'
<1> USE DEF InventoryInvariant
<1> DEFINE a == IF Variance[<<Current(c).qty, OnHandOfLeg(c)>>] = 0
                THEN "commit" ELSE "insert"
<1>1. /\ at[c] = "sum" /\ req[c].op = "count" /\ wrote[c] = {}
      /\ UNCHANGED <<movements, events, ops, req, started, wrote, place>>
  BY DEF ReadDerivedOnHand, ledger, ClientShape, OwnRows
<1>2. seen' \in [Clients -> -NumericMax..NumericMax]
  BY InventoryAssumption DEF ReadDerivedOnHand, CountFits, InRange, ClientsOK
<1>3. at' = [at EXCEPT ![c] = a] /\ a \in Statements \ {"idle"} /\ a # "sum"
  BY DEF ReadDerivedOnHand, Statements
<1>4. place' = [place EXCEPT ![c] = place[c]] /\ place[c] \in 1..Len(req[c].legs)
  BY <1>1, Place DEF ClientsOK
<1>5. OwnRows(c)'
  BY <1>1 DEF OwnRows
<1>6. TransferRows(c)'
  BY <1>1 DEF TransferRows
<1> HIDE DEF a
<1>7. QED BY <1>1, <1>2, <1>3, <1>4, <1>5, <1>6, MoveKeeps

\* The probe for a negative balance.
LEMMA FlagKeeps ==
    ASSUME InventoryInvariant, NEW c \in Clients, FlagIfNegativeOnHand(c)
    PROVE  InventoryInvariant'
<1> USE DEF InventoryInvariant
<1>1. PICK a \in {"doomed", "commit"} : at' = [at EXCEPT ![c] = a]
  BY DEF FlagIfNegativeOnHand
<1>2. /\ at[c] = "emit"
      /\ UNCHANGED <<movements, events, ops, req, started, wrote, place, seen>>
  BY DEF FlagIfNegativeOnHand, ledger
<1>3. place' = [place EXCEPT ![c] = place[c]] /\ place[c] \in 1..Len(req[c].legs)
  BY <1>2, Place DEF ClientsOK
<1>4. at'[c] = a
  BY <1>1 DEF AppliedAndAnnouncedOnce, InventoryTypeOK
<1>5. OwnRows(c)'
  BY <1>2, <1>4 DEF OwnRows
<1>6. TransferRows(c)'
  <2>1. LegsPast(c) = {1, 2} /\ LegsPast(c)' = {1, 2}
    BY <1>2, <1>4 DEF LegsPast
  <2>2. \A i : TransferLeg(c, i)' = TransferLeg(c, i)
    BY <1>2 DEF TransferLeg
  <2>3. QED BY <1>2, <2>1, <2>2 DEF TransferRows
<1>7. seen' \in [Clients -> -NumericMax..NumericMax] /\ a \in Statements \ {"idle"} /\ a # "sum"
  BY <1>2 DEF ClientsOK, Statements
<1>8. QED BY <1>1, <1>2, <1>3, <1>5, <1>6, <1>7, MoveKeeps

\* Where a client is after an INSERT.
LEMMA AfterInsert ==
    ASSUME InventoryInvariant, NEW c \in Clients, at[c] = "insert", NextLeg(c)
    PROVE  /\ UNCHANGED <<movements, events, ops, req, started, seen>>
           /\ \E a \in {"check", "insert", "emit"}, n \in 1..Len(req[c].legs) :
                /\ at' = [at EXCEPT ![c] = a] /\ place' = [place EXCEPT ![c] = n]
                /\ IF LastLeg(c) THEN a = "emit" /\ n = place[c]
                   ELSE /\ n = place[c] + 1
                        /\ a = IF req[c].op = "job" THEN "check" ELSE "insert"
<1> DEFINE n == IF LastLeg(c) THEN place[c] ELSE place[c] + 1
           a == IF LastLeg(c) THEN "emit"
                ELSE IF req[c].op = "job" THEN "check" ELSE "insert"
<1>1. n \in 1..Len(req[c].legs)
  BY Place
<1>2. at' = [at EXCEPT ![c] = a] /\ place' = [place EXCEPT ![c] = n]
  BY DEF NextLeg
<1>3. UNCHANGED <<movements, events, ops, req, started, seen>>
  BY DEF NextLeg, ledger
<1>4. QED BY <1>1, <1>2, <1>3

\* An INSERT that finds its pair applied; a transfer's legs have no pair.
LEMMA DeduplicateKeeps ==
    ASSUME InventoryInvariant, NEW c \in Clients, InsertDeduplicates(c)
    PROVE  InventoryInvariant'
<1> USE DEF InventoryInvariant
<1>1. at[c] = "insert" /\ NextLeg(c) /\ UNCHANGED wrote /\ Duplicate(c)
  BY DEF InsertDeduplicates, MayInsert
<1>2. PICK a \in {"check", "insert", "emit"}, n \in 1..Len(req[c].legs) :
        /\ at' = [at EXCEPT ![c] = a] /\ place' = [place EXCEPT ![c] = n]
        /\ IF LastLeg(c) THEN a = "emit" /\ n = place[c]
           ELSE /\ n = place[c] + 1
                /\ a = IF req[c].op = "job" THEN "check" ELSE "insert"
  BY <1>1, AfterInsert
<1>3. UNCHANGED <<movements, events, ops, req, started, seen>>
  BY <1>1, AfterInsert
<1>4. at'[c] = a /\ place'[c] = n /\ place[c] \in Nat
  BY <1>1, <1>2, Place DEF AppliedAndAnnouncedOnce, InventoryTypeOK, ClientsOK
<1>5. \A r \in wrote[c] : r.leg \in Nat
  BY DEF AppliedAndAnnouncedOnce, InventoryTypeOK, MovementRow
<1>6. OwnRows(c)'
  BY <1>1, <1>2, <1>3, <1>4, <1>5 DEF OwnRows
<1>7. req[c].op # "transfer"
  <2>1. Current(c).ext # 0
    BY <1>1 DEF Duplicate, SamePair, NewRow
  <2>2. QED BY <1>1, <2>1, Place, TransferLegs DEF Current
<1>8. TransferRows(c)'
  BY <1>3, <1>7 DEF TransferRows
<1>9. seen' \in [Clients -> -NumericMax..NumericMax] /\ a \in Statements \ {"idle"} /\ a # "sum"
  BY <1>3 DEF ClientsOK, Statements
<1>10. QED BY <1>1, <1>2, <1>3, <1>6, <1>8, <1>9, MoveKeeps

\* A count has one leg, which has no provenance.
LEMMA CountLeg ==
    ASSUME NEW r \in Requests, r.op = "count"
    PROVE  /\ Len(r.legs) = 1 /\ r.legs[1].ext = 0
           /\ r.legs[1].qty \in Quantities \cup {0}
<1>1. r \in CountRequests
  BY DEF Requests, ManualRequests, TransferRequests, SaleRequests, RestockRequests,
     JobRequest
<1>2. PICK s \in StockStores, p \in Products, u \in Units, q \in Quantities \cup {0} :
        r = [op |-> "count", legs |-> <<Leg(s, p, u, q, "count_correction", 0)>>]
  BY <1>1 DEF CountRequests
<1> QED  BY <1>2 DEF Leg

\* Where an open count is.
LEMMA CountPlace ==
    ASSUME InventoryInvariant, NEW c \in Clients, at[c] # "idle", req[c].op = "count"
    PROVE  /\ place[c] = 1 /\ LastLeg(c) /\ Current(c) = req[c].legs[1]
           /\ Current(c).ext = 0 /\ Current(c).qty \in Quantities \cup {0}
<1>1. req[c] \in Requests /\ place[c] \in 1..Len(req[c].legs) /\ Current(c) \in Legs
  BY Place
<1>2. /\ Len(req[c].legs) = 1 /\ req[c].legs[1].ext = 0
      /\ req[c].legs[1].qty \in Quantities \cup {0}
  BY <1>1, CountLeg
<1> QED  BY <1>1, <1>2 DEF Current, LastLeg

\* What JavaScript makes of a difference is a number ...
LEMMA VarianceTyped ==
    \A q \in Quantities \cup {0}, n \in -NumericMax..NumericMax : Variance[<<q, n>>] \in Int
<1> TAKE q \in Quantities \cup {0}, n \in -NumericMax..NumericMax
<1> DEFINE A == Quantities \cup {0}
           B == -NumericMax..NumericMax
<1>1. Variance \in [A \X B -> Int] /\ q \in A /\ n \in B
  BY NumberAssumption
<1> HIDE DEF A, B
<1>2. \A w \in A \X B : Variance[w] \in Int
  BY <1>1
<1>3. <<q, n>> \in A \X B
  BY <1>1
<1> QED  BY <1>2, <1>3, Zenon

\* ... and the difference itself, where its numbers are exact.
LEMMA VarianceExact ==
    ASSUME NEW q \in Quantities \cup {0}, NEW n,
           q \in -ExactMax..ExactMax, n \in -ExactMax..ExactMax
    PROVE  q \in Int /\ n \in Int /\ Variance[<<q, n>>] = q - n
<1>1. q \in 0..ExactMax /\ n \in Int
  BY InventoryAssumption
<1>2. q \in (Quantities \cup {0}) \cap 0..ExactMax
  BY <1>1
<1> QED  BY <1>1, <1>2, NumberAssumption

\* The row that an INSERT writes.
LEMMA NewRowType ==
    ASSUME InventoryInvariant, NEW c \in Clients, at[c] = "insert"
    PROVE  /\ NewRow(c) \in MovementRow
           /\ NewRow(c).op = started[c] /\ NewRow(c).leg = place[c]
           /\ NewRow(c).group = IF req[c].op = "transfer" THEN started[c] ELSE 0
           /\ req[c].op = "transfer" => NewRow(c) = TransferLeg(c, place[c])
<1> USE InventoryAssumption DEF InventoryInvariant
<1>1. started[c] \in 1..MaxOps /\ started[c] \in Nat
  BY DEF FreshId, AppliedAndAnnouncedOnce, InventoryTypeOK
<1>2. Current(c) \in Legs /\ place[c] \in Nat /\ place[c] \in 1..Len(req[c].legs)
  BY Place
<1>3. Current(c).qty \in Int
      /\ req[c].op = "count" => Variance[<<Current(c).qty, seen[c]>>] \in Int
  <2>1. Current(c).qty \in Int /\ seen[c] \in -NumericMax..NumericMax
    BY <1>2 DEF Legs, ClientsOK
  <2>2. req[c].op = "count" => Current(c).qty \in Quantities \cup {0}
    BY CountPlace
  <2>3. \A q \in Quantities \cup {0}, n \in -NumericMax..NumericMax : Variance[<<q, n>>] \in Int
    BY VarianceTyped
  <2> QED  BY <2>1, <2>2, <2>3
<1>4. NewRow(c) \in MovementRow
  BY <1>1, <1>2, <1>3 DEF NewRow, MovementRow, Legs
<1>5. ASSUME req[c].op = "transfer" PROVE NewRow(c) = TransferLeg(c, place[c])
  <2>1. req[c] \in Requests
    BY Place
  <2>2. Len(req[c].legs) = 2 /\ req[c].legs[1].ext = 0 /\ req[c].legs[2].ext = 0
    BY <1>5, <2>1, TransferLegs
  <2>3. place[c] = 1 \/ place[c] = 2
    BY <1>2, <2>2
  <2>4. Current(c).ext = 0
    BY <2>2, <2>3 DEF Current
  <2>5. QED BY <1>5, <2>4 DEF NewRow, TransferLeg, Current
<1>6. QED BY <1>4, <1>5 DEF NewRow

\* An INSERT that the two constraints let through.
LEMMA InsertKeeps ==
    ASSUME InventoryInvariant, NEW c \in Clients, InsertMovementRow(c)
    PROVE  InventoryInvariant'
<1> USE DEF InventoryInvariant
<1>1. at[c] = "insert" /\ NextLeg(c) /\ wrote' = [wrote EXCEPT ![c] = @ \cup {NewRow(c)}]
  BY DEF InsertMovementRow, MayInsert
<1>2. PICK a \in {"check", "insert", "emit"}, n \in 1..Len(req[c].legs) :
        /\ at' = [at EXCEPT ![c] = a] /\ place' = [place EXCEPT ![c] = n]
        /\ IF LastLeg(c) THEN a = "emit" /\ n = place[c]
           ELSE /\ n = place[c] + 1
                /\ a = IF req[c].op = "job" THEN "check" ELSE "insert"
  BY <1>1, AfterInsert
<1>3. UNCHANGED <<movements, events, ops, req, started, seen>>
  BY <1>1, AfterInsert
<1>4. /\ at'[c] = a /\ place'[c] = n /\ place[c] \in Nat /\ n \in Nat
      /\ wrote'[c] = wrote[c] \cup {NewRow(c)}
      /\ \A d \in Clients \ {c} :
           at'[d] = at[d] /\ place'[d] = place[d] /\ wrote'[d] = wrote[d]
  BY <1>1, <1>2, Place DEF AppliedAndAnnouncedOnce, InventoryTypeOK, ClientsOK
<1>5. \A r \in wrote[c] : r.leg \in Nat /\ r.leg < place[c]
  BY <1>1 DEF AppliedAndAnnouncedOnce, InventoryTypeOK, MovementRow, OwnRows
<1>6. /\ NewRow(c) \in MovementRow
      /\ NewRow(c).op = started[c] /\ NewRow(c).leg = place[c]
      /\ NewRow(c).group = IF req[c].op = "transfer" THEN started[c] ELSE 0
      /\ req[c].op = "transfer" => NewRow(c) = TransferLeg(c, place[c])
  BY <1>1, NewRowType
<1>7. InventoryTypeOK'
  BY <1>1, <1>2, <1>3, <1>4, <1>6 DEF AppliedAndAnnouncedOnce, InventoryTypeOK, Statements
<1>8. ClientsOK'
  BY <1>2, <1>3, <1>4 DEF ClientsOK
<1>9. ClientShape(c)'
  BY <1>1, <1>2, <1>3, <1>4 DEF ClientShape
<1>10. FreshId(c)'
  BY <1>1, <1>3, <1>4 DEF FreshId
<1>11. \A r \in wrote'[c] \ wrote[c], q \in Written \cup wrote'[c] :
         ~UnitsClash(r, q) /\ ~UnitsClash(q, r) /\ (SamePair(r, q) => r = q)
  <2> DEFINE r == NewRow(c)
  <2>1. \A q \in Visible(c) : ~UnitsClash(r, q) /\ ~SamePair(r, q)
    BY DEF InsertMovementRow, Duplicate, Excluded
  <2>2. \A d \in Clients \ {c} : \A q \in wrote[d] : ~UnitsClash(r, q) /\ ~SamePair(r, q)
    BY DEF InsertMovementRow, MayInsert, WaitsFor
  <2>3. \A q \in Written : ~UnitsClash(r, q) /\ ~SamePair(r, q)
    BY <2>1, <2>2 DEF Written, Visible
  <2>4. \A q : UnitsClash(q, r) => UnitsClash(r, q)
    BY DEF UnitsClash
  <2>5. ~UnitsClash(r, r)
    BY DEF UnitsClash
  <2>6. Written \cup wrote'[c] = Written \cup {r}
    BY <1>4 DEF Written
  <2>7. wrote'[c] \ wrote[c] \subseteq {r}
    BY <1>4
  <2> HIDE DEF r
  <2>8. QED BY <2>3, <2>4, <2>5, <2>6, <2>7
<1> DEFINE new == NewRow(c)
<1> HIDE DEF new
<1>12. OwnRows(c)'
  <2>1. ASSUME NEW r \in wrote'[c]
        PROVE  /\ r.op = started[c]
               /\ r.group = IF req[c].op = "transfer" THEN started[c] ELSE 0
               /\ r.leg <= n
               /\ a \in {"check", "insert"} => r.leg < n
    <3>1. r.leg \in Nat /\ r.leg <= place[c]
      BY <1>4, <1>5, <1>6
    <3>2. r.op = started[c]
          /\ r.group = IF req[c].op = "transfer" THEN started[c] ELSE 0
      BY <1>4, <1>6 DEF OwnRows
    <3>3. QED BY <1>2, <1>4, <3>1, <3>2
  <2>2. \A r, q \in wrote'[c] : r.leg = q.leg => r = q
    BY <1>4, <1>5, <1>6 DEF OwnRows
  <2>3. a # "sum" /\ (a = "check" => req[c].op = "job")
    BY <1>2
  <2>4. QED BY <1>3, <1>4, <2>1, <2>2, <2>3 DEF OwnRows
<1>13. TransferRows(c)'
  <2> SUFFICES ASSUME req[c].op = "transfer"
               PROVE  wrote'[c] = {TransferLeg(c, i)' : i \in LegsPast(c)'}
    BY <1>3 DEF TransferRows
  <2>1. Len(req[c].legs) = 2 /\ place[c] \in 1..2 /\ (LastLeg(c) <=> place[c] = 2)
    BY <1>1, Place, TransferLegs
  <2>2. \A i : TransferLeg(c, i)' = TransferLeg(c, i)
    BY <1>3 DEF TransferLeg
  <2>3. wrote[c] = {TransferLeg(c, i) : i \in 1..(place[c] - 1)}
    BY <1>1 DEF TransferRows, LegsPast
  <2>4. LegsPast(c)' = 1..place[c]
    <3>1. CASE place[c] = 1
      <4>1. a = "insert" /\ n = 2
        BY <1>2, <2>1, <3>1
      <4>2. QED BY <1>4, <3>1, <4>1 DEF LegsPast
    <3>2. CASE place[c] = 2
      <4>1. a = "emit" /\ 1..2 = {1, 2}
        BY <1>2, <2>1, <3>2
      <4>2. QED BY <1>4, <3>2, <4>1 DEF LegsPast
    <3>3. QED BY <2>1, <3>1, <3>2
  <2>5. 1..place[c] = (1..(place[c] - 1)) \cup {place[c]}
    BY <2>1
  <2>6. QED BY <1>4, <1>6, <2>2, <2>3, <2>4, <2>5
<1>14. ops' >= ops /\ started'[c] = started[c]
  BY <1>3, InventoryAssumption DEF AppliedAndAnnouncedOnce, InventoryTypeOK
<1>15. QED
  BY <1>3, <1>4, <1>7, <1>8, <1>9, <1>10, <1>11, <1>12, <1>13, <1>14, ClientStepKeeps

-----------------------------------------------------------------------------
(* The commit.                                                              *)

\* A commit publishes rows whose ids nobody else has, and an event for each.
LEMMA CommitAnnounces ==
    ASSUME InventoryInvariant, NEW c \in Clients, Commit(c)
    PROVE  /\ \A r \in movements' : \E e \in events' : {f \in events' : RowId(r) \in f} = {e}
           /\ UNION events' = {RowId(r) : r \in movements'}
<1> USE DEF InventoryInvariant
<1> DEFINE Own == {RowId(r) : r \in wrote[c]}
           Old == {RowId(r) : r \in movements}
<1>1. at[c] = "commit" /\ movements' = movements \cup wrote[c]
      /\ events' = events \cup Announced(c)
  BY DEF Commit
<1>2. Own \cap Old = {}
  BY <1>1 DEF RowId, FreshId, OwnRows
<1>3. UNION events = Old
  BY DEF AppliedAndAnnouncedOnce
<1>4. UNION Announced(c) = Own /\ \A f \in Announced(c) : f \subseteq Own
  BY DEF Announced
<1>5. ASSUME NEW r \in wrote[c]
      PROVE  \E e \in Announced(c) : {f \in Announced(c) : RowId(r) \in f} = {e}
  <2>1. CASE req[c].op = "job"
    <3>1. Announced(c) = {{RowId(q)} : q \in wrote[c]}
      BY <1>5, <2>1 DEF Announced
    <3>2. {f \in Announced(c) : RowId(r) \in f} = {{RowId(r)}}
      BY <3>1
    <3>3. QED BY <1>5, <3>1, <3>2
  <2>2. CASE req[c].op # "job"
    <3>1. Announced(c) = {Own}
      BY <1>5, <2>2 DEF Announced
    <3>2. QED BY <1>5, <3>1
  <2>3. QED BY <2>1, <2>2
<1>6. ASSUME NEW r \in movements'
      PROVE  \E e \in events' : {f \in events' : RowId(r) \in f} = {e}
  <2>1. CASE r \in wrote[c]
    <3>1. PICK e \in Announced(c) : {f \in Announced(c) : RowId(r) \in f} = {e}
      BY <1>5, <2>1
    <3>2. \A f \in events : RowId(r) \notin f
      BY <1>2, <1>3, <2>1
    <3>3. {f \in events' : RowId(r) \in f} = {e}
      BY <1>1, <3>1, <3>2
    <3>4. QED BY <1>1, <3>3
  <2>2. CASE r \in movements
    <3>1. PICK e \in events : {f \in events : RowId(r) \in f} = {e}
      BY <2>2 DEF AppliedAndAnnouncedOnce
    <3>2. \A f \in Announced(c) : RowId(r) \notin f
      BY <1>2, <1>4, <2>2
    <3>3. {f \in events' : RowId(r) \in f} = {e}
      BY <1>1, <3>1, <3>2
    <3>4. QED BY <1>1, <3>3
  <2>3. QED BY <1>1, <1>6, <2>1, <2>2
<1>7. UNION events' = {RowId(r) : r \in movements'}
  <2>1. UNION events' = (UNION events) \cup (UNION Announced(c))
    BY <1>1
  <2>2. {RowId(r) : r \in movements'} = Old \cup Own
    BY <1>1
  <2>3. QED BY <1>3, <1>4, <2>1, <2>2
<1>8. QED BY <1>6, <1>7

\* A commit publishes a transfer with both legs, and no leg of another one.
LEMMA CommitBalances ==
    ASSUME InventoryInvariant, NEW c \in Clients, Commit(c)
    PROVE  TransfersBalance'
<1> USE DEF InventoryInvariant
<1>1. at[c] = "commit" /\ movements' = movements \cup wrote[c]
  BY DEF Commit
<1>2. started[c] # 0 /\ \A r \in movements : r.op # started[c] /\ r.group \in {0, r.op}
  BY <1>1 DEF FreshId, CommittedIds, AppliedAndAnnouncedOnce, InventoryTypeOK
<1>3. \A r \in wrote[c] : r.group = IF req[c].op = "transfer" THEN started[c] ELSE 0
  BY DEF OwnRows
<1> SUFFICES ASSUME NEW r \in movements', r.group # 0
             PROVE  \E q \in movements' :
                      /\ {y \in movements' : y.group = r.group} = {r, q}
                      /\ q.store # r.store /\ q.product = r.product
                      /\ q.unit = r.unit /\ q.qty = -r.qty
  BY DEF TransfersBalance
<1>4. CASE r \in movements
  <2>1. PICK q \in movements :
          /\ {y \in movements : y.group = r.group} = {r, q}
          /\ q.store # r.store /\ q.product = r.product
          /\ q.unit = r.unit /\ q.qty = -r.qty
    BY <1>4 DEF TransfersBalance
  <2>2. \A y \in wrote[c] : y.group # r.group
    BY <1>2, <1>3, <1>4
  <2>3. {y \in movements' : y.group = r.group} = {r, q}
    BY <1>1, <2>1, <2>2
  <2>4. QED BY <1>1, <2>1, <2>3
<1>5. CASE r \in wrote[c]
  <2>1. req[c].op = "transfer" /\ r.group = started[c]
    BY <1>3, <1>5
  <2> DEFINE out == TransferLeg(c, 1)
             in == TransferLeg(c, 2)
  <2>2. wrote[c] = {out, in}
    <3>1. LegsPast(c) = {1, 2}
      BY <1>1 DEF LegsPast
    <3>2. QED BY <2>1, <3>1 DEF TransferRows
  <2>3. {y \in movements' : y.group = r.group} = {out, in}
    BY <1>1, <1>2, <1>3, <2>1, <2>2
  <2>4. /\ out.store # in.store /\ out.product = in.product /\ out.unit = in.unit
        /\ out.qty = -in.qty /\ in.qty = -out.qty
    <3>1. req[c] \in Requests
      BY <1>1, Place
    <3>2. QED BY <2>1, <3>1, TransferLegs DEF TransferLeg
  <2> HIDE DEF out, in
  <2>5. out \in movements' /\ in \in movements'
    BY <1>1, <2>2
  <2>6. CASE r = out
    BY <2>3, <2>4, <2>5, <2>6
  <2>7. CASE r = in
    <3>1. {out, in} = {in, out}
      OBVIOUS
    <3>2. QED BY <2>3, <2>4, <2>5, <2>7, <3>1
  <2>8. QED BY <1>5, <2>2, <2>6, <2>7
<1>6. QED BY <1>1, <1>4, <1>5

\* A commit keeps the invariant.
LEMMA CommitKeeps ==
    ASSUME InventoryInvariant, NEW c \in Clients, Commit(c)
    PROVE  InventoryInvariant'
<1> USE InventoryAssumption DEF InventoryInvariant
<1>1. /\ at[c] = "commit" /\ movements' = movements \cup wrote[c] /\ Ended(c)
      /\ ops' = ops /\ ops \in Nat
  BY DEF Commit, Ended, AppliedAndAnnouncedOnce, InventoryTypeOK
<1>2. /\ at'[c] = "idle" /\ req'[c] = NoRequest /\ started'[c] = 0
      /\ place'[c] = 1 /\ wrote'[c] = {}
      /\ \A d \in Clients \ {c} :
           /\ at'[d] = at[d] /\ req'[d] = req[d] /\ started'[d] = started[d]
           /\ place'[d] = place[d] /\ wrote'[d] = wrote[d]
  BY <1>1 DEF Ended, AppliedAndAnnouncedOnce, InventoryTypeOK, ClientsOK
<1>3. InventoryTypeOK'
  BY <1>1, <1>2 DEF Ended, AppliedAndAnnouncedOnce, InventoryTypeOK, Statements
<1>4. ClientsOK'
  BY <1>1 DEF Ended, ClientsOK
<1>5. Written' \subseteq Written
  BY <1>1, <1>2 DEF Written
<1>6. NoCompetitors'
  BY <1>5 DEF NoCompetitors, UnitsClash, SamePair
<1>7. AppliedAndAnnouncedOnce'
  <2>1. \A r, q \in movements' : r.ext # 0 /\ r.ext = q.ext => r = q
    BY <1>6 DEF NoCompetitors, SamePair, Written
  <2>2. QED BY <1>3, <2>1, CommitAnnounces DEF AppliedAndAnnouncedOnce, RowId
<1>8. /\ started[c] \in 1..ops
      /\ \A r \in movements : r.op # started[c]
      /\ \A d \in Clients : started[d] = started[c] => d = c
  BY <1>1 DEF FreshId
<1>9. \A r \in wrote[c] : r.op = started[c] /\ r.group \in {0, r.op}
  BY DEF OwnRows
<1>10. CommittedIds'
  <2>1. \A r \in movements' : r.op <= ops' /\ r.group \in {0, r.op}
    BY <1>1, <1>8, <1>9 DEF CommittedIds
  <2>2. \A r, q \in movements' : RowId(r) = RowId(q) => r = q
    <3> SUFFICES ASSUME NEW r \in movements', NEW q \in movements', RowId(r) = RowId(q)
                 PROVE  r = q
      OBVIOUS
    <3>1. r.op = q.op /\ r.leg = q.leg
      BY DEF RowId
    <3>2. CASE r \in wrote[c]
      BY <1>1, <1>8, <1>9, <3>1, <3>2 DEF OwnRows
    <3>3. CASE r \in movements
      BY <1>1, <1>8, <1>9, <3>1, <3>3 DEF CommittedIds
    <3>4. QED BY <1>1, <3>2, <3>3
  <2>3. QED BY <2>1, <2>2 DEF CommittedIds, RowId
<1>11. (ClientShape(c) /\ FreshId(c) /\ OwnRows(c) /\ TransferRows(c))'
  BY <1>2 DEF ClientShape, FreshId, OwnRows, TransferRows, NoRequest
<1>12. ASSUME NEW d \in Clients, d # c
       PROVE  (ClientShape(d) /\ FreshId(d) /\ OwnRows(d) /\ TransferRows(d))'
  <2>1. /\ at'[d] = at[d] /\ req'[d] = req[d] /\ started'[d] = started[d]
        /\ place'[d] = place[d] /\ wrote'[d] = wrote[d]
    BY <1>2, <1>12
  <2>2. ClientShape(d)' /\ OwnRows(d)'
    BY <2>1 DEF ClientShape, OwnRows
  <2>3. TransferRows(d)'
    <3>1. LegsPast(d)' = LegsPast(d)
      BY <2>1 DEF LegsPast
    <3>2. \A i : TransferLeg(d, i)' = TransferLeg(d, i)
      BY <2>1 DEF TransferLeg
    <3>3. QED BY <2>1, <3>1, <3>2 DEF TransferRows
  <2>4. FreshId(d)'
    <3> SUFFICES ASSUME at[d] # "idle"
                 PROVE  /\ started[d] \in 1..ops'
                        /\ \A r \in movements' : r.op # started[d]
                        /\ \A e \in Clients : started'[e] = started[d] => e = d
      BY <2>1 DEF FreshId
    <3>1. /\ started[d] \in 1..ops
          /\ \A r \in movements : r.op # started[d]
          /\ \A e \in Clients : started[e] = started[d] => e = d
      BY DEF FreshId
    <3>2. started[c] # started[d] /\ started[d] # 0
      BY <1>8, <1>12, <3>1
    <3>3. QED BY <1>1, <1>2, <1>9, <3>1, <3>2
  <2>5. QED BY <2>2, <2>3, <2>4
<1>13. QED
  BY <1>4, <1>6, <1>7, <1>10, <1>11, <1>12, CommitBalances

-----------------------------------------------------------------------------
(* The invariant and the properties.                                        *)

\* The empty ledger satisfies the invariant.
LEMMA InitInventory == InventoryInit => InventoryInvariant
<1> SUFFICES ASSUME InventoryInit PROVE InventoryInvariant
  OBVIOUS
<1> USE InventoryAssumption DEF InventoryInit
<1>1. AppliedAndAnnouncedOnce
  BY DEF AppliedAndAnnouncedOnce, InventoryTypeOK, Statements
<1>2. ClientsOK /\ CommittedIds /\ TransfersBalance
  BY DEF ClientsOK, CommittedIds, TransfersBalance
<1>3. Written = {}
  BY DEF Written
<1>4. NoCompetitors
  BY <1>3 DEF NoCompetitors
<1>5. \A c \in Clients : ClientShape(c) /\ FreshId(c) /\ OwnRows(c) /\ TransferRows(c)
  BY DEF ClientShape, FreshId, OwnRows, TransferRows, NoRequest
<1>6. QED BY <1>1, <1>2, <1>4, <1>5 DEF InventoryInvariant

\* Stamping the sale, and nothing at all, leave all of it alone.
LEMMA IdleKeeps ==
    ASSUME InventoryInvariant,
           UNCHANGED <<movements, events, ops, req, started, at, place, wrote, seen>>
    PROVE  InventoryInvariant'
<1> USE DEF InventoryInvariant
<1>1. AppliedAndAnnouncedOnce' /\ TransfersBalance'
  BY DEF AppliedAndAnnouncedOnce, InventoryTypeOK, TransfersBalance, RowId
<1>2. ClientsOK' /\ CommittedIds'
  BY DEF ClientsOK, CommittedIds, RowId
<1>3. NoCompetitors'
  <2>1. Written' = Written
    BY DEF Written
  <2>2. QED BY <2>1 DEF NoCompetitors, UnitsClash, SamePair
<1>4. ASSUME NEW c \in Clients
      PROVE  (ClientShape(c) /\ FreshId(c) /\ OwnRows(c) /\ TransferRows(c))'
  <2>1. ClientShape(c)' /\ FreshId(c)' /\ OwnRows(c)'
    BY DEF ClientShape, FreshId, OwnRows
  <2>2. LegsPast(c)' = LegsPast(c) /\ \A i : TransferLeg(c, i)' = TransferLeg(c, i)
    BY DEF LegsPast, TransferLeg
  <2>3. QED BY <2>1, <2>2 DEF TransferRows
<1>5. QED BY <1>1, <1>2, <1>3, <1>4

\* Every step keeps the invariant.
LEMMA NextInventory == InventoryInvariant /\ [InventoryNext]_inventoryVars => InventoryInvariant'
<1> SUFFICES ASSUME InventoryInvariant, [InventoryNext]_inventoryVars PROVE InventoryInvariant'
  OBVIOUS
<1>1. CASE UNCHANGED inventoryVars \/ SaleProcessed
  BY <1>1, IdleKeeps DEF inventoryVars, SaleProcessed
<1>2. ASSUME NEW c \in Clients,
             \/ CreateStockMovement(c) \/ CreateStockTransfer(c) \/ RecordStockCount(c)
             \/ BackfillSaleLinkedOutbound(c) \/ BackfillRestockInbound(c)
             \/ ProcessBackfillJob(c)
      PROVE  InventoryInvariant'
  <2>1. \E r \in Requests : Begin(c, r)
    BY <1>2 DEF Requests, CreateStockMovement, CreateStockTransfer, RecordStockCount,
       BackfillSaleLinkedOutbound, BackfillRestockInbound, ProcessBackfillJob
  <2>2. QED BY <2>1, BeginKeeps
<1>3. ASSUME NEW c \in Clients,
             \/ CrossUnitError(c) \/ CountOverflows(c) \/ InsertFails(c)
             \/ DeadlockVictim(c) \/ CommitDoomed(c) \/ ConnectionLost(c)
      PROVE  InventoryInvariant'
  <2>1. Ended(c) /\ UNCHANGED ledger
    BY <1>3 DEF CrossUnitError, CountOverflows, InsertFails, DeadlockVictim,
       CommitDoomed, ConnectionLost, Abort, ledger
  <2>2. QED BY <2>1, EndedKeeps
<1>4. ASSUME NEW c \in Clients, Statement(c) PROVE InventoryInvariant'
  BY <1>3, <1>4, CheckKeeps, ReadKeeps, InsertKeeps, DeduplicateKeeps, FlagKeeps,
     CommitKeeps DEF Statement
<1>5. QED BY <1>1, <1>2, <1>3, <1>4 DEF InventoryNext

\* The inductive invariant holds in every reachable state.
THEOREM InventoryInvariantHolds == InventorySpec => []InventoryInvariant
<1>1. QED BY InitInventory, NextInventory, PTL DEF InventorySpec

\* The exclusion constraint makes good what the read-before-insert of
\* assertUnitMatchesEstablished cannot: one unit per product and store.
THEOREM OneUnitPerProductHolds == InventorySpec => []OneUnitPerProduct
<1>1. InventoryInvariant => OneUnitPerProduct
  BY DEF InventoryInvariant, NoCompetitors, UnitsClash, Written, OneUnitPerProduct
<1>2. QED BY <1>1, InventoryInvariantHolds, PTL

\* A transfer is on the books with both legs or not at all, and moves exactly
\* what it takes (createStockTransfer).
THEOREM TransfersBalanceHolds == InventorySpec => []TransfersBalance
<1>1. InventoryInvariant => TransfersBalance
  BY DEF InventoryInvariant
<1>2. QED BY <1>1, InventoryInvariantHolds, PTL

\* A sale line or a restock is applied once, and every movement is announced
\* by exactly one event, however requests and redelivered jobs overlap.
THEOREM AppliedAndAnnouncedOnceHolds == InventorySpec => []AppliedAndAnnouncedOnce
<1>1. InventoryInvariant => AppliedAndAnnouncedOnce
  BY DEF InventoryInvariant
<1>2. QED BY <1>1, InventoryInvariantHolds, PTL

-----------------------------------------------------------------------------
(* Counts.                                                                  *)

\* What is on hand is an integer.
LEMMA TotalTyped ==
    ASSUME NEW S, IsFiniteSet(S), S \subseteq MovementRow
    PROVE  Total(S) \in Int
<1> DEFINE f == [r \in S |-> r.qty]
<1>1. f \in [S -> Int]
  BY DEF MovementRow
<1>2. Total(S) = SumFunction(f)
  BY DEF Total
<1> HIDE DEF f
<1>3. PICK it : IsFold(f, SUBSET S, it) /\ SumFunction(f) = it[S]
  BY <1>1, SumFolds
<1>4. Integral(f, S)
  BY <1>1 DEF Integral
<1> QED  BY <1>2, <1>3, <1>4, FoldTyped

\* What is on hand grows by the quantity of a row that is added.
LEMMA TotalGrows ==
    ASSUME NEW S, IsFiniteSet(S), S \subseteq MovementRow,
           NEW x \in MovementRow, x \notin S
    PROVE  Total(S \cup {x}) = Total(S) + x.qty
<1> DEFINE f == [r \in S |-> r.qty]
           g == [r \in S \cup {x} |-> r.qty]
<1>1. f \in [S -> Int] /\ g \in [S \cup {x} -> Int]
  BY DEF MovementRow
<1>2. g[x] = x.qty /\ \A y \in S : g[y] = f[y]
  OBVIOUS
<1>3. Total(S) = SumFunction(f) /\ Total(S \cup {x}) = SumFunction(g)
  BY DEF Total
<1> HIDE DEF f, g
<1> QED  BY <1>1, <1>2, <1>3, SumGrows

\* The row that a count would write depends on its own state only.
LEMMA NewRowSame ==
    ASSUME NEW c \in Clients, req'[c] = req[c], started'[c] = started[c],
           place'[c] = place[c], seen'[c] = seen[c]
    PROVE  NewRow(c)' = NewRow(c) /\ Current(c)' = Current(c)
BY DEF NewRow, Current

\* A step of one client keeps what the others' counts have written.
LEMMA OthersCount ==
    ASSUME CountInvariant, NEW c \in Clients, IsFiniteSet(movements'),
           \A d \in Clients \ {c} :
             /\ at'[d] = at[d] /\ req'[d] = req[d] /\ started'[d] = started[d]
             /\ place'[d] = place[d] /\ wrote'[d] = wrote[d] /\ seen'[d] = seen[d],
           IsFiniteSet(wrote'[c]), CountRows(c)'
    PROVE  CountInvariant'
<1> SUFFICES ASSUME NEW d \in Clients  PROVE IsFiniteSet(wrote'[d]) /\ CountRows(d)'
  BY DEF CountInvariant
<1>1. CASE d = c
  BY <1>1
<1>2. CASE d # c
  <2>1. /\ at'[d] = at[d] /\ req'[d] = req[d] /\ started'[d] = started[d]
        /\ place'[d] = place[d] /\ wrote'[d] = wrote[d] /\ seen'[d] = seen[d]
    BY <1>2
  <2>2. IsFiniteSet(wrote[d]) /\ CountRows(d)
    BY DEF CountInvariant
  <2>3. NewRow(d)' = NewRow(d) /\ Current(d)' = Current(d)
    BY <2>1, NewRowSame
  <2> QED  BY <2>1, <2>2, <2>3 DEF CountRows
<1> QED  BY <1>1, <1>2

\* A transaction that ends, with or without a commit.
LEMMA EndedCounts ==
    ASSUME InventoryInvariant, CountInvariant, NEW c \in Clients, Ended(c),
           IsFiniteSet(movements')
    PROVE  CountInvariant'
<1>1. /\ req'[c] = NoRequest /\ wrote'[c] = {}
      /\ \A d \in Clients \ {c} :
           /\ at'[d] = at[d] /\ req'[d] = req[d] /\ started'[d] = started[d]
           /\ place'[d] = place[d] /\ wrote'[d] = wrote[d] /\ seen'[d] = seen[d]
  BY DEF Ended, InventoryInvariant, AppliedAndAnnouncedOnce, InventoryTypeOK, ClientsOK
<1>2. CountRows(c)' /\ IsFiniteSet(wrote'[c])
  BY <1>1, FS_EmptySet DEF CountRows, NoRequest
<1> QED  BY <1>1, <1>2, OthersCount

\* A request that begins.
LEMMA BeginCounts ==
    ASSUME InventoryInvariant, CountInvariant, NEW c \in Clients,
           NEW r \in Requests, Begin(c, r)
    PROVE  CountInvariant'
<1>1. /\ at'[c] = "check" /\ wrote[c] = {}
      /\ UNCHANGED <<movements, wrote, place, seen>>
      /\ \A d \in Clients \ {c} :
           at'[d] = at[d] /\ req'[d] = req[d] /\ started'[d] = started[d]
  BY DEF Begin, ledger, InventoryInvariant, AppliedAndAnnouncedOnce, InventoryTypeOK,
     ClientsOK
<1>2. CountRows(c)' /\ IsFiniteSet(wrote'[c]) /\ IsFiniteSet(movements')
  BY <1>1, FS_EmptySet DEF CountRows, CountInvariant
<1> QED  BY <1>1, <1>2, OthersCount

\* The unit check of a leg.
LEMMA CheckCounts ==
    ASSUME InventoryInvariant, CountInvariant, NEW c \in Clients,
           AssertUnitMatchesEstablished(c)
    PROVE  CountInvariant'
<1>1. /\ at[c] = "check" /\ UNCHANGED <<movements, req, started, wrote, seen>>
      /\ \A d \in Clients \ {c} : at'[d] = at[d] /\ place'[d] = place[d]
  BY DEF AssertUnitMatchesEstablished, ledger, InventoryInvariant,
     AppliedAndAnnouncedOnce, InventoryTypeOK, ClientsOK
<1>2. at'[c] \in {"check", "sum", "insert"}
  BY DEF AssertUnitMatchesEstablished, InventoryInvariant, AppliedAndAnnouncedOnce,
     InventoryTypeOK
<1>3. CountRows(c)
  BY DEF CountInvariant
<1>4. CountRows(c)'
  BY <1>1, <1>2, <1>3 DEF CountRows
<1> QED  BY <1>1, <1>4, OthersCount DEF CountInvariant

\* The on-hand read of a count: no variance, nothing to write.
LEMMA ReadCounts ==
    ASSUME InventoryInvariant, CountInvariant, NEW c \in Clients, ReadDerivedOnHand(c)
    PROVE  CountInvariant'
<1>1. /\ at[c] = "sum" /\ UNCHANGED <<movements, req, started, wrote, place>>
      /\ seen'[c] = OnHandOfLeg(c)
      /\ at'[c] = IF Variance[<<Current(c).qty, OnHandOfLeg(c)>>] = 0
                  THEN "commit" ELSE "insert"
      /\ \A d \in Clients \ {c} : at'[d] = at[d] /\ seen'[d] = seen[d]
  BY DEF ReadDerivedOnHand, ledger, InventoryInvariant, AppliedAndAnnouncedOnce,
     InventoryTypeOK, ClientsOK
<1>2. req[c].op = "count" /\ wrote[c] = {} /\ Current(c)' = Current(c)
  BY <1>1 DEF InventoryInvariant, ClientShape, OwnRows, Current
<1>3. CountRows(c)'
  BY <1>1, <1>2 DEF CountRows
<1> QED  BY <1>1, <1>3, OthersCount DEF CountInvariant

\* An INSERT writes the one row of a count.
LEMMA InsertCounts ==
    ASSUME InventoryInvariant, CountInvariant, NEW c \in Clients,
           InsertMovementRow(c) \/ InsertDeduplicates(c)
    PROVE  CountInvariant'
<1>1. at[c] = "insert" /\ NextLeg(c)
  BY DEF InsertMovementRow, InsertDeduplicates, MayInsert
<1>2. UNCHANGED <<movements, req, started, seen>>
  BY <1>1, AfterInsert
<1>3. /\ \A d \in Clients \ {c} :
           at'[d] = at[d] /\ place'[d] = place[d] /\ wrote'[d] = wrote[d]
      /\ wrote'[c] \in {wrote[c], wrote[c] \cup {NewRow(c)}}
      /\ LastLeg(c) => at'[c] = "emit" /\ place'[c] = place[c]
      /\ InsertMovementRow(c) => wrote'[c] = wrote[c] \cup {NewRow(c)}
  BY <1>1 DEF InsertMovementRow, InsertDeduplicates, NextLeg, InventoryInvariant,
     AppliedAndAnnouncedOnce, InventoryTypeOK, ClientsOK
<1>4. IsFiniteSet(movements') /\ IsFiniteSet(wrote'[c])
  <2>1. IsFiniteSet(movements) /\ IsFiniteSet(wrote[c])
    BY DEF CountInvariant
  <2>2. IsFiniteSet(wrote[c] \cup {NewRow(c)})
    BY <2>1, FS_AddElement
  <2> QED  BY <1>2, <1>3, <2>1, <2>2
<1>5. CountRows(c)'
  <2> SUFFICES ASSUME req[c].op = "count"
               PROVE  at'[c] = "emit" /\ wrote'[c] = {NewRow(c)'}
    BY <1>2 DEF CountRows
  <2>1. LastLeg(c) /\ Current(c).ext = 0
    BY <1>1, CountPlace
  <2>2. ~Duplicate(c)
    BY <2>1 DEF Duplicate, SamePair, NewRow
  <2>3. wrote[c] = {}
    BY <1>1 DEF CountInvariant, CountRows
  <2>4. wrote'[c] = {NewRow(c)}
    BY <1>3, <2>2, <2>3 DEF InsertDeduplicates
  <2>5. NewRow(c)' = NewRow(c)
    BY <1>2, <1>3, <2>1, NewRowSame
  <2> QED  BY <1>3, <2>1, <2>4, <2>5
<1> QED  BY <1>2, <1>3, <1>4, <1>5, OthersCount

\* The probe writes nothing, and a count has none.
LEMMA FlagCounts ==
    ASSUME InventoryInvariant, CountInvariant, NEW c \in Clients, FlagIfNegativeOnHand(c)
    PROVE  CountInvariant'
<1>1. /\ at[c] = "emit" /\ UNCHANGED <<movements, req, started, wrote, place, seen>>
      /\ at'[c] \in {"doomed", "commit"}
      /\ \A d \in Clients \ {c} : at'[d] = at[d]
  BY DEF FlagIfNegativeOnHand, ledger, InventoryInvariant, AppliedAndAnnouncedOnce,
     InventoryTypeOK
<1>2. NewRow(c)' = NewRow(c)
  BY <1>1, NewRowSame
<1>3. CountRows(c)'
  BY <1>1, <1>2 DEF CountRows, CountInvariant
<1> QED  BY <1>1, <1>3, OthersCount DEF CountInvariant

\* Every step keeps the invariant of counts.
LEMMA NextCounts ==
    InventoryInvariant /\ CountInvariant /\ [InventoryNext]_inventoryVars => CountInvariant'
<1> SUFFICES ASSUME InventoryInvariant, CountInvariant, [InventoryNext]_inventoryVars
             PROVE  CountInvariant'
  OBVIOUS
<1>1. CASE UNCHANGED inventoryVars \/ SaleProcessed
  <2>1. UNCHANGED <<movements, req, started, at, place, wrote, seen>>
    BY <1>1 DEF inventoryVars, SaleProcessed
  <2>2. \A c \in Clients : NewRow(c)' = NewRow(c) /\ Current(c)' = Current(c)
    BY <2>1, NewRowSame
  <2> QED  BY <2>1, <2>2 DEF CountInvariant, CountRows
<1>2. ASSUME NEW c \in Clients,
             \/ CreateStockMovement(c) \/ CreateStockTransfer(c) \/ RecordStockCount(c)
             \/ BackfillSaleLinkedOutbound(c) \/ BackfillRestockInbound(c)
             \/ ProcessBackfillJob(c)
      PROVE  CountInvariant'
  <2>1. \E r \in Requests : Begin(c, r)
    BY <1>2 DEF Requests, CreateStockMovement, CreateStockTransfer, RecordStockCount,
       BackfillSaleLinkedOutbound, BackfillRestockInbound, ProcessBackfillJob
  <2> QED  BY <2>1, BeginCounts
<1>3. ASSUME NEW c \in Clients,
             \/ CrossUnitError(c) \/ CountOverflows(c) \/ InsertFails(c)
             \/ DeadlockVictim(c) \/ CommitDoomed(c) \/ ConnectionLost(c)
      PROVE  CountInvariant'
  <2>1. Ended(c) /\ movements' = movements
    BY <1>3 DEF CrossUnitError, CountOverflows, InsertFails, DeadlockVictim,
       CommitDoomed, ConnectionLost, Abort, ledger
  <2> QED  BY <2>1, EndedCounts DEF CountInvariant
<1>4. ASSUME NEW c \in Clients, Commit(c)  PROVE CountInvariant'
  <2>1. Ended(c) /\ movements' = movements \cup wrote[c]
    BY <1>4 DEF Commit
  <2>2. IsFiniteSet(movements')
    BY <2>1, FS_Union DEF CountInvariant
  <2> QED  BY <2>1, <2>2, EndedCounts
<1>5. ASSUME NEW c \in Clients, Statement(c)  PROVE CountInvariant'
  BY <1>3, <1>4, <1>5, CheckCounts, ReadCounts, InsertCounts, FlagCounts DEF Statement
<1> QED  BY <1>1, <1>2, <1>3, <1>5 DEF InventoryNext

\* The invariant of counts holds in every reachable state.
THEOREM CountInvariantHolds == InventorySpec => []CountInvariant
<1>1. InventoryInit => CountInvariant
  BY FS_EmptySet DEF InventoryInit, CountInvariant, CountRows, NoRequest
<1> QED  BY <1>1, InventoryInvariantHolds, NextCounts, PTL DEF InventorySpec

\* Sums of integers may be regrouped.
LEMMA Reassociate ==
    \A m, n, k \in Int : /\ m + (n - k) = n + (m - k)
                         /\ n - k = 0 => m = n + (m - k)
OBVIOUS

\* On quantities that JavaScript computes exactly, a count that commits adds
\* what it counted less what it read.
LEMMA CommitCorrects ==
    ASSUME InventoryInvariant, CountInvariant, NEW c \in Clients, Commit(c),
           req[c].op = "count", ExactCount(c)
    PROVE  OnHand(movements', req[c].legs[1].store, req[c].legs[1].product)
             = req[c].legs[1].qty + RacedBy(c)
<1> DEFINE s == req[c].legs[1].store
           p == req[c].legs[1].product
           q == req[c].legs[1].qty
           row == NewRow(c)
           old == Of(movements, s, p)
<1>1. at[c] = "commit" /\ movements' = movements \cup wrote[c]
  BY DEF Commit
<1>2. Current(c) = req[c].legs[1] /\ q \in Int /\ seen[c] \in Int
      /\ Variance[<<q, seen[c]>>] = q - seen[c]
  <2>1. Current(c) = req[c].legs[1] /\ q \in Quantities \cup {0}
    BY <1>1, CountPlace
  <2>2. q \in -ExactMax..ExactMax /\ seen[c] \in -ExactMax..ExactMax
    BY DEF ExactCount
  <2> HIDE DEF q
  <2> QED  BY <2>1, <2>2, VarianceExact
<1>3. old \subseteq movements /\ IsFiniteSet(old) /\ movements \subseteq MovementRow
  <2>1. old \subseteq movements
    BY DEF Of
  <2> QED
    BY <2>1, FS_Subset DEF CountInvariant, InventoryInvariant, AppliedAndAnnouncedOnce,
       InventoryTypeOK
<1>4. Total(old) \in Int /\ RacedBy(c) = Total(old) - seen[c]
  BY <1>3, TotalTyped DEF RacedBy, OnHand
<1>5. SUFFICES Total(Of(movements', s, p)) = q + (Total(old) - seen[c])
  BY <1>4 DEF OnHand
<1>6. wrote[c] = {row} \/ (wrote[c] = {} /\ q - seen[c] = 0)
  BY <1>1, <1>2 DEF CountInvariant, CountRows
<1>7. CASE wrote[c] = {} /\ q - seen[c] = 0
  <2>1. Of(movements', s, p) = old
    BY <1>1, <1>7
  <2>2. Total(old) = q + (Total(old) - seen[c])
    BY <1>2, <1>4, <1>7, Reassociate
  <2> QED  BY <2>1, <2>2
<1>8. CASE wrote[c] = {row}
  <2>1. row.store = s /\ row.product = p /\ row.qty = q - seen[c] /\ row.op = started[c]
    BY <1>2 DEF NewRow
  <2>2. row \in MovementRow
    BY <1>8 DEF InventoryInvariant, AppliedAndAnnouncedOnce, InventoryTypeOK
  <2>3. row \notin movements
    BY <1>1, <2>1 DEF InventoryInvariant, FreshId
  <2>4. Of(movements', s, p) = old \cup {row}
    <3> HIDE DEF row
    <3> QED  BY <1>1, <1>8, <2>1 DEF Of
  <2> HIDE DEF row, old, s, p, q
  <2>5. Total(old \cup {row}) = Total(old) + row.qty
    BY <1>3, <2>2, <2>3, TotalGrows
  <2>6. Total(old) + (q - seen[c]) = q + (Total(old) - seen[c])
    BY <1>2, <1>4, Reassociate
  <2> QED  BY <2>1, <2>4, <2>5, <2>6
<1> QED  BY <1>6, <1>7, <1>8

\* A count corrects by what it saw: it leaves the counted quantity and what the
\* movements that raced it have brought (recordStockCount), and so settles
\* exactly when they bring nothing.
THEOREM CountKeepsRacersHolds == InventorySpec => CountKeepsRacers
<1> DEFINE Keeps(c) ==
      OnHand(movements', req[c].legs[1].store, req[c].legs[1].product)
        = req[c].legs[1].qty + RacedBy(c)
<1>1. ASSUME InventoryInvariant, CountInvariant, [InventoryNext]_inventoryVars,
             NEW c \in Clients, CountCommits(c), ExactCount(c)
      PROVE  Keeps(c)
  <2>1. PICK x \in counts' \ counts : x.op = started[c]
    BY <1>1 DEF CountCommits
  <2>2. PICK d \in Clients : Commit(d)
    BY <1>1, <2>1 DEF InventoryNext, inventoryVars, SaleProcessed, Statement, Begin,
       CreateStockMovement, CreateStockTransfer, RecordStockCount,
       BackfillSaleLinkedOutbound, BackfillRestockInbound, ProcessBackfillJob,
       AssertUnitMatchesEstablished, CrossUnitError, ReadDerivedOnHand, CountOverflows,
       InsertMovementRow, InsertDeduplicates, InsertFails, DeadlockVictim,
       FlagIfNegativeOnHand, CommitDoomed, ConnectionLost, Abort, NextLeg, ledger
  <2>3. x.op = started[d] /\ at[d] = "commit"
    BY <2>1, <2>2 DEF Commit
  <2>4. d = c
    BY <1>1, <2>1, <2>3 DEF InventoryInvariant, FreshId
  <2>5. req[c].op = "count"
    BY <1>1 DEF CountCommits
  <2> QED  BY <1>1, <2>2, <2>4, <2>5, CommitCorrects
<1>2. InventoryInvariant /\ CountInvariant /\ [InventoryNext]_inventoryVars =>
        [\A c \in Clients : CountCommits(c) /\ ExactCount(c) => Keeps(c)]_inventoryVars
  BY <1>1
<1> QED
  BY <1>2, InventoryInvariantHolds, CountInvariantHolds, PTL
  DEF InventorySpec, CountKeepsRacers

-----------------------------------------------------------------------------
(* The balance sheet.                                                        *)

\* The three columns of the balance sheet are integers, and so are their sums.
MoneyTyped ==
    /\ owed \in [1 .. MaxRefs -> Int] /\ SumFunction(owed) \in Int
    /\ Accounted \in [1 .. MaxRefs -> Int] /\ SumFunction(Accounted) \in Int
    /\ Collected \in [1 .. MaxClaims -> Int] /\ SumFunction(Collected) \in Int

\* A step that adds to what is accounted for exactly what it adds to what is
\* owed, row by row, and collects nothing.
LEMMA RowsConserve ==
    ASSUME MaxRefs \in Nat, MoneyTyped, MoneyTyped', MoneyConserved,
           MoveAlike(owed, owed', Accounted, Accounted', MaxRefs),
           Collected' = Collected
    PROVE  MoneyConserved'
<1> DEFINE o == SumFunction(owed)
           a == SumFunction(Accounted)
           k == SumFunction(Collected)
           oo == SumFunction(owed')
           aa == SumFunction(Accounted')
<1>2. /\ owed \in [1 .. MaxRefs -> Int] /\ Accounted \in [1 .. MaxRefs -> Int]
      /\ owed' \in [1 .. MaxRefs -> Int] /\ Accounted' \in [1 .. MaxRefs -> Int]
      /\ o \in Int /\ a \in Int /\ k \in Int /\ oo \in Int /\ aa \in Int
  BY DEF MoneyTyped
<1>3. oo - o = aa - a
  BY SumsMoveAlike
<1>4. o = a + k
  BY DEF MoneyConserved
<1>5. SumFunction(Collected') = k
  OBVIOUS
<1>6. oo = aa + k
  <2> HIDE DEF o, a, k, oo, aa
  <2> QED  BY <1>2, <1>3, <1>4
<1> QED  BY <1>5, <1>6 DEF MoneyConserved

\* A remittance that lowers what is accounted for by the decrements of d and
\* enters as much in the result of its claim.
LEMMA RemittanceConserves ==
    ASSUME MaxRefs \in Nat, MaxClaims \in Nat, MoneyTyped, MoneyTyped', MoneyConserved,
           owed' = owed,
           NEW d \in [0 .. MaxRefs -> Int], MoveBy(Accounted, Accounted', d, MaxRefs),
           NEW c \in 1 .. MaxClaims, MoveAt(Collected, Collected', c, MaxClaims),
           Collected[c] = 0, Collected'[c] = d[0] - d[MaxRefs]
    PROVE  MoneyConserved'
<1> DEFINE o == SumFunction(owed)
           a == SumFunction(Accounted)
           k == SumFunction(Collected)
           aa == SumFunction(Accounted')
           kk == SumFunction(Collected')
           last == d[MaxRefs]
           first == d[0]
<1>2. /\ Accounted \in [1 .. MaxRefs -> Int] /\ Accounted' \in [1 .. MaxRefs -> Int]
      /\ Collected \in [1 .. MaxClaims -> Int] /\ Collected' \in [1 .. MaxClaims -> Int]
      /\ o \in Int /\ a \in Int /\ k \in Int /\ aa \in Int /\ kk \in Int
      /\ last \in Int /\ first \in Int
  BY DEF MoneyTyped
<1>3. aa - a = last - first
  BY <1>2, SumMoves
<1>4. kk - k = Collected'[c] - Collected[c]
  BY <1>2, SumUpdates
<1>5. o = a + k
  BY DEF MoneyConserved
<1>6. Collected'[c] - Collected[c] = first - last
  BY <1>2
<1>7. o = aa + kk
  <2>1. kk - k = first - last
    BY <1>4, <1>6
  <2> HIDE DEF o, a, k, aa, kk, last, first
  <2> QED  BY <1>2, <1>3, <1>5, <2>1
<1> QED  BY <1>7 DEF MoneyConserved

-----------------------------------------------------------------------------
(* Transactions and rows.                                                    *)

USE SettlementAssumption DEF Refs, ClaimRefs, NoStore

\* Rows that are not there have the type of rows; an idle transaction has the
\* type of transactions and has locked nothing.
LEMMA IdleTyped ==
    /\ Absent \in Rows
    /\ Absent.state = "none"
    /\ Idle.op = "idle" /\ Idle.refs = {}
    /\ Idle.read \in [Refs -> Rows]
    /\ \A r \in Refs : Idle.read[r] = Absent
    /\ Idle \in Operations
<1>1. Absent \in Rows /\ Absent.state = "none"
  BY DEF Absent, Rows
<1>2. Idle.read \in [Refs -> Rows] /\ \A r \in Refs : Idle.read[r] = Absent
  BY <1>1 DEF Idle
<1>3. QED
  BY <1>1, <1>2 DEF Idle, Operations

\* The initial state satisfies the invariant.
LEMMA InitInvariant == Init => SettlementInvariant
<1> SUFFICES ASSUME Init PROVE SettlementInvariant
  OBVIOUS
<1>1. TypeOK
  BY IdleTyped DEF Init, TypeOK, NoClaim
<1>2. Opened = {}
  BY IdleTyped DEF Init, Opened
<1>3. \A t \in Txns : Locked(t) = {} /\ txn[t].refs = {} /\ txn[t].op = "idle"
  BY IdleTyped DEF Init, Locked
<1>4. LockDiscipline /\ OperationShape /\ SeenByVersion
  BY <1>2, <1>3 DEF LockDiscipline, OperationShape, SeenByVersion, Init
<1>5. ClaimShape /\ DebtInScope /\ StateMatchesBalance /\ ClaimedHasReason
  BY <1>2 DEF ClaimShape, DebtInScope, StateMatchesBalance, ClaimedHasReason, Init, NoClaim
<1>6. ClaimCoversOwnDebt /\ ClearedClaimStands
  BY DEF ClaimCoversOwnDebt, ClearedClaimStands, Init, NoClaim, TerminalStates
<1>7. QED
  BY <1>1, <1>4, <1>5, <1>6 DEF SettlementInvariant

-----------------------------------------------------------------------------
(* Steps that write no table *)

\* While the tables stand still, so does everything the invariant says of them.
LEMMA TablesStand ==
    ASSUME SettlementInvariant,
           UNCHANGED <<receivable, owed, paid, claim, result>>
    PROVE  /\ Opened' = Opened
           /\ ClaimShape' /\ DebtInScope' /\ StateMatchesBalance'
           /\ ClaimedHasReason' /\ ClaimCoversOwnDebt' /\ ClearedClaimStands'
<1>1. Opened' = Opened
  BY DEF Opened
<1>2. ClaimShape' /\ DebtInScope' /\ ClaimedHasReason'
  BY <1>1 DEF SettlementInvariant, ClaimShape, DebtInScope, ClaimedHasReason
<1>3. StateMatchesBalance'
  BY <1>1 DEF SettlementInvariant, StateMatchesBalance
<1>4. ClaimCoversOwnDebt' /\ ClearedClaimStands'
  BY DEF SettlementInvariant, ClaimCoversOwnDebt, ClearedClaimStands
<1>5. QED
  BY <1>1, <1>2, <1>3, <1>4

\* A transaction that becomes idle gives its locks back.
LEMMA BecomingIdle ==
    ASSUME TypeOK, NEW t \in Txns, txn' = [txn EXCEPT ![t] = Idle]
    PROVE  /\ txn'[t] = Idle /\ Locked(t)' = {}
           /\ \A u \in Txns \ {t} : txn'[u] = txn[u] /\ Locked(u)' = Locked(u)
           /\ txn' \in [Txns -> Operations]
<1>1. txn'[t] = Idle /\ \A u \in Txns \ {t} : txn'[u] = txn[u]
  BY DEF TypeOK
<1>2. Locked(t)' = {}
  BY <1>1, IdleTyped DEF Locked
<1>3. \A u \in Txns \ {t} : Locked(u)' = Locked(u)
  BY <1>1 DEF Locked
<1>4. QED
  BY <1>1, <1>2, <1>3, IdleTyped DEF TypeOK

\* Rolling back, or answering a conflict, keeps the invariant.
LEMMA ConflictKeeps ==
    ASSUME SettlementInvariant, NEW t \in Txns, Conflict(t)
    PROVE  SettlementInvariant'
<1> USE DEF Conflict
<1>t. TypeOK
  BY DEF SettlementInvariant
<1>1. Opened' = Opened /\ ClaimShape' /\ DebtInScope' /\ StateMatchesBalance'
      /\ ClaimedHasReason' /\ ClaimCoversOwnDebt' /\ ClearedClaimStands'
  BY TablesStand
<1>2. /\ txn'[t] = Idle /\ Locked(t)' = {}
      /\ \A u \in Txns \ {t} : txn'[u] = txn[u] /\ Locked(u)' = Locked(u)
      /\ TypeOK'
  BY <1>t, BecomingIdle DEF TypeOK
<1>3. txn'[t].op = "idle" /\ txn'[t].refs = {}
  BY <1>2, IdleTyped
<1>4. LockDiscipline'
  BY <1>1, <1>2, <1>3 DEF SettlementInvariant, LockDiscipline
<1>5. OperationShape'
  BY <1>2, <1>3 DEF SettlementInvariant, OperationShape
<1>6. SeenByVersion'
  BY <1>1, <1>2, <1>3 DEF SettlementInvariant, SeenByVersion
<1>7. QED
  BY <1>1, <1>2, <1>4, <1>5, <1>6 DEF SettlementInvariant


\* A rollback writes what a conflict writes.
LEMMA RollbackKeeps ==
    ASSUME SettlementInvariant, NEW t \in Txns, Rollback(t)
    PROVE  SettlementInvariant'
BY ConflictKeeps DEF Rollback, Conflict

\* Reading a receivable gives the console a version with its balance.
LEMMA GetOneKeeps ==
    ASSUME SettlementInvariant, NEW k \in Consoles, NEW r \in Refs, GetOne(k, r)
    PROVE  SettlementInvariant'
<1> USE DEF GetOne
<1>t. TypeOK
  BY DEF SettlementInvariant
<1>1. Opened' = Opened /\ ClaimShape' /\ DebtInScope' /\ StateMatchesBalance'
      /\ ClaimedHasReason' /\ ClaimCoversOwnDebt' /\ ClearedClaimStands'
  BY TablesStand
<1>2. receivable[r].version \in Nat /\ receivable[r].balance \in Nat
  BY <1>t DEF TypeOK, Rows
<1>3. TypeOK'
  BY <1>t, <1>2 DEF TypeOK
<1>4. \A t \in Txns : Locked(t)' = Locked(t)
  BY DEF Locked
<1>5. LockDiscipline' /\ OperationShape'
  BY <1>1, <1>4 DEF SettlementInvariant, LockDiscipline, OperationShape
<1>6. SeenByVersion'
  <2>1. /\ view'[k] = [ref |-> r, version |-> receivable[r].version,
                       balance |-> receivable[r].balance]
        /\ \A j \in Consoles \ {k} : view'[j] = view[j]
    BY <1>t DEF TypeOK
  <2>2. QED
    BY <2>1, <1>1, <1>2 DEF SettlementInvariant, SeenByVersion
<1>7. QED
  BY <1>1, <1>3, <1>5, <1>6 DEF SettlementInvariant

\* A transaction that starts has locked nothing yet: what the invariant asks of
\* it is what it carries from its start.
LEMMA StartKeeps ==
    ASSUME SettlementInvariant, NEW t \in Txns, NEW new,
           txn[t].op = "idle",
           new \in Operations, new.op # "idle",
           \A r \in Refs : new.read[r] = Absent,
           new.refs \subseteq Opened,
           new.op = "apply" => /\ new.amount > 0
                               /\ \E r \in Refs : new.refs = {r}
                               /\ \A r \in new.refs :
                                    /\ new.version <= receivable[r].version
                                    /\ new.version = receivable[r].version
                                         => new.seen = receivable[r].balance,
           new.op = "submit" => new.payer \in Payers /\ new.refs # {},
           new.op = "reconcile" =>
                 /\ new.claim \in ClaimRefs
                 /\ claim[new.claim].status = "submitted"
                 /\ claim[new.claim].lines = new.refs
                 /\ \A u \in Txns : ~(txn[u].op = "reconcile" /\ txn[u].claim = new.claim),
           txn' = [txn EXCEPT ![t] = new],
           UNCHANGED <<receivable, owed, paid, claim, result, view>>
    PROVE  SettlementInvariant'
<1>t. TypeOK
  BY DEF SettlementInvariant
<1>1. Opened' = Opened /\ ClaimShape' /\ DebtInScope' /\ StateMatchesBalance'
      /\ ClaimedHasReason' /\ ClaimCoversOwnDebt' /\ ClearedClaimStands'
  BY TablesStand
<1>2. txn'[t] = new /\ \A u \in Txns \ {t} : txn'[u] = txn[u]
  BY <1>t DEF TypeOK
<1>3. Locked(t)' = {} /\ \A u \in Txns \ {t} : Locked(u)' = Locked(u)
  BY <1>2, IdleTyped DEF Locked
<1>4. TypeOK'
  BY <1>t, <1>2 DEF TypeOK
<1>5. LockDiscipline'
  BY <1>1, <1>2, <1>3 DEF SettlementInvariant, LockDiscipline
<1>6. OperationShape'
  BY <1>2 DEF SettlementInvariant, OperationShape
<1>7. SeenByVersion'
  BY <1>1, <1>2 DEF SettlementInvariant, SeenByVersion
<1>8. QED
  BY <1>1, <1>4, <1>5, <1>6, <1>7 DEF SettlementInvariant

\* The three operations start as StartKeeps asks.
LEMMA ApplyStartKeeps ==
    ASSUME SettlementInvariant, NEW t \in Txns, NEW k \in Consoles,
           NEW amount \in Payments, ApplyStart(t, k, amount)
    PROVE  SettlementInvariant'
<1> DEFINE new == [Idle EXCEPT !.op = "apply", !.version = view[k].version,
                               !.seen = view[k].balance, !.amount = amount,
                               !.refs = {view[k].ref}]
<1>1. TypeOK /\ SeenByVersion
  BY DEF SettlementInvariant
<1>2. /\ new.op = "apply" /\ new.version = view[k].version /\ new.seen = view[k].balance
      /\ new.amount = amount /\ new.refs = {view[k].ref} /\ new.read = Idle.read
  BY DEF Idle
<1>3. /\ view[k].ref \in Refs /\ view[k].version \in Nat /\ view[k].balance \in Nat
      /\ amount \in Nat /\ amount > 0
  BY <1>1 DEF TypeOK, ApplyStart
<1>4. new \in Operations
  BY <1>3, IdleTyped DEF Idle, Operations
<1>5. view[k].ref \in Opened
  BY <1>1 DEF SeenByVersion, ApplyStart
<1>6. \A r \in new.refs : /\ new.version <= receivable[r].version
                          /\ new.version = receivable[r].version
                               => new.seen = receivable[r].balance
  BY <1>1, <1>2 DEF SeenByVersion, ApplyStart
<1>7. txn' = [txn EXCEPT ![t] = new] /\ txn[t].op = "idle"
      /\ UNCHANGED <<receivable, owed, paid, claim, result, view>>
  BY DEF ApplyStart
<1> HIDE DEF new
<1>8. QED
  BY <1>2, <1>3, <1>4, <1>5, <1>6, <1>7, IdleTyped, StartKeeps

\* A claim begins with nothing locked.
LEMMA SubmitStartKeeps ==
    ASSUME SettlementInvariant, NEW t \in Txns, NEW p \in Payers,
           NEW refs \in SUBSET Refs, SubmitStart(t, p, refs)
    PROVE  SettlementInvariant'
<1> DEFINE new == [Idle EXCEPT !.op = "submit", !.payer = p, !.refs = refs]
<1>1. /\ new.op = "submit" /\ new.payer = p /\ new.refs = refs /\ new.read = Idle.read
  BY DEF Idle
<1>2. new \in Operations
  BY IdleTyped DEF Idle, Operations
<1>3. txn' = [txn EXCEPT ![t] = new] /\ txn[t].op = "idle" /\ refs # {}
      /\ refs \subseteq Opened
      /\ UNCHANGED <<receivable, owed, paid, claim, result, view>>
  BY DEF SubmitStart
<1> HIDE DEF new
<1>4. QED
  BY <1>1, <1>2, <1>3, IdleTyped, StartKeeps

\* A reconciliation begins by taking the claim's row, which no other holds.
LEMMA ReconcileStartKeeps ==
    ASSUME SettlementInvariant, NEW t \in Txns, NEW c \in ClaimRefs,
           NEW amount \in Remittances, ReconcileStart(t, c, amount)
    PROVE  SettlementInvariant'
<1> DEFINE new == [Idle EXCEPT !.op = "reconcile", !.claim = c, !.amount = amount,
                               !.refs = claim[c].lines]
<1>1. /\ new.op = "reconcile" /\ new.claim = c /\ new.amount = amount
      /\ new.refs = claim[c].lines /\ new.read = Idle.read
  BY DEF Idle
<1>2. claim[c].lines \in SUBSET Refs /\ claim[c].lines \subseteq Opened
  BY DEF SettlementInvariant, TypeOK, ClaimShape
<1>3. new \in Operations
  BY <1>2, IdleTyped DEF Idle, Operations
<1>4. /\ txn' = [txn EXCEPT ![t] = new] /\ txn[t].op = "idle"
      /\ claim[c].status = "submitted"
      /\ \A u \in Txns : ~(txn[u].op = "reconcile" /\ txn[u].claim = c)
      /\ UNCHANGED <<receivable, owed, paid, claim, result, view>>
  BY DEF ReconcileStart
<1> HIDE DEF new
<1>5. QED
  BY <1>1, <1>2, <1>3, <1>4, IdleTyped, StartKeeps

\* A lock is granted on a free row, and shows the row as it is.
LEMMA LockRowKeeps ==
    ASSUME SettlementInvariant, NEW t \in Txns, NEW r \in Refs, LockRow(t, r)
    PROVE  SettlementInvariant'
<1> USE DEF LockRow
<1>t. TypeOK
  BY DEF SettlementInvariant
<1>1. Opened' = Opened /\ ClaimShape' /\ DebtInScope' /\ StateMatchesBalance'
      /\ ClaimedHasReason' /\ ClaimCoversOwnDebt' /\ ClearedClaimStands'
  BY TablesStand
<1> DEFINE read == [txn[t].read EXCEPT ![r] = receivable[r]]
<1>r. read \in [Refs -> Rows]
  BY <1>t DEF TypeOK, Operations
<1>2. /\ txn'[t] = [txn[t] EXCEPT !.read = read]
      /\ \A u \in Txns \ {t} : txn'[u] = txn[u]
  BY <1>t DEF TypeOK, Operations
<1>3. /\ txn'[t].op = txn[t].op /\ txn'[t].refs = txn[t].refs
      /\ txn'[t].amount = txn[t].amount /\ txn'[t].payer = txn[t].payer
      /\ txn'[t].claim = txn[t].claim /\ txn'[t].version = txn[t].version
      /\ txn'[t].seen = txn[t].seen
      /\ txn'[t].read = read /\ txn'[t] \in Operations
  <2>1. txn[t] \in Operations
    BY <1>t DEF TypeOK
  <2> HIDE DEF read, LockRow
  <2>2. QED
    BY <1>r, <1>2, <2>1 DEF Operations
<1>4r. read[r] = receivable[r] /\ \A q \in Refs \ {r} : read[q] = txn[t].read[q]
  BY <1>t DEF TypeOK, Operations
<1> HIDE DEF read
<1>4. r \in Opened
  BY DEF SettlementInvariant, LockDiscipline
<1>5. /\ Locked(t)' = Locked(t) \cup {r}
      /\ \A u \in Txns \ {t} : Locked(u)' = Locked(u)
  BY SMTT(30), <1>t, <1>2, <1>3, <1>4, <1>4r DEF Locked, Opened, TypeOK, Operations
<1>6. TypeOK'
  BY <1>t, <1>2, <1>3 DEF TypeOK
<1>7. LockDiscipline'
  <2>1. \A q \in Locked(t)' : txn'[t].read[q] = receivable'[q]
    BY <1>3, <1>4r, <1>5 DEF SettlementInvariant, LockDiscipline, Locked
  <2>2. \A u \in Txns : r \notin Locked(u)
    BY DEF Free
  <2>3. \A u \in Txns \ {t} : \A q \in Locked(u)' : txn'[u].read[q] = receivable'[q]
    BY <1>2, <1>5 DEF SettlementInvariant, LockDiscipline
  <2>4. \A u, v \in Txns : \A q \in Locked(u)' : q \in Locked(v)' => u = v
    BY <1>5, <2>2 DEF SettlementInvariant, LockDiscipline
  <2>5. QED
    BY <1>1, <1>2, <1>3, <1>5, <2>1, <2>3, <2>4 DEF SettlementInvariant, LockDiscipline
<1>8. OperationShape'
  BY <1>2, <1>3 DEF SettlementInvariant, OperationShape
<1>9. SeenByVersion'
  BY <1>1, <1>2, <1>3 DEF SettlementInvariant, SeenByVersion
<1>10. QED
  BY <1>1, <1>6, <1>7, <1>8, <1>9 DEF SettlementInvariant

-----------------------------------------------------------------------------
(* Steps that write *)

\* A transaction that writes only rows it holds, keeps their owner, moves the
\* version with the balance, and ends, disturbs nobody: other transactions hold
\* other rows.
LEMMA WriterDisturbsNobody ==
    ASSUME SettlementInvariant, NEW t \in Txns,
           AllLocked(t), txn' = [txn EXCEPT ![t] = Idle], view' = view,
           receivable' \in [Refs -> Rows],
           \A r \in Refs \ txn[t].refs : receivable'[r] = receivable[r],
           \A r \in txn[t].refs :
              /\ receivable'[r].state \in States
              /\ receivable'[r].payer = receivable[r].payer
              /\ receivable'[r].store = receivable[r].store
              /\ \/ receivable'[r] = receivable[r]
                 \/ receivable'[r].version > receivable[r].version
    PROVE  /\ Opened' = Opened
           /\ txn' \in [Txns -> Operations]
           /\ LockDiscipline' /\ SeenByVersion' /\ DebtInScope'
<1>t. TypeOK /\ LockDiscipline /\ SeenByVersion /\ DebtInScope
  BY DEF SettlementInvariant
<1>1. /\ txn'[t] = Idle /\ Locked(t)' = {}
      /\ \A u \in Txns \ {t} : txn'[u] = txn[u] /\ Locked(u)' = Locked(u)
      /\ txn' \in [Txns -> Operations]
  BY <1>t, BecomingIdle
<1>2. txn'[t].op = "idle" /\ txn'[t].refs = {}
  BY <1>1, IdleTyped
<1>3. txn[t].refs \subseteq Opened /\ txn[t].refs = Locked(t)
  BY <1>t DEF LockDiscipline, AllLocked
<1>4. Opened' = Opened
  BY <1>3 DEF Opened, States
<1>5. LockDiscipline'
  <2>1. \A u \in Txns \ {t} : \A r \in Locked(u) : r \notin txn[t].refs
    BY <1>t, <1>3 DEF LockDiscipline
  <2>2. \A u \in Txns \ {t} : \A r \in Locked(u) : receivable'[r] = receivable[r]
    BY <2>1 DEF Locked
  <2>3. QED
    BY <1>t, <1>1, <1>2, <1>4, <2>2 DEF LockDiscipline
<1>6. \A r \in Refs : /\ receivable[r].version \in Nat /\ receivable'[r].version \in Nat
                      /\ \/ receivable'[r] = receivable[r]
                         \/ receivable'[r].version > receivable[r].version
  BY <1>t DEF TypeOK, Rows
<1>7. SeenByVersion'
  <2>1. \A k \in Consoles : view[k].version \in Nat /\ view[k].ref \in Refs \cup {0}
    BY <1>t DEF TypeOK
  <2>2. \A u \in Txns : txn[u].version \in Nat /\ txn[u].refs \subseteq Refs
    BY <1>t DEF TypeOK, Operations
  <2>3. ASSUME NEW k \in Consoles, view'[k].ref # 0
        PROVE  /\ view'[k].ref \in Opened'
               /\ view'[k].version <= receivable'[view'[k].ref].version
               /\ view'[k].version = receivable'[view'[k].ref].version
                    => view'[k].balance = receivable'[view'[k].ref].balance
    <3>1. view[k].ref \in Refs /\ view[k].version \in Nat /\ view'[k] = view[k]
      BY <2>1, <2>3
    <3>2. /\ view[k].ref \in Opened
          /\ view[k].version <= receivable[view[k].ref].version
          /\ view[k].version = receivable[view[k].ref].version
               => view[k].balance = receivable[view[k].ref].balance
      BY <1>t, <2>3, <3>1 DEF SeenByVersion
    <3>3. CASE receivable'[view[k].ref] = receivable[view[k].ref]
      BY <1>4, <3>1, <3>2, <3>3
    <3>4. CASE receivable'[view[k].ref].version > receivable[view[k].ref].version
      BY <1>4, <1>6, <3>1, <3>2, <3>4
    <3>5. QED
      BY <1>6, <3>1, <3>3, <3>4
  <2>4. ASSUME NEW u \in Txns, NEW r \in txn'[u].refs, txn'[u].op = "apply"
        PROVE  /\ txn'[u].version <= receivable'[r].version
               /\ txn'[u].version = receivable'[r].version
                    => txn'[u].seen = receivable'[r].balance
    <3>1. u # t /\ txn'[u] = txn[u] /\ r \in Refs
      BY <1>1, <1>2, <2>2, <2>4
    <3>2. /\ txn[u].version <= receivable[r].version
          /\ txn[u].version = receivable[r].version
               => txn[u].seen = receivable[r].balance
      BY <1>t, <2>4, <3>1 DEF SeenByVersion
    <3>3. CASE receivable'[r] = receivable[r]
      BY <3>1, <3>2, <3>3
    <3>4. CASE receivable'[r].version > receivable[r].version
      BY <1>6, <2>2, <3>1, <3>2, <3>4
    <3>5. QED
      BY <1>6, <3>1, <3>3, <3>4
  <2>5. QED
    BY <2>3, <2>4 DEF SeenByVersion
<1>8. DebtInScope'
  BY <1>t, <1>4 DEF DebtInScope, Opened
<1>9. QED
  BY <1>1, <1>4, <1>5, <1>7, <1>8

\* What a payment that is not refused does: it finds the row as its console
\* saw it and moves ledger, balance, state and version together.
LEMMA ApplyEffect ==
    ASSUME SettlementInvariant, NEW t \in Txns, ApplyWrite(t), ~Conflict(t)
    PROVE  \E r \in Refs :
             /\ txn[t].op = "apply" /\ txn[t].refs = {r} /\ AllLocked(t)
             /\ r \in Opened
             /\ receivable[r].version = txn[t].version
             /\ receivable[r].version \in Nat
             /\ receivable[r].state \notin TerminalStates
             /\ txn[t].amount \in Nat /\ txn[t].amount > 0
             /\ receivable[r].balance \in Nat
             /\ txn[t].amount <= receivable[r].balance
             /\ receivable'[r].balance = receivable[r].balance - txn[t].amount
             /\ receivable'[r].state = IF receivable[r].balance - txn[t].amount = 0
                                      THEN "settled" ELSE "partially_applied"
             /\ receivable'[r].version = receivable[r].version + 1
             /\ receivable'[r].payer = receivable[r].payer
             /\ receivable'[r].store = receivable[r].store
             /\ \A q \in Refs \ {r} : receivable'[q] = receivable[q]
             /\ receivable' \in [Refs -> Rows]
             /\ paid' = [paid EXCEPT ![r] = @ + txn[t].amount]
             /\ txn' = [txn EXCEPT ![t] = Idle]
             /\ owed' = owed /\ claim' = claim /\ result' = result /\ view' = view
<1>t. TypeOK /\ LockDiscipline /\ OperationShape
  BY DEF SettlementInvariant
<1>1. PICK r \in Refs : txn[t].refs = {r}
  BY <1>t DEF OperationShape, ApplyWrite
<1> DEFINE row == txn[t].read[r]
           amount == txn[t].amount
<1>2. /\ ~ApplyConflicts(t, r)
      /\ receivable' =
           IF receivable[r].version = txn[t].version
           THEN [receivable EXCEPT ![r].balance = decideApplication(row.balance, amount).balance,
                                   ![r].state = decideApplication(row.balance, amount).state,
                                   ![r].version = @ + 1]
           ELSE receivable
  BY <1>1 DEF ApplyWrite
<1>3. /\ paid' = [paid EXCEPT ![r] = @ + amount]
      /\ txn' = [txn EXCEPT ![t] = Idle]
      /\ owed' = owed /\ claim' = claim /\ result' = result /\ view' = view
      /\ AllLocked(t) /\ txn[t].op = "apply"
  BY <1>1 DEF ApplyWrite
<1>4. /\ row = receivable[r] /\ r \in Opened
      /\ amount \in Nat /\ amount > 0
      /\ receivable[r].balance \in Nat /\ receivable[r].version \in Nat
      /\ receivable[r] \in Rows
  <2>1. Locked(t) = {r}
    BY <1>1, <1>3 DEF AllLocked
  <2>2. row = receivable[r] /\ r \in Opened
    BY <1>t, <1>1, <2>1 DEF LockDiscipline
  <2>3. amount \in Nat /\ amount > 0
    BY <1>t, <1>3 DEF OperationShape, TypeOK, Operations
  <2>4. receivable[r] \in Rows
    BY <1>t DEF TypeOK
  <2>5. QED
    BY <2>2, <2>3, <2>4 DEF Rows
<1>5. /\ receivable[r].version = txn[t].version
      /\ receivable[r].state \notin TerminalStates
      /\ amount <= receivable[r].balance
  BY <1>2, <1>4 DEF ApplyConflicts
<1> DEFINE left == receivable[r].balance - amount
           next == IF left = 0 THEN "settled" ELSE "partially_applied"
<1>6. /\ receivable' = [receivable EXCEPT ![r].balance = left, ![r].state = next,
                                         ![r].version = @ + 1]
      /\ left \in Nat /\ next \in States
  BY <1>2, <1>4, <1>5 DEF decideApplication, States
<1>7. /\ receivable'[r].balance = left /\ receivable'[r].state = next
      /\ receivable'[r].version = receivable[r].version + 1
      /\ receivable'[r].payer = receivable[r].payer
      /\ receivable'[r].store = receivable[r].store
      /\ \A q \in Refs \ {r} : receivable'[q] = receivable[q]
      /\ receivable' \in [Refs -> Rows]
  <2> HIDE DEF left, next
  <2>1. receivable \in [Refs -> Rows]
    BY <1>t DEF TypeOK
  <2>2. QED
    BY <1>4, <1>6, <2>1 DEF Rows
<1>8. QED
  BY <1>1, <1>3, <1>4, <1>5, <1>7

\* Cash application keeps the invariant.
LEMMA ApplyWriteKeeps ==
    ASSUME SettlementInvariant, NEW t \in Txns, ApplyWrite(t)
    PROVE  SettlementInvariant'
<1>t. /\ TypeOK /\ LockDiscipline /\ OperationShape /\ SeenByVersion /\ ClaimShape
      /\ StateMatchesBalance /\ ClaimedHasReason /\ ClaimCoversOwnDebt
      /\ ClearedClaimStands
  BY DEF SettlementInvariant
<1>1. CASE Conflict(t)
  BY <1>1, ConflictKeeps
<1>2. CASE ~Conflict(t)
  <2> DEFINE amount == txn[t].amount
  <2>1. PICK r \in Refs :
             /\ txn[t].op = "apply" /\ txn[t].refs = {r} /\ AllLocked(t)
             /\ r \in Opened
             /\ receivable[r].version = txn[t].version
             /\ receivable[r].version \in Nat
             /\ receivable[r].state \notin TerminalStates
             /\ amount \in Nat /\ amount > 0
             /\ receivable[r].balance \in Nat
             /\ amount <= receivable[r].balance
             /\ receivable'[r].balance = receivable[r].balance - amount
             /\ receivable'[r].state = IF receivable[r].balance - amount = 0
                                      THEN "settled" ELSE "partially_applied"
             /\ receivable'[r].version = receivable[r].version + 1
             /\ receivable'[r].payer = receivable[r].payer
             /\ receivable'[r].store = receivable[r].store
             /\ \A q \in Refs \ {r} : receivable'[q] = receivable[q]
             /\ receivable' \in [Refs -> Rows]
             /\ paid' = [paid EXCEPT ![r] = @ + amount]
             /\ txn' = [txn EXCEPT ![t] = Idle]
             /\ owed' = owed /\ claim' = claim /\ result' = result /\ view' = view
    BY <1>2, ApplyEffect
  <2> DEFINE left == receivable'[r].balance
             next == receivable'[r].state
  <2>2. /\ r \in Opened /\ amount \in Nat /\ amount > 0
        /\ receivable[r].version \in Nat
    BY <2>1
  <2>3. receivable[r].state \notin TerminalStates
    BY <2>1
  <2>4. /\ left \in Nat /\ next \in States
        /\ next = IF left = 0 THEN "settled" ELSE "partially_applied"
        /\ left < receivable[r].balance /\ receivable[r].balance \in Nat
    BY <2>1 DEF States
  <2>5. /\ receivable'[r].balance = left /\ receivable'[r].state = next
        /\ receivable'[r].version = receivable[r].version + 1
        /\ receivable'[r].payer = receivable[r].payer
        /\ receivable'[r].store = receivable[r].store
        /\ \A q \in Refs \ {r} : receivable'[q] = receivable[q]
        /\ receivable' \in [Refs -> Rows]
    BY <2>1
  <2>a. /\ txn' = [txn EXCEPT ![t] = Idle] /\ txn[t].refs = {r}
        /\ owed' = owed /\ claim' = claim /\ result' = result /\ view' = view
        /\ paid' = [paid EXCEPT ![r] = @ + amount]
        /\ AllLocked(t)
    BY <2>1
  <2>b. /\ next \in {"settled", "partially_applied"}
        /\ next = "partially_applied" => left \in 1 .. (owed[r] - 1)
        /\ next = "settled" => left = 0
        /\ left <= owed[r]
    <3>1. owed[r] \in Nat
      BY <1>t DEF TypeOK
    <3>2. receivable[r].balance <= owed[r]
      BY <1>t, <2>2 DEF StateMatchesBalance
    <3>3. QED
      BY <2>2, <2>4, <3>1, <3>2
  <2> HIDE DEF left, next, amount
  <2>c. receivable'[r].state \in States
    BY <2>4, <2>5
  <2>6. /\ Opened' = Opened /\ txn' \in [Txns -> Operations]
        /\ LockDiscipline' /\ SeenByVersion' /\ DebtInScope'
    <3>1. \A q \in Refs \ txn[t].refs : receivable'[q] = receivable[q]
      BY <2>a, <2>5
    <3>2. \A q \in txn[t].refs :
              /\ receivable'[q].state \in States
              /\ receivable'[q].payer = receivable[q].payer
              /\ receivable'[q].store = receivable[q].store
              /\ \/ receivable'[q] = receivable[q]
                 \/ receivable'[q].version > receivable[q].version
      BY <2>a, <2>2, <2>5, <2>c
    <3>3. receivable' \in [Refs -> Rows]
      BY <2>5
    <3>4. QED
      BY <2>a, <3>1, <3>2, <3>3, WriterDisturbsNobody
  <2>7. TypeOK'
    BY <1>t, <2>a, <2>2, <2>5, <2>6 DEF TypeOK
  <2>8. OperationShape'
    BY <1>t, <2>a, IdleTyped, BecomingIdle DEF OperationShape
  <2>9. ClaimShape'
    BY <1>t, <2>a, <2>6 DEF ClaimShape
  <2>10. StateMatchesBalance'
    <3>1. ASSUME NEW q \in Opened
          PROVE  /\ receivable'[q].state = "open" =>
                       receivable'[q].balance = owed[q] /\ receivable'[q].balance > 0
                 /\ receivable'[q].state = "partially_applied" =>
                       receivable'[q].balance \in 1 .. (owed[q] - 1)
                 /\ receivable'[q].state \in TerminalStates => receivable'[q].balance = 0
                 /\ receivable'[q].balance <= owed[q]
                 /\ receivable'[q].state = "claimed" /\ receivable'[q].balance = 0 =>
                       \E c \in ClaimRefs : q \in claim[c].lines /\ claim[c].outcome = "partial"
      <4>1. CASE q = r
        BY <4>1, <2>5, <2>b DEF TerminalStates
      <4>2. CASE q # r
        <5>1. receivable'[q] = receivable[q]
          BY <4>2, <2>5 DEF Opened
        <5>2. QED
          BY <5>1, <1>t DEF StateMatchesBalance
      <4>3. QED
        BY <4>1, <4>2
    <3>2. QED
      BY <2>a, <2>6, <3>1 DEF StateMatchesBalance
  <2>11. ClaimedHasReason'
    <3>1. ASSUME NEW q \in Opened, receivable'[q].state = "claimed"
          PROVE  receivable[q].state = "claimed"
      BY <3>1, <2>5, <2>b DEF Opened
    <3>2. QED
      BY <1>t, <2>a, <2>6, <3>1 DEF ClaimedHasReason
  <2>12. ClaimCoversOwnDebt'
    <3>1. \A q \in Refs : /\ receivable'[q].payer = receivable[q].payer
                           /\ receivable'[q].store = receivable[q].store
      BY <2>5
    <3>2. \A c \in ClaimRefs : claim[c].lines \subseteq Refs
      BY <1>t DEF TypeOK
    <3>3. QED
      BY <1>t, <2>a, <3>1, <3>2 DEF ClaimCoversOwnDebt
  <2>13. ClearedClaimStands'
    <3>1. \A c \in ClaimRefs : claim[c].outcome \in TerminalStates => r \notin claim[c].lines
      BY <1>t, <2>3 DEF ClearedClaimStands
    <3>2. \A c \in ClaimRefs : claim[c].lines \subseteq Refs
      BY <1>t DEF TypeOK
    <3>3. \A q \in Refs \ {r} : receivable'[q] = receivable[q]
      BY <2>5
    <3>4. QED
      BY <1>t, <2>a, <3>1, <3>2, <3>3 DEF ClearedClaimStands
  <2>14. QED
    BY <2>6, <2>7, <2>8, <2>9, <2>10, <2>11, <2>12, <2>13 DEF SettlementInvariant
<1>3. QED
  BY <1>1, <1>2

\* Opening adds rows beyond those that anything refers to.
LEMMA OpenFromIntentKeeps ==
    ASSUME SettlementInvariant, NEW s \in Stores, NEW sale \in Sales,
           NEW n \in 1 .. MaxPayers, NEW intent \in Intents(n),
           OpenFromIntent(s, sale, n, intent)
    PROVE  SettlementInvariant'
<1>t. /\ TypeOK /\ LockDiscipline /\ OperationShape /\ SeenByVersion /\ ClaimShape
      /\ DebtInScope /\ StateMatchesBalance /\ ClaimedHasReason /\ ClaimCoversOwnDebt
      /\ ClearedClaimStands
  BY DEF SettlementInvariant
<1>1. PICK first \in Refs :
        /\ Opened = 1 .. (first - 1)
        /\ first + n - 1 \in Refs
        /\ \A i \in 1 .. n : payerInScope(intent[i].payer, s)
        /\ receivable' = [r \in Refs |->
               IF r \in first .. (first + n - 1)
               THEN [state |-> "open", balance |-> intent[r - first + 1].owed,
                     version |-> 0, payer |-> intent[r - first + 1].payer,
                     store |-> s]
               ELSE receivable[r]]
        /\ owed' = [r \in Refs |-> IF r \in first .. (first + n - 1)
                                   THEN intent[r - first + 1].owed ELSE owed[r]]
        /\ UNCHANGED <<paid, claim, result, view, txn>>
  BY DEF OpenFromIntent
<1> DEFINE New == first .. (first + n - 1)
<1>2. New \subseteq Refs /\ \A r \in New : r \notin Opened
  BY <1>1
<1>3. \A i \in 1 .. n : /\ intent[i].payer \in Payers
                        /\ intent[i].owed \in Nat /\ intent[i].owed > 0
  <2>1. intent \in [1 .. n -> [payer : Payers, owed : OwedAmounts]]
    BY DEF Intents
  <2>2. \A i \in 1 .. n : intent[i].payer \in Payers /\ intent[i].owed \in OwedAmounts
    BY <2>1
  <2>3. \A m \in OwedAmounts : m \in Nat /\ m > 0
    OBVIOUS
  <2>4. QED
    BY <2>2, <2>3
<1>4. \A r \in New : r - first + 1 \in 1 .. n
  BY <1>1
<1>5. \A r \in New :
        /\ receivable'[r] = [state |-> "open", balance |-> intent[r - first + 1].owed,
                             version |-> 0, payer |-> intent[r - first + 1].payer,
                             store |-> s]
        /\ owed'[r] = intent[r - first + 1].owed
  BY <1>1, <1>2
<1>6. \A r \in Refs \ New : receivable'[r] = receivable[r] /\ owed'[r] = owed[r]
  BY <1>1
<1>7. paid' = paid /\ claim' = claim /\ result' = result /\ view' = view /\ txn' = txn
  BY <1>1
<1>8. \A r \in New : /\ receivable'[r].state = "open"
                     /\ receivable'[r].balance = owed'[r]
                     /\ owed'[r] \in Nat /\ owed'[r] > 0
                     /\ receivable'[r].payer \in Payers
                     /\ payerStore[receivable'[r].payer] \in {TenantWide, s}
                     /\ receivable'[r].store = s
                     /\ receivable'[r] \in Rows
  <2>1. ASSUME NEW r \in New
        PROVE  /\ receivable'[r].state = "open"
               /\ receivable'[r].balance = owed'[r]
               /\ owed'[r] \in Nat /\ owed'[r] > 0
               /\ receivable'[r].payer \in Payers
               /\ payerStore[receivable'[r].payer] \in {TenantWide, s}
               /\ receivable'[r].store = s
               /\ receivable'[r] \in Rows
    <3>1. PICK i \in 1 .. n : i = r - first + 1
      BY <1>4
    <3>2. /\ receivable'[r] = [state |-> "open", balance |-> intent[i].owed,
                               version |-> 0, payer |-> intent[i].payer, store |-> s]
          /\ owed'[r] = intent[i].owed
      BY <1>5, <3>1
    <3>3. payerInScope(intent[i].payer, s)
      BY <1>1
    <3>4. QED
      BY <1>3, <3>2, <3>3 DEF payerInScope, Rows, States
  <2>2. QED
    BY <2>1
<1>d. DOMAIN receivable' = Refs /\ receivable' = [r \in Refs |-> receivable'[r]]
      /\ owed' = [r \in Refs |-> owed'[r]]
  BY <1>1
<1> HIDE DEF New
<1>9. /\ Opened \subseteq Opened' /\ \A r \in Opened' : r \in New \/ r \in Opened
      /\ \A r \in Opened : r \in Refs \ New
  BY <1>2, <1>6, <1>8 DEF Opened
<1>10. TypeOK'
  <2>1. receivable' \in [Refs -> Rows]
    <3>1. \A r \in Refs : receivable'[r] \in Rows
      BY <1>t, <1>6, <1>8 DEF TypeOK
    <3>2. QED
      BY <1>d, <3>1
  <2>2. owed' \in [Refs -> Nat]
    <3>1. \A r \in Refs : owed'[r] \in Nat
      BY <1>t, <1>6, <1>8 DEF TypeOK
    <3>2. QED
      BY <1>d, <3>1
  <2>3. QED
    BY <1>t, <1>7, <2>1, <2>2 DEF TypeOK
<1>11. \A r \in Opened : receivable'[r] = receivable[r] /\ owed'[r] = owed[r]
  BY <1>6, <1>9
<1>12. \A u \in Txns : Locked(u)' = Locked(u)
  BY <1>7 DEF Locked
<1>13. LockDiscipline'
  BY <1>t, <1>7, <1>9, <1>11, <1>12 DEF LockDiscipline
<1>14. OperationShape'
  BY <1>t, <1>7 DEF OperationShape
<1>15. SeenByVersion'
  <2>1. \A u \in Txns : txn[u].refs \subseteq Opened
    BY <1>t DEF LockDiscipline
  <2>2. QED
    BY <1>t, <1>7, <1>9, <1>11, <2>1 DEF SeenByVersion
<1>16. ClaimShape'
  BY <1>t, <1>7, <1>9 DEF ClaimShape
<1>17. DebtInScope'
  BY <1>t, <1>8, <1>9, <1>11 DEF DebtInScope
<1>18. StateMatchesBalance'
  <2>1. ASSUME NEW r \in Opened'
        PROVE  /\ receivable'[r].state = "open" =>
                     receivable'[r].balance = owed'[r] /\ receivable'[r].balance > 0
               /\ receivable'[r].state = "partially_applied" =>
                     receivable'[r].balance \in 1 .. (owed'[r] - 1)
               /\ receivable'[r].state \in TerminalStates => receivable'[r].balance = 0
               /\ receivable'[r].balance <= owed'[r]
               /\ receivable'[r].state = "claimed" /\ receivable'[r].balance = 0 =>
                     \E c \in ClaimRefs : r \in claim[c].lines /\ claim[c].outcome = "partial"
    <3>1. CASE r \in New
      BY <1>8, <3>1 DEF TerminalStates
    <3>2. CASE r \in Opened
      <4>1. receivable'[r] = receivable[r] /\ owed'[r] = owed[r]
        BY <1>11, <3>2
      <4>2. QED
        BY <1>t, <3>2, <4>1 DEF StateMatchesBalance
    <3>3. QED
      BY <1>9, <3>1, <3>2
  <2>2. QED
    BY <1>7, <2>1 DEF StateMatchesBalance
<1>19. ClaimedHasReason'
  BY <1>t, <1>7, <1>8, <1>9, <1>11 DEF ClaimedHasReason
<1>20. ClaimCoversOwnDebt' /\ ClearedClaimStands'
  <2>1. \A c \in ClaimRefs : claim[c].lines \subseteq Opened
    BY <1>t DEF ClaimShape
  <2>2. QED
    BY <1>t, <1>7, <1>11, <2>1 DEF ClaimCoversOwnDebt, ClearedClaimStands
<1>21. QED
  BY <1>10, <1>13, <1>14, <1>15, <1>16, <1>17, <1>18, <1>19, <1>20 DEF SettlementInvariant

\* One column of a row written.
LEMMA ColumnWrites ==
    ASSUME NEW row \in Rows
    PROVE  /\ \A x \in States : [row EXCEPT !.state = x] \in Rows
           /\ \A x \in Nat : [row EXCEPT !.balance = x] \in Rows
           /\ \A x \in Nat : [row EXCEPT !.version = x] \in Rows
BY DEF Rows

\* A row that a claim covers keeps payer and store, and its version moves.
LEMMA SubmittedRow ==
    ASSUME NEW r \in Refs, receivable[r] \in Rows
    PROVE  /\ Submitted(r) \in Rows /\ Submitted(r).state = "claimed"
           /\ Submitted(r).balance = receivable[r].balance
           /\ Submitted(r).payer = receivable[r].payer
           /\ Submitted(r).store = receivable[r].store
           /\ Submitted(r).version > receivable[r].version
<1> DEFINE v == receivable[r].version
           a == [receivable[r] EXCEPT !.state = "claimed"]
<1>1. v + 1 \in Nat /\ v + 1 > v
  BY DEF Rows
<1>2. a \in Rows
  BY ColumnWrites DEF States
<1>3. Submitted(r) = [a EXCEPT !.version = v + 1]
  BY Zenon DEF Submitted
<1>4. [a EXCEPT !.version = v + 1] \in Rows
  <2> HIDE DEF a, v
  <2>1. QED
    BY <1>1, <1>2, ColumnWrites
<1>5. /\ Submitted(r).state = "claimed" /\ Submitted(r).balance = receivable[r].balance
      /\ Submitted(r).payer = receivable[r].payer
      /\ Submitted(r).store = receivable[r].store
      /\ Submitted(r).version = v + 1
  BY DEF Rows, Submitted
<1> HIDE DEF a
<1>6. QED
  BY <1>1, <1>3, <1>4, <1>5

\* So does a row that is cleared.
LEMMA ClearedRow ==
    ASSUME NEW r \in Refs, receivable[r] \in Rows, NEW outcome \in States
    PROVE  /\ Cleared(r, outcome) \in Rows /\ Cleared(r, outcome).state = outcome
           /\ Cleared(r, outcome).balance = 0
           /\ Cleared(r, outcome).payer = receivable[r].payer
           /\ Cleared(r, outcome).store = receivable[r].store
           /\ Cleared(r, outcome).version > receivable[r].version
<1> DEFINE v == receivable[r].version
           b == [receivable[r] EXCEPT !.balance = 0]
           a == [b EXCEPT !.state = outcome]
<1>1. v + 1 \in Nat /\ v + 1 > v
  BY DEF Rows
<1>b. b \in Rows
  BY ColumnWrites
<1>2. a \in Rows
  <2> HIDE DEF b
  <2>1. QED
    BY <1>b, ColumnWrites
<1>3. Cleared(r, outcome) = [a EXCEPT !.version = v + 1]
  BY Zenon DEF Cleared
<1>4. [a EXCEPT !.version = v + 1] \in Rows
  <2> HIDE DEF a, v
  <2>1. QED
    BY <1>1, <1>2, ColumnWrites
<1>5. /\ Cleared(r, outcome).state = outcome /\ Cleared(r, outcome).balance = 0
      /\ Cleared(r, outcome).payer = receivable[r].payer
      /\ Cleared(r, outcome).store = receivable[r].store
      /\ Cleared(r, outcome).version = v + 1
  BY DEF Rows, Cleared
<1> HIDE DEF a
<1>6. QED
  BY <1>1, <1>3, <1>4, <1>5

\* And a row that takes its share of a partial remittance.
LEMMA ReducedRow ==
    ASSUME NEW r \in Refs, receivable[r] \in Rows,
           NEW t \in Txns, NEW taken, taken > 0, txn[t].read[r].balance - taken \in Nat
    PROVE  /\ Reduced(t, r, taken) \in Rows /\ Reduced(t, r, taken).state = receivable[r].state
           /\ Reduced(t, r, taken).balance = txn[t].read[r].balance - taken
           /\ Reduced(t, r, taken).payer = receivable[r].payer
           /\ Reduced(t, r, taken).store = receivable[r].store
           /\ Reduced(t, r, taken).version > receivable[r].version
<1> DEFINE v == receivable[r].version
           a == [receivable[r] EXCEPT !.balance = txn[t].read[r].balance - taken]
<1>1. v + 1 \in Nat /\ v + 1 > v
  BY DEF Rows
<1>2. a \in Rows
  BY ColumnWrites
<1>3. Reduced(t, r, taken) = [a EXCEPT !.version = v + 1]
  BY Zenon DEF Reduced
<1>4. [a EXCEPT !.version = v + 1] \in Rows
  <2> HIDE DEF a, v
  <2>1. QED
    BY <1>1, <1>2, ColumnWrites
<1>5. /\ Reduced(t, r, taken).state = receivable[r].state /\ Reduced(t, r, taken).balance = txn[t].read[r].balance - taken
      /\ Reduced(t, r, taken).payer = receivable[r].payer
      /\ Reduced(t, r, taken).store = receivable[r].store
      /\ Reduced(t, r, taken).version = v + 1
  BY DEF Rows, Reduced
<1> HIDE DEF a
<1>6. QED
  BY <1>1, <1>3, <1>4, <1>5

\* Submitting a claim keeps the invariant: its id is fresh, and its lines had
\* something outstanding.
LEMMA SubmitWriteKeeps ==
    ASSUME SettlementInvariant, NEW t \in Txns, SubmitWrite(t)
    PROVE  SettlementInvariant'
<1>t. /\ TypeOK /\ LockDiscipline /\ OperationShape /\ SeenByVersion /\ ClaimShape
      /\ DebtInScope /\ StateMatchesBalance /\ ClaimedHasReason /\ ClaimCoversOwnDebt
      /\ ClearedClaimStands
  BY DEF SettlementInvariant
<1>1. CASE ~Claimable(t)
  BY <1>1, ConflictKeeps DEF SubmitWrite
<1>2. CASE Claimable(t)
  <2> DEFINE lines == txn[t].refs
  <2>1. PICK c \in ClaimRefs, s \in Stores :
            /\ {d \in ClaimRefs : claim[d].status = "none"} = c .. MaxClaims
            /\ \A r \in lines : txn[t].read[r].store = s
            /\ claim' = [claim EXCEPT ![c] =
                           [status |-> "submitted", payer |-> txn[t].payer,
                            store |-> s, lines |-> lines, outcome |-> "none"]]
    BY <1>2 DEF SubmitWrite
  <2>2. /\ receivable' = [r \in Refs |-> IF r \in lines THEN Submitted(r) ELSE receivable[r]]
        /\ txn' = [txn EXCEPT ![t] = Idle]
        /\ owed' = owed /\ paid' = paid /\ result' = result /\ view' = view
        /\ AllLocked(t) /\ txn[t].op = "submit"
    BY <1>2 DEF SubmitWrite
  <2>3. /\ lines \subseteq Opened /\ lines \subseteq Refs /\ lines # {}
        /\ txn[t].payer \in Payers
        /\ \A r \in lines : txn[t].read[r] = receivable[r]
    BY <1>t, <2>2 DEF LockDiscipline, OperationShape, AllLocked, Opened
  <2>4. \A r \in lines : /\ receivable[r].state \in ClaimableStates
                         /\ receivable[r].payer = txn[t].payer
                         /\ receivable[r].store = s
    BY <1>2, <2>1, <2>3 DEF Claimable
  <2>5. /\ claim[c].status = "none" /\ claim[c].lines = {}
        /\ claim[c].outcome = "none"
    <3>1. c \in c .. MaxClaims
      OBVIOUS
    <3>2. claim[c].status = "none"
      BY <2>1, <3>1
    <3>3. QED
      BY <1>t, <3>2 DEF ClaimShape
  <2>6. /\ claim'[c].status = "submitted" /\ claim'[c].payer = txn[t].payer
        /\ claim'[c].store = s /\ claim'[c].lines = lines /\ claim'[c].outcome = "none"
        /\ \A d \in ClaimRefs \ {c} : claim'[d] = claim[d]
    BY <1>t, <2>1 DEF TypeOK
  <2> HIDE DEF lines
  <2>7. /\ \A r \in Refs \ lines : receivable'[r] = receivable[r]
        /\ \A r \in lines : /\ receivable'[r].state = "claimed"
                             /\ receivable'[r].balance = receivable[r].balance
                             /\ receivable'[r].payer = receivable[r].payer
                             /\ receivable'[r].store = receivable[r].store
                             /\ receivable'[r].version > receivable[r].version
        /\ receivable' \in [Refs -> Rows]
    <3>1. \A r \in Refs : receivable[r] \in Rows
      BY <1>t DEF TypeOK
    <3>2. \A r \in lines : receivable'[r] = Submitted(r)
      BY <2>2, <2>3
    <3>4. ASSUME NEW r \in lines
          PROVE  /\ receivable'[r].state = "claimed"
                 /\ receivable'[r].balance = receivable[r].balance
                 /\ receivable'[r].payer = receivable[r].payer
                 /\ receivable'[r].store = receivable[r].store
                 /\ receivable'[r].version > receivable[r].version
                 /\ receivable'[r] \in Rows
      <4>1. r \in Refs /\ receivable[r] \in Rows /\ receivable'[r] = Submitted(r)
        BY <2>3, <3>1, <3>2
      <4>2. QED
        BY <4>1, SubmittedRow
    <3>5. \A r \in Refs \ lines : receivable'[r] = receivable[r]
      BY <2>2
    <3>6. receivable' \in [Refs -> Rows]
      <4>1. \A r \in Refs : receivable'[r] \in Rows
        BY <3>1, <3>4, <3>5
      <4>2. receivable' = [r \in Refs |-> receivable'[r]]
        BY <2>2
      <4>3. QED
        BY <4>1, <4>2
    <3>7. QED
      BY <3>4, <3>5, <3>6
  <2>8. /\ Opened' = Opened /\ txn' \in [Txns -> Operations]
        /\ LockDiscipline' /\ SeenByVersion' /\ DebtInScope'
    BY <2>2, <2>7, WriterDisturbsNobody DEF lines, States
  <2>9. TypeOK'
    <3>1. claim' \in [ClaimRefs -> [status : {"none", "submitted", "reconciled"},
                                    payer : Payers \cup {NoPayer},
                                    store : Stores \cup {NoStore},
                                    lines : SUBSET Refs,
                                    outcome : {"none", "settled", "partial", "flagged"}]]
      BY <1>t, <2>1, <2>3 DEF TypeOK, lines
    <3>2. QED
      BY <1>t, <2>2, <2>7, <2>8, <3>1 DEF TypeOK
  <2>10. OperationShape'
    <3>1. \A u \in Txns : txn[u].op = "reconcile" => txn[u].claim # c
      BY <1>t, <2>5 DEF OperationShape
    <3>2. /\ txn'[t].op = "idle"
          /\ \A u \in Txns \ {t} : txn'[u] = txn[u]
      BY <1>t, <2>2, IdleTyped, BecomingIdle
    <3>3. QED
      BY <1>t, <2>6, <3>1, <3>2 DEF OperationShape
  <2>11. ClaimShape'
    BY <1>t, <2>3, <2>6, <2>8 DEF ClaimShape
  <2>12. StateMatchesBalance'
    <3>1. ASSUME NEW r \in Opened
          PROVE  /\ receivable'[r].state = "open" =>
                       receivable'[r].balance = owed[r] /\ receivable'[r].balance > 0
                 /\ receivable'[r].state = "partially_applied" =>
                       receivable'[r].balance \in 1 .. (owed[r] - 1)
                 /\ receivable'[r].state \in TerminalStates => receivable'[r].balance = 0
                 /\ receivable'[r].balance <= owed[r]
                 /\ receivable'[r].state = "claimed" /\ receivable'[r].balance = 0 =>
                       \E d \in ClaimRefs : r \in claim'[d].lines /\ claim'[d].outcome = "partial"
      <4>1. CASE r \in lines
        <5>1. receivable[r].balance > 0 /\ receivable[r].balance <= owed[r]
          <6>1. receivable[r].state \in {"open", "partially_applied"}
            BY <2>4, <4>1 DEF ClaimableStates
          <6>2. QED
            BY <1>t, <6>1 DEF StateMatchesBalance
        <5>2. QED
          BY <2>7, <4>1, <5>1 DEF TerminalStates
      <4>2. CASE r \notin lines
        <5>1. receivable'[r] = receivable[r]
          BY <2>7, <4>2 DEF Opened
        <5>2. \A d \in ClaimRefs : r \in claim[d].lines => claim'[d] = claim[d]
          BY <2>5, <2>6
        <5>3. QED
          BY <1>t, <5>1, <5>2 DEF StateMatchesBalance
      <4>3. QED
        BY <4>1, <4>2
    <3>2. QED
      BY <2>2, <2>8, <3>1 DEF StateMatchesBalance
  <2>13. ClaimedHasReason'
    <3>1. \A d \in ClaimRefs : \A r \in claim[d].lines : claim'[d] = claim[d]
      BY <2>5, <2>6
    <3>2. \A r \in Opened \ lines : receivable'[r] = receivable[r]
      BY <2>7 DEF Opened
    <3>3. QED
      BY <1>t, <2>6, <2>8, <3>1, <3>2 DEF ClaimedHasReason
  <2>14. ClaimCoversOwnDebt'
    <3>1. payerStore[txn[t].payer] \in {TenantWide, s}
      BY <1>t, <2>3, <2>4 DEF DebtInScope
    <3>2. \A r \in Refs : /\ receivable'[r].payer = receivable[r].payer
                           /\ receivable'[r].store = receivable[r].store
      BY <2>7
    <3>3. \A d \in ClaimRefs : claim[d].lines \subseteq Refs
      BY <1>t DEF TypeOK
    <3>4. ASSUME NEW d \in ClaimRefs, claim'[d].status # "none"
          PROVE  /\ payerStore[claim'[d].payer] \in {TenantWide, claim'[d].store}
                 /\ \A r \in claim'[d].lines : /\ receivable'[r].payer = claim'[d].payer
                                               /\ receivable'[r].store = claim'[d].store
      <4>1. CASE d = c
        BY <2>3, <2>4, <2>6, <3>1, <3>2, <4>1
      <4>2. CASE d # c
        <5>1. claim'[d] = claim[d]
          BY <2>6, <4>2
        <5>2. QED
          BY <1>t, <3>2, <3>3, <3>4, <5>1 DEF ClaimCoversOwnDebt
      <4>3. QED
        BY <4>1, <4>2
    <3>5. QED
      BY <3>4 DEF ClaimCoversOwnDebt
  <2>15. ClearedClaimStands'
    <3>1. \A d \in ClaimRefs : claim[d].outcome \in TerminalStates =>
             \A r \in claim[d].lines : r \in Refs \ lines
      BY <1>t, <2>4 DEF ClearedClaimStands, TerminalStates, ClaimableStates, TypeOK
    <3>2. claim'[c].outcome \notin TerminalStates
      BY <2>6 DEF TerminalStates
    <3>3. \A r \in Refs \ lines : receivable'[r] = receivable[r]
      BY <2>7
    <3>4. QED
      BY <1>t, <2>6, <3>1, <3>2, <3>3 DEF ClearedClaimStands
  <2>16. QED
    BY <2>8, <2>9, <2>10, <2>11, <2>12, <2>13, <2>14, <2>15 DEF SettlementInvariant
<1>3. QED
  BY <1>1, <1>2

\* What a remittance does to the lines of its claim: all cleared with the
\* outcome, or each reduced by no more than it owes.
LEMMA RemitRows ==
    ASSUME SettlementInvariant, NEW t \in Txns, NEW outcome,
           AllLocked(t), Remit(t, outcome),
           \A r \in txn[t].refs : txn[t].read[r].state = "claimed"
    PROVE  /\ receivable' \in [Refs -> Rows]
           /\ \A r \in Refs \ txn[t].refs : receivable'[r] = receivable[r]
           /\ \A r \in txn[t].refs :
                /\ receivable[r].state = "claimed"
                /\ receivable'[r].state \in States
                /\ receivable'[r].payer = receivable[r].payer
                /\ receivable'[r].store = receivable[r].store
                /\ receivable'[r].balance <= receivable[r].balance
                /\ \/ receivable'[r] = receivable[r]
                   \/ receivable'[r].version > receivable[r].version
                /\ outcome \in TerminalStates =>
                     receivable'[r].state = outcome /\ receivable'[r].balance = 0
                /\ outcome = "partial" => receivable'[r].state = "claimed"
<1>1. /\ txn[t].refs \subseteq Refs
      /\ \A r \in txn[t].refs : txn[t].read[r] = receivable[r]
      /\ \A r \in Refs : receivable[r] \in Rows
  BY DEF SettlementInvariant, TypeOK, LockDiscipline, AllLocked, Opened
<1>2. \A r \in Refs : receivable[r].balance \in Nat /\ receivable[r].version \in Nat
  BY <1>1 DEF Rows
<1>3. outcome \in TerminalStates => outcome \in States /\ outcome # "partial"
  BY DEF TerminalStates, States
<1>4. CASE /\ outcome \in TerminalStates
           /\ receivable' = [r \in Refs |-> IF r \in txn[t].refs
                                            THEN Cleared(r, outcome)
                                            ELSE receivable[r]]
  <2>1. ASSUME NEW r \in txn[t].refs
        PROVE  /\ receivable'[r] \in Rows
               /\ receivable[r].state = "claimed"
               /\ receivable'[r].state = outcome
               /\ receivable'[r].payer = receivable[r].payer
               /\ receivable'[r].store = receivable[r].store
               /\ receivable'[r].balance = 0
               /\ receivable'[r].version > receivable[r].version
    <3>1. r \in Refs /\ receivable[r] \in Rows /\ receivable'[r] = Cleared(r, outcome)
      BY <1>1, <1>4
    <3>2. receivable[r].state = "claimed"
      BY <1>1
    <3>3. QED
      BY <1>3, <1>4, <3>1, <3>2, ClearedRow
  <2>2. \A r \in Refs \ txn[t].refs : receivable'[r] = receivable[r]
    BY <1>4
  <2>3. receivable' \in [Refs -> Rows]
    <3>1. \A r \in Refs : receivable'[r] \in Rows
      BY <1>1, <2>1, <2>2
    <3>2. receivable' = [r \in Refs |-> receivable'[r]]
      BY <1>4
    <3>3. QED
      BY <3>1, <3>2
  <2>4. \A r \in txn[t].refs : 0 <= receivable[r].balance
    BY <1>1, <1>2
  <2>5. QED
    BY <1>3, <1>4, <2>1, <2>2, <2>3, <2>4
<1>5. ASSUME outcome = "partial",
             NEW left \in [0 .. MaxRefs -> 0 .. txn[t].amount],
             Apportions(t, left),
             receivable' = [r \in Refs |-> IF r \in txn[t].refs
                                           THEN Reduced(t, r, left[r - 1] - left[r])
                                           ELSE receivable[r]]
      PROVE  /\ receivable' \in [Refs -> Rows]
             /\ \A r \in Refs \ txn[t].refs : receivable'[r] = receivable[r]
             /\ \A r \in txn[t].refs :
                  /\ receivable[r].state = "claimed"
                  /\ receivable'[r].state = "claimed"
                  /\ receivable'[r].payer = receivable[r].payer
                  /\ receivable'[r].store = receivable[r].store
                  /\ receivable'[r].balance <= receivable[r].balance
                  /\ \/ receivable'[r] = receivable[r]
                     \/ receivable'[r].version > receivable[r].version
  <2>1. ASSUME NEW r \in txn[t].refs
        PROVE  /\ receivable'[r] \in Rows
               /\ receivable[r].state = "claimed"
               /\ receivable'[r].state = "claimed"
               /\ receivable'[r].payer = receivable[r].payer
               /\ receivable'[r].store = receivable[r].store
               /\ receivable'[r].balance <= receivable[r].balance
               /\ \/ receivable'[r] = receivable[r]
                  \/ receivable'[r].version > receivable[r].version
    <3> DEFINE taken == left[r - 1] - left[r]
    <3>1. /\ r \in Refs /\ receivable[r] \in Rows /\ receivable[r].state = "claimed"
          /\ receivable'[r] = Reduced(t, r, taken) /\ txn[t].read[r] = receivable[r]
          /\ receivable[r].balance \in Nat
      BY <1>1, <1>2, <1>5
    <3>2. /\ txn[t].amount \in Nat
          /\ left[r - 1] \in Nat /\ left[r] \in Nat
      <4>1. txn[t].amount \in Nat
        BY DEF SettlementInvariant, TypeOK, Operations
      <4>2. r - 1 \in 0 .. MaxRefs /\ r \in 0 .. MaxRefs
        BY <3>1
      <4>3. QED
        BY <4>1, <4>2
    <3>3. left[r] = left[r - 1] - Taken(left[r - 1], receivable[r].balance)
      BY <1>5, <3>1 DEF Apportions
    <3>4. taken \in Int /\ receivable[r].balance - taken \in Nat
      <4>1. left[r - 1] - left[r] = Taken(left[r - 1], receivable[r].balance)
        <5> DEFINE x == Taken(left[r - 1], receivable[r].balance)
        <5>1. x \in Int
          BY <3>1, <3>2 DEF Taken
        <5> HIDE DEF x
        <5>2. QED
          BY <3>2, <3>3, <5>1 DEF x
      <4>2. QED
        BY <3>1, <3>2, <4>1 DEF Taken
    <3> HIDE DEF taken
    <3>5. CASE taken > 0
      <4>0. txn[t].read[r].balance - taken \in Nat
        BY <3>1, <3>4
      <4>r. /\ Reduced(t, r, taken) \in Rows
            /\ Reduced(t, r, taken).state = receivable[r].state
            /\ Reduced(t, r, taken).balance = txn[t].read[r].balance - taken
            /\ Reduced(t, r, taken).payer = receivable[r].payer
            /\ Reduced(t, r, taken).store = receivable[r].store
            /\ Reduced(t, r, taken).version > receivable[r].version
        BY <3>1, <3>5, <4>0, ReducedRow
      <4>1. Reduced(t, r, taken).balance <= receivable[r].balance
        BY <3>1, <3>4, <3>5, <4>r
      <4>2. QED
        BY <3>1, <4>1, <4>r
    <3>6. CASE ~(taken > 0)
      <4>1. receivable'[r] = receivable[r]
        BY <3>1, <3>6 DEF Reduced
      <4>2. QED
        BY <3>1, <4>1
    <3>7. QED
      BY <3>5, <3>6
  <2>2. \A r \in Refs \ txn[t].refs : receivable'[r] = receivable[r]
    BY <1>5
  <2>3. receivable' \in [Refs -> Rows]
    <3>1. \A r \in Refs : receivable'[r] \in Rows
      BY <1>1, <2>1, <2>2
    <3>2. receivable' = [r \in Refs |-> receivable'[r]]
      BY <1>5
    <3>3. QED
      BY <3>1, <3>2
  <2>4. QED
    BY <2>1, <2>2, <2>3
<1>6. QED
  <2>1. "claimed" \in States /\ "partial" \notin TerminalStates
    BY DEF States, TerminalStates
  <2>2. \/ /\ outcome \in TerminalStates
           /\ receivable' = [r \in Refs |-> IF r \in txn[t].refs
                                            THEN Cleared(r, outcome)
                                            ELSE receivable[r]]
        \/ /\ outcome = "partial"
           /\ \E left \in [0 .. MaxRefs -> 0 .. txn[t].amount] :
                /\ Apportions(t, left)
                /\ receivable' = [r \in Refs |-> IF r \in txn[t].refs
                                                 THEN Reduced(t, r, left[r - 1] - left[r])
                                                 ELSE receivable[r]]
    BY DEF Remit
  <2>3. QED
    BY <1>4, <1>5, <2>1, <2>2

\* Reconciling keeps the invariant: the claim is still submitted when its
\* result is written, and no cleared claim has a line in common with it.
LEMMA ReconcileWriteKeeps ==
    ASSUME SettlementInvariant, NEW t \in Txns, ReconcileWrite(t)
    PROVE  SettlementInvariant'
<1>t. /\ TypeOK /\ LockDiscipline /\ OperationShape /\ SeenByVersion /\ ClaimShape
      /\ DebtInScope /\ StateMatchesBalance /\ ClaimedHasReason /\ ClaimCoversOwnDebt
      /\ ClearedClaimStands
  BY DEF SettlementInvariant
<1>1. CASE Conflict(t)
  BY <1>1, ConflictKeeps
<1>2. CASE ~Conflict(t)
  <2> DEFINE lines == txn[t].refs
             c == txn[t].claim
             outcome == decideReconciliation(sumScaled(t), txn[t].amount)
  <2>1. /\ Remit(t, outcome)
        /\ claim' = [claim EXCEPT ![c].status = "reconciled", ![c].outcome = outcome]
        /\ result' = [result EXCEPT ![c] = [claimed |-> sumScaled(t),
                                           remitted |-> txn[t].amount]]
        /\ \A r \in lines : txn[t].read[r].state = "claimed"
        /\ txn' = [txn EXCEPT ![t] = Idle]
        /\ owed' = owed /\ paid' = paid /\ view' = view
        /\ AllLocked(t) /\ txn[t].op = "reconcile"
    BY <1>2 DEF ReconcileWrite
  <2>2. outcome \in {"settled", "partial", "flagged"}
    BY DEF decideReconciliation
  <2>3. /\ c \in ClaimRefs /\ claim[c].status = "submitted"
        /\ claim[c].lines = lines /\ claim[c].outcome = "none"
        /\ \A u \in Txns : txn[u].op = "reconcile" /\ txn[u].claim = c => u = t
    BY <1>t, <2>1 DEF OperationShape, ClaimShape
  <2>4. lines \subseteq Opened /\ lines \subseteq Refs
    BY <1>t DEF LockDiscipline, Opened
  <2> HIDE DEF lines, c, outcome
  <2>5. /\ receivable' \in [Refs -> Rows]
        /\ \A r \in Refs \ lines : receivable'[r] = receivable[r]
        /\ \A r \in lines :
             /\ receivable[r].state = "claimed"
             /\ receivable'[r].state \in States
             /\ receivable'[r].payer = receivable[r].payer
             /\ receivable'[r].store = receivable[r].store
             /\ receivable'[r].balance <= receivable[r].balance
             /\ \/ receivable'[r] = receivable[r]
                \/ receivable'[r].version > receivable[r].version
             /\ outcome \in TerminalStates =>
                  receivable'[r].state = outcome /\ receivable'[r].balance = 0
             /\ outcome = "partial" => receivable'[r].state = "claimed"
    BY <2>1, RemitRows DEF lines
  <2>6. /\ claim'[c].status = "reconciled" /\ claim'[c].outcome = outcome
        /\ claim'[c].payer = claim[c].payer /\ claim'[c].store = claim[c].store
        /\ claim'[c].lines = lines
        /\ \A d \in ClaimRefs \ {c} : claim'[d] = claim[d]
    BY <1>t, <2>1, <2>3 DEF TypeOK
  <2>7. /\ Opened' = Opened /\ txn' \in [Txns -> Operations]
        /\ LockDiscipline' /\ SeenByVersion' /\ DebtInScope'
    BY <2>1, <2>5, WriterDisturbsNobody DEF lines
  <2>8. TypeOK'
    <3>1. claim' \in [ClaimRefs -> [status : {"none", "submitted", "reconciled"},
                                    payer : Payers \cup {NoPayer},
                                    store : Stores \cup {NoStore},
                                    lines : SUBSET Refs,
                                    outcome : {"none", "settled", "partial", "flagged"}]]
      BY <1>t, <2>1, <2>2, <2>3 DEF TypeOK
    <3>2. DOMAIN result' = ClaimRefs
      BY <1>t, <2>1 DEF TypeOK
    <3>3. QED
      BY <1>t, <2>1, <2>5, <2>7, <3>1, <3>2 DEF TypeOK
  <2>9. OperationShape'
    <3>1. /\ txn'[t].op = "idle"
          /\ \A u \in Txns \ {t} : txn'[u] = txn[u]
      BY <1>t, <2>1, IdleTyped, BecomingIdle
    <3>2. \A u \in Txns \ {t} : txn[u].op = "reconcile" => txn[u].claim # c
      BY <2>3
    <3>3. QED
      BY <1>t, <2>6, <3>1, <3>2 DEF OperationShape
  <2>10. ClaimShape'
    BY <1>t, <2>4, <2>6, <2>7 DEF ClaimShape
  <2>11. \A d \in ClaimRefs : /\ claim'[d].lines = claim[d].lines
                              /\ claim'[d].payer = claim[d].payer
                              /\ claim'[d].store = claim[d].store
                              /\ claim[d].lines \subseteq Refs
                              /\ claim'[d].status = "none" => claim[d].status = "none"
                              /\ claim[d].outcome # "none" => claim'[d] = claim[d]
    BY <1>t, <2>3, <2>6 DEF TypeOK
  <2>12. StateMatchesBalance'
    <3>1. ASSUME NEW r \in Opened
          PROVE  /\ receivable'[r].state = "open" =>
                       receivable'[r].balance = owed[r] /\ receivable'[r].balance > 0
                 /\ receivable'[r].state = "partially_applied" =>
                       receivable'[r].balance \in 1 .. (owed[r] - 1)
                 /\ receivable'[r].state \in TerminalStates => receivable'[r].balance = 0
                 /\ receivable'[r].balance <= owed[r]
                 /\ receivable'[r].state = "claimed" /\ receivable'[r].balance = 0 =>
                       \E d \in ClaimRefs : r \in claim'[d].lines /\ claim'[d].outcome = "partial"
      <4>1. CASE r \in lines
        <5>1. /\ receivable[r].balance <= owed[r] /\ owed[r] \in Nat
              /\ receivable[r].balance \in Nat /\ receivable'[r].balance \in Nat
          BY <1>t, <2>4, <2>5, <4>1 DEF StateMatchesBalance, TypeOK, Rows
        <5>2. receivable'[r].balance <= owed[r]
          BY <2>5, <4>1, <5>1
        <5>3. CASE outcome = "partial"
          BY <2>3, <2>5, <2>6, <4>1, <5>2, <5>3 DEF TerminalStates
        <5>4. CASE outcome \in TerminalStates
          BY <2>5, <4>1, <5>2, <5>4 DEF TerminalStates
        <5>5. QED
          BY <2>2, <5>3, <5>4 DEF TerminalStates
      <4>2. CASE r \notin lines
        <5>1. receivable'[r] = receivable[r]
          BY <2>5, <4>2 DEF Opened
        <5>2. \A d \in ClaimRefs : claim[d].outcome = "partial" => claim'[d] = claim[d]
          BY <2>11
        <5>3. QED
          BY <1>t, <5>1, <5>2 DEF StateMatchesBalance
      <4>3. QED
        BY <4>1, <4>2
    <3>2. QED
      BY <2>1, <2>7, <3>1 DEF StateMatchesBalance
  <2>13. ClaimedHasReason'
    <3>1. ASSUME NEW r \in Opened, receivable'[r].state = "claimed"
          PROVE  \E d \in ClaimRefs : /\ r \in claim'[d].lines
                                      /\ \/ claim'[d].status = "submitted"
                                         \/ claim'[d].outcome = "partial"
      <4>1. CASE r \in lines
        <5>1. outcome = "partial"
          BY <2>2, <2>5, <3>1, <4>1 DEF TerminalStates
        <5>2. QED
          BY <2>3, <2>6, <4>1, <5>1
      <4>2. CASE r \notin lines
        <5>1. receivable[r].state = "claimed"
          BY <2>5, <3>1, <4>2 DEF Opened
        <5>2. PICK d \in ClaimRefs : /\ r \in claim[d].lines
                                     /\ \/ claim[d].status = "submitted"
                                        \/ claim[d].outcome = "partial"
          BY <1>t, <5>1 DEF ClaimedHasReason
        <5>3. d # c
          BY <2>3, <4>2, <5>2
        <5>4. QED
          BY <2>6, <5>2, <5>3
      <4>3. QED
        BY <4>1, <4>2
    <3>2. QED
      BY <2>7, <3>1 DEF ClaimedHasReason
  <2>14. ClaimCoversOwnDebt'
    <3>1. \A r \in Refs : /\ receivable'[r].payer = receivable[r].payer
                          /\ receivable'[r].store = receivable[r].store
      BY <2>5
    <3>2. \A d \in ClaimRefs : claim'[d].status # "none" => claim[d].status # "none"
      BY <2>3, <2>6
    <3>3. QED
      BY <1>t, <2>11, <3>1, <3>2 DEF ClaimCoversOwnDebt
  <2>15. ClearedClaimStands'
    <3>1. ASSUME NEW d \in ClaimRefs, claim'[d].outcome \in TerminalStates,
                 NEW r \in claim'[d].lines
          PROVE  receivable'[r].state = claim'[d].outcome /\ receivable'[r].balance = 0
      <4>1. CASE d = c
        BY <2>5, <2>6, <3>1, <4>1
      <4>2. CASE d # c
        <5>1. /\ claim'[d] = claim[d] /\ r \in Refs
              /\ receivable[r].state = claim[d].outcome /\ receivable[r].balance = 0
          BY <1>t, <2>6, <2>11, <3>1, <4>2 DEF ClearedClaimStands
        <5>2. r \notin lines
          BY <2>5, <3>1, <5>1 DEF TerminalStates
        <5>3. QED
          BY <2>5, <5>1, <5>2
      <4>3. QED
        BY <4>1, <4>2
    <3>2. QED
      BY <3>1 DEF ClearedClaimStands
  <2>16. QED
    BY <2>7, <2>8, <2>9, <2>10, <2>12, <2>13, <2>14, <2>15 DEF SettlementInvariant
<1>3. QED
  BY <1>1, <1>2

-----------------------------------------------------------------------------
(* The theorems *)

\* Every step keeps the invariant.
LEMMA NextKeeps == SettlementInvariant /\ [Next]_vars => SettlementInvariant'
<1> SUFFICES ASSUME SettlementInvariant, [Next]_vars PROVE SettlementInvariant'
  OBVIOUS
<1>1. CASE UNCHANGED vars
  <2>1. \A t \in Txns : Locked(t)' = Locked(t)
    BY <1>1 DEF vars, Locked
  <2>2. Opened' = Opened
    BY <1>1 DEF vars, Opened
  <2>3. TypeOK' /\ LockDiscipline' /\ OperationShape' /\ SeenByVersion'
    BY <1>1, <2>1, <2>2 DEF vars, SettlementInvariant, TypeOK, LockDiscipline,
                            OperationShape, SeenByVersion
  <2>4. QED
    BY <1>1, <2>3, TablesStand DEF vars, SettlementInvariant
<1>2. ASSUME NEW s \in Stores, NEW sale \in Sales, NEW n \in 1 .. MaxPayers,
             NEW intent \in Intents(n), OpenFromIntent(s, sale, n, intent)
      PROVE  SettlementInvariant'
  BY <1>2, OpenFromIntentKeeps
<1>3. ASSUME NEW k \in Consoles, NEW r \in Refs, GetOne(k, r)
      PROVE  SettlementInvariant'
  BY <1>3, GetOneKeeps
<1>4. ASSUME NEW t \in Txns, NEW k \in Consoles, NEW amount \in Payments,
             ApplyStart(t, k, amount)
      PROVE  SettlementInvariant'
  BY <1>4, ApplyStartKeeps
<1>5. ASSUME NEW t \in Txns, NEW p \in Payers, NEW refs \in SUBSET Refs,
             SubmitStart(t, p, refs)
      PROVE  SettlementInvariant'
  BY <1>5, SubmitStartKeeps
<1>6. ASSUME NEW t \in Txns, NEW c \in ClaimRefs, NEW amount \in Remittances,
             ReconcileStart(t, c, amount)
      PROVE  SettlementInvariant'
  BY <1>6, ReconcileStartKeeps
<1>7. ASSUME NEW t \in Txns, NEW r \in Refs, LockRow(t, r)
      PROVE  SettlementInvariant'
  BY <1>7, LockRowKeeps
<1>8. ASSUME NEW t \in Txns,
             ApplyWrite(t) \/ SubmitWrite(t) \/ ReconcileWrite(t) \/ Rollback(t)
      PROVE  SettlementInvariant'
  BY <1>8, ApplyWriteKeeps, SubmitWriteKeeps, ReconcileWriteKeeps, RollbackKeeps
<1>9. QED
  BY <1>1, <1>2, <1>3, <1>4, <1>5, <1>6, <1>7, <1>8 DEF Next

\* In every reachable state held rows are current, versions stand for balances,
\* and the safety invariants of receivables and claims hold.
THEOREM SettlementInvariantHolds == Spec => []SettlementInvariant
BY InitInvariant, NextKeeps, PTL DEF Spec

\* The state of a receivable says what its balance says.
THEOREM StateMatchesBalanceHolds == Spec => []StateMatchesBalance
<1>1. SettlementInvariant => StateMatchesBalance
  BY DEF SettlementInvariant
<1>2. QED
  BY <1>1, SettlementInvariantHolds, PTL

\* A receivable is claimed for a reason: a pending claim or a short remittance.
THEOREM ClaimedHasReasonHolds == Spec => []ClaimedHasReason
<1>1. SettlementInvariant => ClaimedHasReason
  BY DEF SettlementInvariant
<1>2. QED
  BY <1>1, SettlementInvariantHolds, PTL

\* Claims collect debts of their own payer and store only.
THEOREM ClaimCoversOwnDebtHolds == Spec => []ClaimCoversOwnDebt
<1>1. SettlementInvariant => ClaimCoversOwnDebt
  BY DEF SettlementInvariant
<1>2. QED
  BY <1>1, SettlementInvariantHolds, PTL

\* What a settled or flagged claim cleared stays cleared.
THEOREM ClearedClaimStandsHolds == Spec => []ClearedClaimStands
<1>1. SettlementInvariant => ClearedClaimStands
  BY DEF SettlementInvariant
<1>2. QED
  BY <1>1, SettlementInvariantHolds, PTL

\* Steps that are not the last of a payment, claim or remittance, or that refuse
\* it, leave the tables of the existing receivables and claims alone.
LEMMA QuietSteps ==
    ASSUME SettlementInvariant, [Next]_vars,
           \A t \in Txns : \/ Conflict(t)
                          \/ ~(ApplyWrite(t) \/ SubmitWrite(t) \/ ReconcileWrite(t))
    PROVE  /\ \A r \in Opened : receivable'[r] = receivable[r]
           /\ paid' = paid /\ claim' = claim /\ result' = result
<1>1. ASSUME NEW s \in Stores, NEW sale \in Sales, NEW n \in 1 .. MaxPayers,
             NEW intent \in Intents(n), OpenFromIntent(s, sale, n, intent)
      PROVE  /\ \A r \in Opened : receivable'[r] = receivable[r]
             /\ paid' = paid /\ claim' = claim /\ result' = result
  <2>1. PICK first \in Refs :
          /\ Opened = 1 .. (first - 1)
          /\ receivable' = [r \in Refs |->
                 IF r \in first .. (first + n - 1)
                 THEN [state |-> "open", balance |-> intent[r - first + 1].owed,
                       version |-> 0, payer |-> intent[r - first + 1].payer,
                       store |-> s]
                 ELSE receivable[r]]
          /\ UNCHANGED <<paid, claim, result, view, txn>>
    BY <1>1 DEF OpenFromIntent
  <2>2. \A r \in Opened : r \in Refs /\ r \notin first .. (first + n - 1)
    BY <2>1
  <2>3. QED
    BY <2>1, <2>2
<1>2. ASSUME NEW k \in Consoles, NEW r \in Refs, GetOne(k, r)
      PROVE  UNCHANGED <<receivable, paid, claim, result>>
  BY <1>2 DEF GetOne
<1>3. ASSUME NEW t \in Txns,
             \/ \E k \in Consoles, amount \in Payments : ApplyStart(t, k, amount)
             \/ \E p \in Payers, refs \in SUBSET Refs : SubmitStart(t, p, refs)
             \/ \E c \in ClaimRefs, amount \in Remittances : ReconcileStart(t, c, amount)
             \/ \E r \in Refs : LockRow(t, r)
             \/ Rollback(t)
             \/ Conflict(t)
      PROVE  UNCHANGED <<receivable, paid, claim, result>>
  BY <1>3 DEF ApplyStart, SubmitStart, ReconcileStart, LockRow, Rollback, Conflict
<1>4. CASE UNCHANGED vars
  BY <1>4 DEF vars
<1>5. QED
  BY <1>1, <1>2, <1>3, <1>4 DEF Next

\* No operation moves a receivable outside VALID_TRANSITIONS.
THEOREM ValidLifecycleHolds == Spec => ValidLifecycle
<1> DEFINE Step == \A r \in Opened :
                      \/ receivable'[r].state = receivable[r].state
                      \/ canTransition(receivable[r].state, receivable'[r].state)
<1>1. ASSUME SettlementInvariant, [Next]_vars PROVE Step
  <2>t. TypeOK /\ LockDiscipline
    BY <1>1 DEF SettlementInvariant
  <2>1. ASSUME NEW t \in Txns, ApplyWrite(t), ~Conflict(t) PROVE Step
    <3>1. PICK r \in Refs :
             /\ r \in Opened
             /\ receivable[r].state \notin TerminalStates
             /\ receivable'[r].state = IF receivable[r].balance - txn[t].amount = 0
                                      THEN "settled" ELSE "partially_applied"
             /\ \A q \in Refs \ {r} : receivable'[q] = receivable[q]
      BY <1>1, <2>1, ApplyEffect
    <3>2. receivable[r].state \in {"open", "partially_applied", "claimed"}
      BY <2>t, <3>1 DEF TypeOK, Rows, States, TerminalStates, Opened
    <3>3. receivable'[r].state \in {"settled", "partially_applied"}
      BY <3>1
    <3>4. QED
      BY <3>1, <3>2, <3>3 DEF Opened, canTransition
  <2>2. ASSUME NEW t \in Txns, SubmitWrite(t), ~Conflict(t) PROVE Step
    <3>1. /\ Claimable(t) /\ AllLocked(t)
          /\ receivable' = [r \in Refs |-> IF r \in txn[t].refs THEN Submitted(r)
                                                              ELSE receivable[r]]
      BY <2>2 DEF SubmitWrite
    <3>2. \A r \in txn[t].refs : /\ r \in Refs
                                 /\ receivable[r].state \in ClaimableStates
                                 /\ receivable[r] \in Rows
      BY <2>t, <3>1 DEF LockDiscipline, AllLocked, Claimable, Opened, TypeOK
    <3>3. \A r \in txn[t].refs : receivable'[r].state = "claimed"
      BY <3>1, <3>2, SubmittedRow
    <3>4. QED
      BY <3>1, <3>2, <3>3 DEF Opened, canTransition, ClaimableStates
  <2>3. ASSUME NEW t \in Txns, ReconcileWrite(t), ~Conflict(t) PROVE Step
    <3> DEFINE outcome == decideReconciliation(sumScaled(t), txn[t].amount)
    <3>1. /\ Remit(t, outcome) /\ AllLocked(t)
          /\ \A r \in txn[t].refs : txn[t].read[r].state = "claimed"
      BY <2>3 DEF ReconcileWrite
    <3>2. outcome \in {"settled", "partial", "flagged"}
      BY DEF decideReconciliation
    <3> HIDE DEF outcome
    <3>3. /\ \A r \in Refs \ txn[t].refs : receivable'[r] = receivable[r]
          /\ \A r \in txn[t].refs :
               /\ receivable[r].state = "claimed"
               /\ outcome \in TerminalStates => receivable'[r].state = outcome
               /\ outcome = "partial" => receivable'[r].state = "claimed"
      BY <1>1, <3>1, RemitRows
    <3>4. QED
      BY <3>2, <3>3 DEF Opened, canTransition, TerminalStates
  <2>4. CASE \A t \in Txns : \/ Conflict(t)
                            \/ ~(ApplyWrite(t) \/ SubmitWrite(t) \/ ReconcileWrite(t))
    BY <1>1, <2>4, QuietSteps
  <2>5. QED
    BY <2>1, <2>2, <2>3, <2>4
<1>2. QED
  BY <1>1, SettlementInvariantHolds, PTL DEF Spec, ValidLifecycle

\* A payment enters the ledger only against the balance its console had read.
THEOREM AppliedAsSeenHolds == Spec => AppliedAsSeen
<1> DEFINE Step == \A r \in Refs : paid'[r] # paid[r] =>
                      \E t \in Txns :
                         /\ txn[t].op = "apply" /\ txn[t].refs = {r}
                         /\ receivable[r].balance = txn[t].seen
                         /\ receivable'[r].balance = txn[t].seen - txn[t].amount
                         /\ paid'[r] = paid[r] + txn[t].amount
<1>1. ASSUME SettlementInvariant, [Next]_vars PROVE Step
  <2>t. TypeOK /\ SeenByVersion
    BY <1>1 DEF SettlementInvariant
  <2>1. ASSUME NEW t \in Txns, ApplyWrite(t), ~Conflict(t) PROVE Step
    <3>1. PICK r \in Refs :
             /\ txn[t].op = "apply" /\ txn[t].refs = {r}
             /\ receivable[r].version = txn[t].version
             /\ receivable'[r].balance = receivable[r].balance - txn[t].amount
             /\ paid' = [paid EXCEPT ![r] = @ + txn[t].amount]
      BY <1>1, <2>1, ApplyEffect
    <3>2. receivable[r].balance = txn[t].seen
      BY <2>t, <3>1 DEF SeenByVersion
    <3>3. \A q \in Refs : paid'[q] # paid[q] => q = r
      BY <2>t, <3>1 DEF TypeOK
    <3>4. paid'[r] = paid[r] + txn[t].amount
      BY <2>t, <3>1 DEF TypeOK
    <3>5. QED
      BY <3>1, <3>2, <3>3, <3>4
  <2>2. ASSUME NEW t \in Txns, SubmitWrite(t) \/ ReconcileWrite(t), ~Conflict(t)
        PROVE  paid' = paid
    BY <2>2 DEF SubmitWrite, ReconcileWrite
  <2>3. CASE \A t \in Txns : \/ Conflict(t)
                            \/ ~(ApplyWrite(t) \/ SubmitWrite(t) \/ ReconcileWrite(t))
    BY <1>1, <2>3, QuietSteps
  <2>4. QED
    BY <2>1, <2>2, <2>3
<1>2. QED
  BY <1>1, SettlementInvariantHolds, PTL DEF Spec, AppliedAsSeen

\* A claim is reconciled once, also when two remittances arrive together.
THEOREM ReconciledOnceHolds == Spec => ReconciledOnce
<1> DEFINE Step == \A c \in ClaimRefs : claim[c].status = "reconciled" =>
                      claim'[c] = claim[c] /\ result'[c] = result[c]
<1>1. ASSUME SettlementInvariant, [Next]_vars PROVE Step
  <2>t. TypeOK /\ OperationShape
    BY <1>1 DEF SettlementInvariant
  <2>1. ASSUME NEW t \in Txns, ApplyWrite(t), ~Conflict(t) PROVE Step
    BY <1>1, <2>1, ApplyEffect
  <2>2. ASSUME NEW t \in Txns, SubmitWrite(t), ~Conflict(t) PROVE Step
    <3>1. PICK c \in ClaimRefs, s \in Stores :
            /\ {d \in ClaimRefs : claim[d].status = "none"} = c .. MaxClaims
            /\ claim' = [claim EXCEPT ![c] =
                           [status |-> "submitted", payer |-> txn[t].payer,
                            store |-> s, lines |-> txn[t].refs, outcome |-> "none"]]
      BY <2>2 DEF SubmitWrite
    <3>2. c \in c .. MaxClaims
      OBVIOUS
    <3>3. claim[c].status = "none"
      BY <3>1, <3>2
    <3>4. result' = result
      BY <2>2 DEF SubmitWrite
    <3>5. QED
      BY <2>t, <3>1, <3>3, <3>4 DEF TypeOK
  <2>3. ASSUME NEW t \in Txns, ReconcileWrite(t), ~Conflict(t) PROVE Step
    <3> DEFINE c == txn[t].claim
               outcome == decideReconciliation(sumScaled(t), txn[t].amount)
               amounts == [claimed |-> sumScaled(t), remitted |-> txn[t].amount]
    <3>1. /\ claim' = [claim EXCEPT ![c].status = "reconciled", ![c].outcome = outcome]
          /\ result' = [result EXCEPT ![c] = amounts]
          /\ txn[t].op = "reconcile"
      BY <2>3 DEF ReconcileWrite
    <3>2. c \in ClaimRefs /\ claim[c].status = "submitted"
      BY <2>t, <3>1 DEF OperationShape
    <3> HIDE DEF c, outcome, amounts
    <3>3. \A d \in ClaimRefs \ {c} : claim'[d] = claim[d] /\ result'[d] = result[d]
      BY <2>t, <3>1 DEF TypeOK
    <3>4. QED
      BY <3>2, <3>3
  <2>4. CASE \A t \in Txns : \/ Conflict(t)
                            \/ ~(ApplyWrite(t) \/ SubmitWrite(t) \/ ReconcileWrite(t))
    BY <1>1, <2>4, QuietSteps
  <2>5. QED
    BY <2>1, <2>2, <2>3, <2>4
<1>2. QED
  BY <1>1, SettlementInvariantHolds, PTL DEF Spec, ReconciledOnce

-----------------------------------------------------------------------------
(* No money is lost or made.                                                 *)

\* The balance sheet is of integers where the tables have their types.
LEMMA MoneyIsTyped == TypeOK /\ LedgerShape => MoneyTyped
<1> SUFFICES ASSUME TypeOK, LedgerShape  PROVE MoneyTyped
  OBVIOUS
<1>1. owed \in [1 .. MaxRefs -> Int]
  BY DEF TypeOK
<1>2. Accounted \in [1 .. MaxRefs -> Int]
  <2>1. \A r \in Refs : receivable[r].balance \in Nat /\ paid[r] \in Nat
    BY DEF TypeOK, Rows
  <2> QED  BY <2>1 DEF Accounted
<1>3. Collected \in [1 .. MaxClaims -> Int]
  BY DEF Collected, LedgerShape
<1> QED  BY <1>1, <1>2, <1>3, SumTyped DEF MoneyTyped

\* The ledger keeps its shape when nothing is reconciled and rows that are not
\* opened are left alone.
LEMMA LedgerKept ==
    ASSUME LedgerShape, result' = result,
           \A c \in ClaimRefs : claim'[c].status # "reconciled" => claim[c].status # "reconciled",
           \A r \in Refs \ Opened' :
               r \notin Opened /\ receivable'[r] = receivable[r] /\ owed'[r] = owed[r]
    PROVE  LedgerShape' /\ Collected' = Collected
<1>1. Collected' = Collected
  BY DEF Collected
<1>2. \A r \in Refs \ Opened' : receivable'[r].balance = 0 /\ owed'[r] = 0
  BY DEF LedgerShape
<1>3. \A c \in ClaimRefs :
        /\ result'[c].claimed \in Int /\ result'[c].remitted \in Int
        /\ claim'[c].status # "reconciled" => Collected'[c] = 0
  BY <1>1 DEF LedgerShape
<1> QED  BY <1>1, <1>2, <1>3 DEF LedgerShape

\* Rows that change by what is owed more for them conserve the money.
LEMMA RowsBalance ==
    ASSUME TypeOK, TypeOK', LedgerShape, LedgerShape', MoneyConserved,
           Collected' = Collected,
           \A r \in Refs : owed'[r] - owed[r] = (receivable'[r].balance + paid'[r])
                                                - (receivable[r].balance + paid[r])
    PROVE  MoneyConserved'
<1>1. MoneyTyped /\ MoneyTyped'
  BY MoneyIsTyped, PTL
<1>2. \A r \in 1 .. MaxRefs : /\ Accounted[r] = receivable[r].balance + paid[r]
                              /\ Accounted'[r] = receivable'[r].balance + paid'[r]
  BY DEF Accounted
<1>3. MoveAlike(owed, owed', Accounted, Accounted', MaxRefs)
  <2>1. /\ owed \in [1 .. MaxRefs -> Int] /\ owed' \in [1 .. MaxRefs -> Int]
        /\ Accounted \in [1 .. MaxRefs -> Int] /\ Accounted' \in [1 .. MaxRefs -> Int]
    BY <1>1 DEF MoneyTyped
  <2>2. \A r \in 1 .. MaxRefs : owed'[r] - owed[r] = Accounted'[r] - Accounted[r]
    BY <1>2
  <2> QED  BY <2>1, <2>2 DEF MoveAlike
<1> QED  BY <1>1, <1>3, RowsConserve

\* Steps that write no table.
LEMMA QuietConserves ==
    ASSUME LedgerShape, MoneyConserved,
           UNCHANGED <<receivable, owed, paid, claim, result>>
    PROVE  LedgerShape' /\ MoneyConserved'
<1>1. Opened' = Opened
  BY DEF Opened
<1>2. LedgerShape' /\ Collected' = Collected
  BY <1>1, LedgerKept
<1>3. Accounted' = Accounted
  BY DEF Accounted
<1> QED  BY <1>2, <1>3 DEF MoneyConserved

\* A payment moves its amount from the balance to the cash ledger.
LEMMA ApplyConserves ==
    ASSUME SettlementInvariant, TypeOK', LedgerShape, MoneyConserved,
           NEW t \in Txns, ApplyWrite(t), ~Conflict(t)
    PROVE  LedgerShape' /\ MoneyConserved'
<1>t. TypeOK
  BY DEF SettlementInvariant
<1>1. PICK r \in Refs :
        /\ r \in Opened
        /\ txn[t].amount \in Nat /\ receivable[r].balance \in Nat
        /\ receivable'[r].balance = receivable[r].balance - txn[t].amount
        /\ receivable'[r].state = IF receivable[r].balance - txn[t].amount = 0
                                  THEN "settled" ELSE "partially_applied"
        /\ \A q \in Refs \ {r} : receivable'[q] = receivable[q]
        /\ paid' = [paid EXCEPT ![r] = @ + txn[t].amount]
        /\ owed' = owed /\ claim' = claim /\ result' = result
  BY ApplyEffect
<1>2. Opened' = Opened
  BY <1>1 DEF Opened
<1>3. LedgerShape' /\ Collected' = Collected
  BY <1>1, <1>2, LedgerKept
<1>4. ASSUME NEW q \in Refs
      PROVE  owed'[q] - owed[q] = (receivable'[q].balance + paid'[q])
                                  - (receivable[q].balance + paid[q])
  <2>1. owed[q] \in Nat /\ paid[q] \in Nat /\ receivable[q].balance \in Nat
    BY <1>t DEF TypeOK, Rows
  <2>2. CASE q = r
    <3>1. paid'[q] = paid[q] + txn[t].amount
      BY <1>1, <1>t, <2>2 DEF TypeOK
    <3> QED  BY <1>1, <2>1, <2>2, <3>1
  <2>3. CASE q # r
    <3>1. paid'[q] = paid[q] /\ receivable'[q] = receivable[q]
      BY <1>1, <1>t, <2>3 DEF TypeOK
    <3> QED  BY <1>1, <2>1, <3>1
  <2> QED  BY <2>2, <2>3
<1> QED  BY <1>t, <1>3, <1>4, RowsBalance

\* A claim moves states, and no money.
LEMMA SubmitConserves ==
    ASSUME SettlementInvariant, TypeOK', LedgerShape, MoneyConserved,
           NEW t \in Txns, SubmitWrite(t), ~Conflict(t)
    PROVE  LedgerShape' /\ MoneyConserved'
<1>t. TypeOK /\ LockDiscipline
  BY DEF SettlementInvariant
<1>1. PICK c \in ClaimRefs, s \in Stores :
        /\ {d \in ClaimRefs : claim[d].status = "none"} = c .. MaxClaims
        /\ claim' = [claim EXCEPT ![c] =
                       [status |-> "submitted", payer |-> txn[t].payer,
                        store |-> s, lines |-> txn[t].refs, outcome |-> "none"]]
  BY DEF SubmitWrite
<1>2. /\ receivable' = [r \in Refs |-> IF r \in txn[t].refs THEN Submitted(r) ELSE receivable[r]]
      /\ owed' = owed /\ paid' = paid /\ result' = result
  BY DEF SubmitWrite
<1>3. txn[t].refs \subseteq Opened
  BY <1>t DEF LockDiscipline
<1>4. \A r \in Refs : /\ receivable'[r].balance = receivable[r].balance
                      /\ r \in txn[t].refs => receivable'[r].state = "claimed"
                      /\ r \notin txn[t].refs => receivable'[r] = receivable[r]
  <2>1. \A r \in Refs : receivable[r] \in Rows
    BY <1>t DEF TypeOK
  <2> SUFFICES ASSUME NEW r \in Refs
               PROVE  /\ receivable'[r].balance = receivable[r].balance
                      /\ r \in txn[t].refs => receivable'[r].state = "claimed"
                      /\ r \notin txn[t].refs => receivable'[r] = receivable[r]
    OBVIOUS
  <2>2. CASE r \in txn[t].refs
    <3>1. receivable'[r] = Submitted(r)
      BY <1>2, <2>2
    <3> QED  BY <3>1, <2>1, <2>2, SubmittedRow
  <2>3. CASE r \notin txn[t].refs
    BY <1>2, <2>3
  <2> QED  BY <2>2, <2>3
<1>5. Opened' = Opened
  BY <1>3, <1>4 DEF Opened
<1>6. \A b \in ClaimRefs : claim'[b].status # "reconciled" => claim[b].status # "reconciled"
  <2>1. claim[c].status = "none"
    <3>1. c \in c .. MaxClaims
      OBVIOUS
    <3> QED  BY <1>1, <3>1
  <2>2. \A b \in ClaimRefs : b # c => claim'[b] = claim[b]
    BY <1>1, <1>t DEF TypeOK
  <2> QED  BY <2>1, <2>2
<1>7. \A r \in Refs \ Opened' :
        r \notin Opened /\ receivable'[r] = receivable[r] /\ owed'[r] = owed[r]
  BY <1>2, <1>3, <1>4, <1>5
<1>8. LedgerShape' /\ Collected' = Collected
  BY <1>2, <1>6, <1>7, LedgerKept
<1>9. \A r \in Refs : owed'[r] - owed[r] = (receivable'[r].balance + paid'[r])
                                           - (receivable[r].balance + paid[r])
  <2>1. \A r \in Refs : owed[r] \in Nat /\ paid[r] \in Nat /\ receivable[r].balance \in Nat
    BY <1>t DEF TypeOK, Rows
  <2> QED  BY <1>2, <1>4, <2>1
<1> QED  BY <1>t, <1>8, <1>9, RowsBalance

\* An intent opens receivables for what it says is owed.
LEMMA OpenConserves ==
    ASSUME SettlementInvariant, TypeOK', LedgerShape, MoneyConserved,
           NEW s \in Stores, NEW sale \in Sales, NEW n \in 1 .. MaxPayers,
           NEW intent \in Intents(n), OpenFromIntent(s, sale, n, intent)
    PROVE  LedgerShape' /\ MoneyConserved'
<1>t. TypeOK
  BY DEF SettlementInvariant
<1>1. PICK first \in Refs :
        /\ Opened = 1 .. (first - 1)
        /\ receivable' = [r \in Refs |->
               IF r \in first .. (first + n - 1)
               THEN [state |-> "open", balance |-> intent[r - first + 1].owed,
                     version |-> 0, payer |-> intent[r - first + 1].payer,
                     store |-> s]
               ELSE receivable[r]]
        /\ owed' = [r \in Refs |-> IF r \in first .. (first + n - 1)
                                   THEN intent[r - first + 1].owed ELSE owed[r]]
        /\ UNCHANGED <<paid, claim, result, view, txn>>
  BY DEF OpenFromIntent
<1> DEFINE New == first .. (first + n - 1)
<1>2. \A r \in New : r \notin Opened
  BY <1>1
<1>3. \A r \in Refs : r \in New => /\ receivable'[r].state = "open"
                                   /\ receivable'[r].balance = owed'[r]
  BY <1>1
<1>4. \A r \in Refs : r \notin New => receivable'[r] = receivable[r] /\ owed'[r] = owed[r]
  BY <1>1
<1> HIDE DEF New
<1>5. \A r \in Refs \ Opened' :
        r \notin Opened /\ receivable'[r] = receivable[r] /\ owed'[r] = owed[r]
  BY <1>3, <1>4 DEF Opened
<1>6. LedgerShape' /\ Collected' = Collected
  BY <1>1, <1>5, LedgerKept
<1>7. ASSUME NEW r \in Refs
      PROVE  owed'[r] - owed[r] = (receivable'[r].balance + paid'[r])
                                  - (receivable[r].balance + paid[r])
  <2>1. /\ owed[r] \in Nat /\ paid[r] \in Nat /\ receivable[r].balance \in Nat
        /\ owed'[r] \in Nat /\ paid' = paid
    BY <1>1, <1>t DEF TypeOK, Rows
  <2>2. CASE r \in New
    <3>1. receivable[r].balance = 0 /\ owed[r] = 0
      BY <1>2, <2>2 DEF LedgerShape
    <3> QED  BY <1>3, <2>1, <2>2, <3>1
  <2>3. CASE r \notin New
    BY <1>4, <2>1, <2>3
  <2> QED  BY <2>2, <2>3
<1> QED  BY <1>t, <1>6, <1>7, RowsBalance

\* A remittance below its claim is used up: a line takes less than it owes only
\* when it takes the last of it.
LEMMA UsedUp ==
    ASSUME TypeOK, NEW t \in Txns, sumScaled(t) > txn[t].amount,
           NEW left \in [0 .. MaxRefs -> 0 .. txn[t].amount], Apportions(t, left)
    PROVE  left[MaxRefs] = 0
<1> DEFINE lines == txn[t].refs
           amount == txn[t].amount
           due == [r \in lines |-> txn[t].read[r].balance]
<1>1. lines \in SUBSET (1 .. MaxRefs) /\ amount \in Nat /\ due \in [lines -> Int]
  <2>1. txn[t] \in Operations
    BY DEF TypeOK
  <2>2. lines \in SUBSET Refs /\ amount \in Nat /\ txn[t].read \in [Refs -> Rows]
    BY <2>1 DEF Operations
  <2>3. \A r \in Refs : txn[t].read[r].balance \in Nat
    BY <2>2 DEF Rows
  <2> QED  BY <2>2, <2>3
<1>2. PICK acc : RunningSum(due, lines, MaxRefs, acc) /\ acc[MaxRefs] = SumFunction(due)
  <2> HIDE DEF lines, due
  <2> QED  BY <1>1, SumAccumulates
<1>3. sumScaled(t) = acc[MaxRefs]
  BY <1>2 DEF sumScaled
<1>4. /\ acc \in [0 .. MaxRefs -> Int] /\ acc[0] = 0
      /\ \A m \in 1 .. MaxRefs : acc[m] = acc[m - 1] + (IF m \in lines THEN due[m] ELSE 0)
  BY <1>2 DEF RunningSum
<1>5. /\ left[0] = amount
      /\ \A m \in 1 .. MaxRefs :
           left[m] = IF m \in lines THEN left[m - 1] - Taken(left[m - 1], due[m])
                     ELSE left[m - 1]
  BY <1>1 DEF Apportions
<1> DEFINE G == {m \in 0 .. MaxRefs : left[m] = 0 \/ left[m] = amount - acc[m]}
<1>6. 0 \in G
  BY <1>1, <1>4, <1>5
<1>7. \A m \in 1 .. MaxRefs : m - 1 \in G => m \in G
  <2> SUFFICES ASSUME NEW m \in 1 .. MaxRefs, m - 1 \in G  PROVE m \in G
    OBVIOUS
  <2> DEFINE before == left[m - 1]
             sum == acc[m - 1]
             b == due[m]
  <2>1. before \in Nat /\ sum \in Int /\ m \in 0 .. MaxRefs
    <3>1. m - 1 \in 0 .. MaxRefs /\ m \in 0 .. MaxRefs
      OBVIOUS
    <3> QED  BY <3>1, <1>1, <1>4
  <2>2. before = 0 \/ before = amount - sum
    OBVIOUS
  <2>3. left[m] = IF m \in lines THEN before - Taken(before, b) ELSE before
    BY <1>5
  <2>4. acc[m] = sum + (IF m \in lines THEN b ELSE 0)
    BY <1>4
  <2>5. m \in lines => b \in Int
    BY <1>1
  <2>6. left[m] = 0 \/ left[m] = amount - acc[m]
    <3> HIDE DEF before, sum, b, lines, amount
    <3> QED  BY <1>1, <2>1, <2>2, <2>3, <2>4, <2>5 DEF Taken
  <2> QED  BY <2>1, <2>6
<1>8. MaxRefs \in G
  <2>1. MaxRefs \in 0 .. MaxRefs
    OBVIOUS
  <2> HIDE DEF G
  <2> QED  BY <1>6, <1>7, <2>1, Inductive
<1>9. left[MaxRefs] \in 0 .. amount /\ acc[MaxRefs] \in Int
  BY <1>4
<1>10. acc[MaxRefs] > amount
  BY <1>3
<1> QED  BY <1>1, <1>8, <1>9, <1>10

\* What a remittance does to the balances of the lines of its claim: all of them
\* go, or each loses what the remittance loses at it.
LEMMA RemitBalances ==
    ASSUME SettlementInvariant, TypeOK', LedgerShape, NEW t \in Txns, AllLocked(t),
           \A r \in txn[t].refs : txn[t].read[r].state = "claimed",
           paid' = paid,
           Remit(t, decideReconciliation(sumScaled(t), txn[t].amount))
    PROVE  \E d \in [0 .. MaxRefs -> Int] :
             /\ MoveBy(Accounted, Accounted', d, MaxRefs)
             /\ d[0] - d[MaxRefs] = IF txn[t].amount < sumScaled(t)
                                    THEN txn[t].amount ELSE sumScaled(t)
<1> DEFINE lines == txn[t].refs
           amount == txn[t].amount
           outcome == decideReconciliation(sumScaled(t), amount)
           due == [r \in lines |-> txn[t].read[r].balance]
<1>t. TypeOK /\ LockDiscipline
  BY DEF SettlementInvariant
<1>1. lines \in SUBSET (1 .. MaxRefs) /\ amount \in Nat /\ due \in [lines -> Int]
  <2>1. txn[t] \in Operations
    BY <1>t DEF TypeOK
  <2>2. lines \in SUBSET Refs /\ amount \in Nat /\ txn[t].read \in [Refs -> Rows]
    BY <2>1 DEF Operations
  <2>3. \A r \in Refs : txn[t].read[r].balance \in Nat
    BY <2>2 DEF Rows
  <2> QED  BY <2>2, <2>3
<1>2. PICK acc : RunningSum(due, lines, MaxRefs, acc) /\ acc[MaxRefs] = SumFunction(due)
  <2> HIDE DEF lines, due
  <2> QED  BY <1>1, SumAccumulates
<1>3. sumScaled(t) = acc[MaxRefs]
  BY <1>2 DEF sumScaled
<1>4. /\ acc \in [0 .. MaxRefs -> Int] /\ acc[0] = 0
      /\ \A m \in 1 .. MaxRefs : acc[m] = acc[m - 1] + (IF m \in lines THEN due[m] ELSE 0)
  BY <1>2 DEF RunningSum
<1>5. \A r \in lines : txn[t].read[r] = receivable[r] /\ due[r] = receivable[r].balance
  BY <1>t DEF LockDiscipline, AllLocked
<1>6. \A r \in Refs : /\ receivable[r] \in Rows
                      /\ receivable[r].balance \in Nat /\ paid[r] \in Nat
                      /\ receivable'[r].balance \in Nat
                      /\ Accounted[r] = receivable[r].balance + paid[r]
                      /\ Accounted'[r] = receivable'[r].balance + paid[r]
  BY <1>t DEF TypeOK, Rows, Accounted
<1>7. CASE outcome \in TerminalStates
  <2> DEFINE d == [m \in 0 .. MaxRefs |-> 0 - acc[m]]
  <2>1. /\ receivable' = [r \in Refs |-> IF r \in lines THEN Cleared(r, outcome)
                                                        ELSE receivable[r]]
        /\ outcome \in States
    BY <1>7 DEF Remit, TerminalStates, States
  <2>2. ASSUME NEW r \in Refs
        PROVE  receivable'[r].balance = receivable[r].balance - (IF r \in lines THEN due[r] ELSE 0)
    <3>1. CASE r \in lines
      <4>1. receivable'[r] = Cleared(r, outcome)
        BY <2>1, <3>1
      <4>2. receivable'[r].balance = 0
        <5> HIDE DEF outcome
        <5> QED  BY <4>1, <1>6, <2>1, ClearedRow
      <4>3. due[r] = receivable[r].balance /\ receivable[r].balance \in Nat
        BY <1>5, <1>6, <3>1
      <4> HIDE DEF due
      <4> QED  BY <4>2, <4>3, <3>1
    <3>2. CASE r \notin lines
      BY <2>1, <3>2, <1>6
    <3> QED  BY <3>1, <3>2
  <2>3. d \in [0 .. MaxRefs -> Int]
    BY <1>4
  <2>4. ASSUME NEW m \in 1 .. MaxRefs
        PROVE  Accounted'[m] - Accounted[m] = d[m] - d[m - 1]
    <3> DEFINE x == IF m \in lines THEN due[m] ELSE 0
    <3>1. m \in 0 .. MaxRefs /\ m - 1 \in 0 .. MaxRefs
      OBVIOUS
    <3>2. d[m] = 0 - acc[m] /\ d[m - 1] = 0 - acc[m - 1]
      BY <3>1
    <3>3. acc[m] \in Int /\ acc[m - 1] \in Int /\ x \in Int /\ acc[m] = acc[m - 1] + x
      <4>1. x \in Int
        BY <1>1
      <4>2. acc[m] = acc[m - 1] + x
        BY <1>4
      <4>3. acc[m] \in Int /\ acc[m - 1] \in Int
        BY <3>1, <1>4
      <4> QED  BY <4>1, <4>2, <4>3
    <3>4. receivable'[m].balance = receivable[m].balance - x
      BY <2>2
    <3> HIDE DEF x, d
    <3> QED  BY <3>2, <3>3, <3>4, <1>6
  <2>5. d[0] - d[MaxRefs] = sumScaled(t)
    <3>1. d[0] = 0 /\ d[MaxRefs] = 0 - acc[MaxRefs] /\ acc[MaxRefs] \in Int
      BY <1>4
    <3> HIDE DEF d
    <3> QED  BY <3>1, <1>3
  <2>6. ~(amount < sumScaled(t))
    <3>1. sumScaled(t) \in Int
      BY <1>3, <1>4
    <3> QED  BY <3>1, <1>1, <1>7 DEF decideReconciliation, TerminalStates
  <2>7. MoveBy(Accounted, Accounted', d, MaxRefs)
    BY <2>4 DEF MoveBy
  <2> HIDE DEF d
  <2> QED  BY <2>3, <2>5, <2>6, <2>7
<1>8. CASE outcome = "partial"
  <2>1. PICK left \in [0 .. MaxRefs -> 0 .. amount] :
          /\ Apportions(t, left)
          /\ receivable' = [r \in Refs |-> IF r \in lines
                                           THEN Reduced(t, r, left[r - 1] - left[r])
                                           ELSE receivable[r]]
    BY <1>8 DEF Remit, TerminalStates
  <2>2. amount < sumScaled(t)
    BY <1>8 DEF decideReconciliation
  <2>3. left[MaxRefs] = 0 /\ left[0] = amount /\ left \in [0 .. MaxRefs -> Int]
    <3>1. left[MaxRefs] = 0
      <4>1. sumScaled(t) > txn[t].amount
        BY <2>2, <1>1, <1>3, <1>4
      <4> QED  BY <4>1, <1>t, <2>1, UsedUp
    <3>2. left[0] = amount
      BY <2>1 DEF Apportions
    <3> QED  BY <3>1, <3>2, <1>1
  <2>4. ASSUME NEW m \in 1 .. MaxRefs
        PROVE  Accounted'[m] - Accounted[m] = left[m] - left[m - 1]
    <3> DEFINE taken == left[m - 1] - left[m]
    <3>1. m \in 0 .. MaxRefs /\ m - 1 \in 0 .. MaxRefs
      OBVIOUS
    <3>2. left[m] \in Nat /\ left[m - 1] \in Nat
      BY <3>1, <2>1, <1>1
    <3>3. CASE m \in lines
      <4>1. left[m] = left[m - 1] - Taken(left[m - 1], due[m])
        BY <2>1, <3>3 DEF Apportions
      <4>2. due[m] = receivable[m].balance /\ due[m] \in Nat
            /\ txn[t].read[m].balance = receivable[m].balance
        BY <1>5, <1>6, <3>3
      <4>3. taken \in 0 .. due[m]
        <5> HIDE DEF due
        <5> QED  BY <4>1, <4>2, <3>2 DEF Taken
      <4>4. receivable'[m] = Reduced(t, m, taken)
        BY <2>1, <3>3
      <4>5. receivable'[m].balance = receivable[m].balance - taken
        <5>1. CASE taken > 0
          <6>1. txn[t].read[m].balance - taken \in Nat
            BY <4>2, <4>3
          <6> HIDE DEF taken
          <6>2. Reduced(t, m, taken).balance = txn[t].read[m].balance - taken
            BY <5>1, <6>1, <1>6, ReducedRow
          <6> QED  BY <6>2, <4>2, <4>4
        <5>2. CASE taken = 0
          <6> HIDE DEF taken
          <6> QED  BY <5>2, <4>4, <1>6 DEF Reduced
        <5> QED  BY <5>1, <5>2, <4>3, <4>2
      <4> DEFINE bal == receivable[m].balance
                 rest == receivable'[m].balance
                 cash == paid[m]
                 more == left[m - 1]
                 less == left[m]
      <4>6. /\ bal \in Nat /\ rest \in Nat /\ cash \in Nat /\ more \in Nat /\ less \in Nat
            /\ Accounted[m] = bal + cash /\ Accounted'[m] = rest + cash
            /\ rest = bal - (more - less)
        BY <4>5, <3>2, <1>6
      <4> HIDE DEF bal, rest, cash, more, less
      <4>7. (rest + cash) - (bal + cash) = less - more
        BY <4>6
      <4> QED  BY <4>6, <4>7 DEF more, less
    <3>4. CASE m \notin lines
      <4>1. left[m] = left[m - 1] /\ receivable'[m] = receivable[m]
        BY <2>1, <3>4 DEF Apportions
      <4> QED  BY <4>1, <3>2, <1>6
    <3> QED  BY <3>3, <3>4
  <2>5. MoveBy(Accounted, Accounted', left, MaxRefs)
    BY <2>4 DEF MoveBy
  <2> QED  BY <2>2, <2>3, <2>5, <1>1
<1> QED  BY <1>7, <1>8 DEF decideReconciliation, TerminalStates

\* A remittance collects what it takes from the balances.
LEMMA ReconcileConserves ==
    ASSUME SettlementInvariant, TypeOK', LedgerShape, MoneyConserved,
           NEW t \in Txns, ReconcileWrite(t), ~Conflict(t)
    PROVE  LedgerShape' /\ MoneyConserved'
<1> DEFINE c == txn[t].claim
           outcome == decideReconciliation(sumScaled(t), txn[t].amount)
<1>t. TypeOK /\ LockDiscipline /\ OperationShape
  BY DEF SettlementInvariant
<1>1. /\ Remit(t, outcome)
      /\ claim' = [claim EXCEPT ![c].status = "reconciled", ![c].outcome = outcome]
      /\ result' = [result EXCEPT ![c] = [claimed |-> sumScaled(t),
                                         remitted |-> txn[t].amount]]
      /\ \A r \in txn[t].refs : txn[t].read[r].state = "claimed"
      /\ owed' = owed /\ paid' = paid
      /\ AllLocked(t) /\ txn[t].op = "reconcile"
  BY DEF ReconcileWrite
<1>2. c \in ClaimRefs /\ claim[c].status = "submitted"
  BY <1>t, <1>1 DEF OperationShape
<1>3. PICK d \in [0 .. MaxRefs -> Int] :
        /\ MoveBy(Accounted, Accounted', d, MaxRefs)
        /\ d[0] - d[MaxRefs] = IF txn[t].amount < sumScaled(t)
                               THEN txn[t].amount ELSE sumScaled(t)
  BY <1>1, RemitBalances
<1>4. txn[t].amount \in Int /\ sumScaled(t) \in Int
  <2>1. txn[t] \in Operations
    BY <1>t DEF TypeOK
  <2>2. /\ txn[t].refs \in SUBSET (1 .. MaxRefs) /\ txn[t].amount \in Nat
        /\ txn[t].read \in [Refs -> Rows]
    BY <2>1 DEF Operations
  <2> DEFINE due == [r \in txn[t].refs |-> txn[t].read[r].balance]
  <2>3. due \in [txn[t].refs -> Int]
    <3>1. \A r \in txn[t].refs : txn[t].read[r] \in Rows
      <4>1. txn[t].refs \subseteq Refs
        BY <2>2
      <4> HIDE DEF Refs, Rows
      <4> QED  BY <2>2, <4>1
    <3>2. \A x \in Rows : x.balance \in Int
      BY DEF Rows
    <3> HIDE DEF Rows
    <3> QED  BY <3>1, <3>2
  <2>4. PICK acc : RunningSum(due, txn[t].refs, MaxRefs, acc) /\ acc[MaxRefs] = SumFunction(due)
    <3> HIDE DEF due
    <3> QED  BY <2>2, <2>3, SumAccumulates
  <2>5. acc[MaxRefs] \in Int
    BY <2>4 DEF RunningSum
  <2>6. sumScaled(t) = SumFunction(due)
    BY DEF sumScaled
  <2> QED  BY <2>2, <2>4, <2>5, <2>6
<1> HIDE DEF c, outcome
<1>5. /\ result'[c] = [claimed |-> sumScaled(t), remitted |-> txn[t].amount]
      /\ \A b \in ClaimRefs : b # c => result'[b] = result[b] /\ claim'[b] = claim[b]
      /\ claim'[c].status = "reconciled"
  BY <1>t, <1>1, <1>2 DEF TypeOK
<1>6. /\ Collected'[c] = IF txn[t].amount < sumScaled(t) THEN txn[t].amount ELSE sumScaled(t)
      /\ \A b \in ClaimRefs : b # c => Collected'[b] = Collected[b]
  BY <1>2, <1>5 DEF Collected
<1>7. Collected[c] = 0
  BY <1>2 DEF LedgerShape
<1>8. LedgerShape'
  <2>1. /\ \A r \in Refs \ txn[t].refs : receivable'[r] = receivable[r]
        /\ \A r \in txn[t].refs : receivable'[r].state \in States
    BY <1>1, RemitRows
  <2>2. txn[t].refs \subseteq Opened
    BY <1>t DEF LockDiscipline
  <2>3. \A r \in Refs \ Opened' : r \notin Opened /\ receivable'[r] = receivable[r]
    BY <2>1, <2>2 DEF Opened, States
  <2>4. \A r \in Refs \ Opened' : receivable'[r].balance = 0 /\ owed'[r] = 0
    BY <1>1, <2>3 DEF LedgerShape
  <2>5. ASSUME NEW b \in ClaimRefs
        PROVE  /\ result'[b].claimed \in Int /\ result'[b].remitted \in Int
               /\ claim'[b].status # "reconciled" => Collected'[b] = 0
    <3>1. CASE b = c
      BY <3>1, <1>4, <1>5
    <3>2. CASE b # c
      <4>1. result'[b] = result[b] /\ claim'[b] = claim[b] /\ Collected'[b] = Collected[b]
        BY <3>2, <1>5, <1>6
      <4> QED  BY <4>1 DEF LedgerShape
    <3> QED  BY <3>1, <3>2
  <2> QED  BY <2>4, <2>5 DEF LedgerShape
<1>9. MoneyTyped /\ MoneyTyped'
  BY <1>t, <1>8, MoneyIsTyped, PTL
<1>10. MoveAt(Collected, Collected', c, MaxClaims)
  BY <1>6 DEF MoveAt
<1>11. Collected'[c] = d[0] - d[MaxRefs]
  BY <1>3, <1>6
<1>12. MoneyConserved'
  BY <1>1, <1>2, <1>3, <1>7, <1>9, <1>10, <1>11, RemittanceConserves
<1> QED  BY <1>8, <1>12

\* Every step keeps the balance sheet balanced.
LEMMA NextConserves ==
    SettlementInvariant /\ SettlementInvariant' /\ LedgerShape /\ MoneyConserved /\ [Next]_vars
      => LedgerShape' /\ MoneyConserved'
<1> SUFFICES ASSUME SettlementInvariant, SettlementInvariant', LedgerShape, MoneyConserved,
                    [Next]_vars
             PROVE  LedgerShape' /\ MoneyConserved'
  OBVIOUS
<1>t. TypeOK'
  BY DEF SettlementInvariant
<1>1. ASSUME NEW s \in Stores, NEW sale \in Sales, NEW n \in 1 .. MaxPayers,
             NEW intent \in Intents(n), OpenFromIntent(s, sale, n, intent)
      PROVE  LedgerShape' /\ MoneyConserved'
  BY <1>t, <1>1, OpenConserves
<1>2. ASSUME NEW t \in Txns, ApplyWrite(t) \/ SubmitWrite(t) \/ ReconcileWrite(t), ~Conflict(t)
      PROVE  LedgerShape' /\ MoneyConserved'
  BY <1>t, <1>2, ApplyConserves, SubmitConserves, ReconcileConserves
<1>3. ASSUME \/ UNCHANGED vars
             \/ \E k \in Consoles, r \in Refs : GetOne(k, r)
             \/ \E t \in Txns :
                  \/ \E k \in Consoles, amount \in Payments : ApplyStart(t, k, amount)
                  \/ \E p \in Payers, refs \in SUBSET Refs : SubmitStart(t, p, refs)
                  \/ \E c \in ClaimRefs, amount \in Remittances : ReconcileStart(t, c, amount)
                  \/ \E r \in Refs : LockRow(t, r)
                  \/ Rollback(t)
                  \/ Conflict(t)
      PROVE  LedgerShape' /\ MoneyConserved'
  <2>1. UNCHANGED <<receivable, owed, paid, claim, result>>
    BY <1>3 DEF vars, GetOne, ApplyStart, SubmitStart, ReconcileStart, LockRow, Rollback, Conflict
  <2> QED  BY <2>1, QuietConserves
<1> QED  BY <1>1, <1>2, <1>3 DEF Next

\* Whatever payments, claims and remittances meet on whatever rows, no money is
\* lost or made, for any number of receivables, claims, consoles and
\* transactions.
THEOREM MoneyConservedHolds == Spec => []MoneyConserved
<1>1. Init => LedgerShape /\ MoneyConserved
  <2> SUFFICES ASSUME Init  PROVE LedgerShape /\ MoneyConserved
    OBVIOUS
  <2>1. SettlementInvariant
    BY InitInvariant
  <2>2. \A r \in Refs : receivable[r].balance = 0 /\ owed[r] = 0 /\ paid[r] = 0
    BY DEF Init, Absent
  <2>3. \A c \in ClaimRefs : /\ result[c].claimed = 0 /\ result[c].remitted = 0
                             /\ Collected[c] = 0
    BY DEF Init, Collected
  <2>4. LedgerShape
    BY <2>2, <2>3 DEF LedgerShape
  <2>5. MoneyTyped
    BY <2>1, <2>4, MoneyIsTyped DEF SettlementInvariant
  <2>6. Accounted = owed
    <3>1. \A r \in Refs : Accounted[r] = 0
      BY <2>2 DEF Accounted
    <3> QED  BY <2>2, <2>5, <3>1 DEF MoneyTyped
  <2>7. SumFunction(Collected) = 0
    <3>1. PICK acc : /\ RunningSum(Collected, 1 .. MaxClaims, MaxClaims, acc)
                     /\ acc[MaxClaims] = SumFunction(Collected)
      BY <2>5, SumAccumulates DEF MoneyTyped
    <3>2. /\ acc \in [0 .. MaxClaims -> Int] /\ acc[0] = 0
          /\ \A m \in 1 .. MaxClaims : acc[m] = acc[m - 1] + Collected[m]
      BY <3>1 DEF RunningSum
    <3> DEFINE G == {m \in 0 .. MaxClaims : acc[m] = 0}
    <3>3. 0 \in G
      BY <3>2
    <3>4. \A m \in 1 .. MaxClaims : m - 1 \in G => m \in G
      <4> SUFFICES ASSUME NEW m \in 1 .. MaxClaims, m - 1 \in G  PROVE m \in G
        OBVIOUS
      <4>1. acc[m - 1] = 0 /\ Collected[m] = 0 /\ m \in 0 .. MaxClaims
        BY <2>3
      <4>2. acc[m] = 0
        BY <3>2, <4>1
      <4> QED  BY <4>1, <4>2
    <3>5. MaxClaims \in G
      <4>1. MaxClaims \in 0 .. MaxClaims
        OBVIOUS
      <4> HIDE DEF G
      <4> QED  BY <3>3, <3>4, <4>1, Inductive
    <3> QED  BY <3>1, <3>5
  <2> QED  BY <2>4, <2>5, <2>6, <2>7 DEF MoneyConserved, MoneyTyped
<1> QED  BY <1>1, NextConserves, SettlementInvariantHolds, PTL DEF Spec

=============================================================================
