------------------------------ MODULE Inventory ------------------------------
(***************************************************************************)
(* The stock ledger (InventoryService and the backfill worker).  A movement *)
(* is appended and never changed; what is on hand is the sum of a product's *)
(* movements at a store, computed on every read.  A stock count appends the *)
(* difference to what was read, a transfer appends two linked legs, and a   *)
(* backfill appends one movement per sale line or restock event, at most    *)
(* once per provenance pair.                                                *)
(*                                                                         *)
(* Each operation is one READ COMMITTED transaction: its statements read    *)
(* what is committed and what it wrote itself, and interleave with those of *)
(* the others.  The database keeps one stocking unit per store and product  *)
(* with an exclusion constraint and one row per provenance pair with a      *)
(* partial unique index; an INSERT that meets an uncommitted competitor     *)
(* waits for it.  A statement that fails dooms its transaction.             *)
(***************************************************************************)
EXTENDS Integers, FiniteSets, Sequences, Functions

CONSTANTS
    StockStores,
    Products,
    Units,
    ManualEntries,  \* [type, qty, reason] of the manual movements sent
    ManualProducts, \* products they name, None for an ad-hoc one
    Quantities,     \* magnitudes of transfers and counts, as Number() and
                    \* Math.round() leave them
    NumericMax,     \* largest value of numeric(19,4)
    ExactMax,       \* JavaScript's arithmetic is exact up to here
    AsNumber,       \* [on-hand -> what Number() makes of it]
    Variance,       \* [<<counted, on-hand>> -> their difference in JavaScript]
    SaleStore,
    SaleLines,      \* the captured sale: sequence of [product, unit, qty]
    MaxBackfill,    \* MAX_BACKFILL_MOVEMENTS
    Clients,        \* concurrent requests and jobs
    MaxOps,         \* bound: operations ever begun
    None            \* NULL: ad-hoc product, no group, no count, no provenance

ASSUME InventoryAssumption ==
    /\ Quantities \subseteq Nat \ {0}
    /\ ManualProducts \subseteq Products \cup {None}
    /\ ManualEntries \subseteq [type : {"inbound", "outbound", "adjustment"},
                                qty : Int, reason : BOOLEAN]
    /\ NumericMax \in Nat
    /\ MaxBackfill \in Nat
    /\ MaxOps \in Nat
    /\ None \notin Products \cup Units \cup StockStores
    /\ SaleStore \in StockStores
    /\ SaleLines \in Seq([product : Products \cup {None}, unit : Units, qty : Quantities])
    /\ SaleLines # <<>>     \* a captured sale has a line (CaptureSaleRequestSchema)

\* A double holds a quantity of four decimals exactly up to some magnitude, and
\* beyond it a count may be corrected by anything.
ASSUME NumberAssumption ==
    /\ ExactMax \in 0..NumericMax
    /\ AsNumber \in [-NumericMax..NumericMax -> Int]
    /\ Variance \in [(Quantities \cup {0}) \X (-NumericMax..NumericMax) -> Int]
    /\ \A q \in (Quantities \cup {0}) \cap 0..ExactMax, n \in -ExactMax..ExactMax :
        AsNumber[n] = n /\ Variance[<<q, n>>] = q - n

VARIABLES
    movements,      \* committed rows of stock_movements
    events,         \* committed inventory.movement.created events, as the
                    \* sets of the movements they name
    counts,         \* committed rows of stock_counts
    saleOpen,       \* sales.processed_at IS NULL
    ops,            \* operations begun: ids are time-ordered
    req,            \* [Clients -> request being served]
    started,        \* [Clients -> time of its transaction]
    at,             \* [Clients -> next statement]
    place,          \* [Clients -> leg the statement is for]
    wrote,          \* [Clients -> rows it has written, not committed]
    seen            \* [Clients -> on-hand a count has read]

ledger == <<movements, events, counts, saleOpen>>
inventoryVars == <<movements, events, counts, saleOpen, ops,
          req, started, at, place, wrote, seen>>

InRange(n) == n \in -NumericMax..NumericMax

\* A row of stock_movements; op is the time of its transaction (received_at),
\* leg its place in it, and both make its id.
MovementTypes == {"inbound", "outbound", "adjustment",
                  "transfer_out", "transfer_in", "count_correction"}

MovementRow ==
    [op : 1 .. MaxOps, leg : Nat, store : StockStores, product : Products \cup {None},
     unit : Units, qty : Int, type : MovementTypes,
     ext : Nat, group : Nat, count : Nat]

Of(rows, s, p) == {r \in rows : r.store = s /\ r.product = p}

Total(rows) == SumFunction([r \in rows |-> r.qty])

-----------------------------------------------------------------------------
(* Requests *)

\* What a transaction will append: one leg per movement, in order.  ext is the
\* external id of a backfilled leg (0: none).
Leg(s, p, u, q, t, e) ==
    [store |-> s, product |-> p, unit |-> u, qty |-> q, type |-> t, ext |-> e]

\* createStockMovement: the sign agrees with the type, an adjustment has a
\* reason, and a quantity is not zero at the column's scale.
ValidEntry(e) ==
    /\ e.qty # 0
    /\ e.type = "inbound" => e.qty > 0
    /\ e.type = "outbound" => e.qty < 0
    /\ e.type = "adjustment" => e.reason

ManualRequests ==
    {[op |-> "manual", legs |-> <<Leg(s, p, u, e.qty, e.type, 0)>>] :
        s \in StockStores, p \in ManualProducts, u \in Units,
        e \in {x \in ManualEntries : ValidEntry(x)}}

\* Variant of TransferRequests: source and destination may be the same.
TransferRequestsAnywhere ==
    {[op |-> "transfer",
      legs |-> <<Leg(w[1], p, u, -q, "transfer_out", 0),
                 Leg(w[2], p, u, q, "transfer_in", 0)>>] :
        w \in StockStores \X StockStores, p \in Products, u \in Units, q \in Quantities}

\* createStockTransfer: two stores, a strictly positive quantity.
TransferRequests ==
    {[op |-> "transfer",
      legs |-> <<Leg(w[1], p, u, -q, "transfer_out", 0),
                 Leg(w[2], p, u, q, "transfer_in", 0)>>] :
        w \in {x \in StockStores \X StockStores : x[1] # x[2]},
        p \in Products, u \in Units, q \in Quantities}

\* recordStockCount: qty is the counted quantity until the variance is known.
CountRequests ==
    {[op |-> "count", legs |-> <<Leg(s, p, u, q, "count_correction", 0)>>] :
        s \in StockStores, p \in Products, u \in Units, q \in Quantities \cup {0}}

\* backfillSaleLinkedOutbound: one line of the sale under its own id.
SaleRequests ==
    {[op |-> "sale", legs |-> <<Leg(SaleStore, SaleLines[i].product, SaleLines[i].unit,
                                    -SaleLines[i].qty, "outbound", i)>>] :
        i \in DOMAIN SaleLines}

\* backfillRestockInbound: the event that returns line i has an id of its own.
RestockRequests ==
    {[op |-> "restock", legs |-> <<Leg(SaleStore, SaleLines[i].product, SaleLines[i].unit,
                                       SaleLines[i].qty, "inbound", Len(SaleLines) + i)>>] :
        i \in DOMAIN SaleLines}

\* InventoryBackfillProcessor: all lines of the sale, in the order of their ids.
JobRequest ==
    [op |-> "job",
     legs |-> [i \in DOMAIN SaleLines |->
                 Leg(SaleStore, SaleLines[i].product, SaleLines[i].unit,
                     -SaleLines[i].qty, "outbound", i)]]

NoRequest == [op |-> "none", legs |-> <<>>]

InventoryInit ==
    /\ movements = {}
    /\ events = {}
    /\ counts = {}
    /\ saleOpen = TRUE
    /\ ops = 0
    /\ req = [c \in Clients |-> NoRequest]
    /\ started = [c \in Clients |-> 0]
    /\ at = [c \in Clients |-> "idle"]
    /\ place = [c \in Clients |-> 1]
    /\ wrote = [c \in Clients |-> {}]
    /\ seen = [c \in Clients |-> 0]

Current(c) == req[c].legs[place[c]]
Visible(c) == movements \cup wrote[c]
LastLeg(c) == place[c] = Len(req[c].legs)

Begin(c, r) ==
    /\ at[c] = "idle"
    /\ ops < MaxOps
    /\ ops' = ops + 1
    /\ req' = [req EXCEPT ![c] = r]
    /\ started' = [started EXCEPT ![c] = ops + 1]
    /\ at' = [at EXCEPT ![c] = "check"]
    /\ UNCHANGED <<ledger, place, wrote, seen>>

\* The connection is back in the pool and nothing of the transaction is left.
Ended(c) ==
    /\ req' = [req EXCEPT ![c] = NoRequest]
    /\ started' = [started EXCEPT ![c] = 0]
    /\ at' = [at EXCEPT ![c] = "idle"]
    /\ place' = [place EXCEPT ![c] = 1]
    /\ wrote' = [wrote EXCEPT ![c] = {}]
    /\ seen' = [seen EXCEPT ![c] = 0]
    /\ UNCHANGED ops

RowId(r) == [op |-> r.op, leg |-> r.leg]

\* ROLLBACK: the caller gets an error.
Abort(c) == Ended(c) /\ UNCHANGED ledger

CreateStockMovement(c) == \E r \in ManualRequests : Begin(c, r)
CreateStockTransfer(c) == \E r \in TransferRequests : Begin(c, r)
RecordStockCount(c) == \E r \in CountRequests : Begin(c, r)
BackfillSaleLinkedOutbound(c) == \E r \in SaleRequests : Begin(c, r)
BackfillRestockInbound(c) == \E r \in RestockRequests : Begin(c, r)

\* The job takes a sale that is captured and not processed, up to the ceiling.
ProcessBackfillJob(c) ==
    /\ saleOpen
    /\ Len(SaleLines) <= MaxBackfill
    /\ Begin(c, JobRequest)

\* The sale processing job stamps processed_at.
SaleProcessed ==
    /\ saleOpen
    /\ saleOpen' = FALSE
    /\ UNCHANGED <<movements, events, counts, ops, req, started, at, place, wrote, seen>>

-----------------------------------------------------------------------------
(* The unit check and the on-hand read *)

Established(rows) == (CHOOSE r \in rows : \A q \in rows : r.op <= q.op).unit

UnitMatches(c) ==
    LET known == Of(Visible(c), Current(c).store, Current(c).product)
    IN (Current(c).product # None /\ known # {}) => Established(known) = Current(c).unit

\* assertUnitMatchesEstablished: the API checks every leg before its first
\* INSERT, the job each line before its own.
AssertUnitMatchesEstablished(c) ==
    /\ at[c] = "check"
    /\ UnitMatches(c)
    /\ LET more == req[c].op # "job" /\ ~LastLeg(c)
       IN /\ place' = [place EXCEPT ![c] = CASE more -> @ + 1
                                             [] req[c].op = "job" -> @
                                             [] OTHER -> 1]
          /\ at' = [at EXCEPT ![c] = CASE more -> "check"
                                       [] req[c].op = "count" -> "sum"
                                       [] OTHER -> "insert"]
    /\ UNCHANGED <<ledger, ops, req, started, wrote, seen>>

CrossUnitError(c) ==
    /\ at[c] = "check"
    /\ ~UnitMatches(c)
    /\ Abort(c)

OnHand(rows, s, p) == Total(Of(rows, s, p))
OnHandOfLeg(c) == OnHand(Visible(c), Current(c).store, Current(c).product)

\* The sum, what Number() makes of it, and the counted quantity must all fit
\* the columns of stock_counts.
CountFits(c) ==
    /\ InRange(Current(c).qty)
    /\ InRange(OnHandOfLeg(c))
    /\ InRange(AsNumber[OnHandOfLeg(c)])

\* The derived on-hand at count time, and the row of stock_counts.  A count
\* without variance inserts no movement.
ReadDerivedOnHand(c) ==
    /\ at[c] = "sum"
    /\ CountFits(c)
    /\ seen' = [seen EXCEPT ![c] = OnHandOfLeg(c)]
    /\ at' = [at EXCEPT ![c] = IF Variance[<<Current(c).qty, OnHandOfLeg(c)>>] = 0
                               THEN "commit" ELSE "insert"]
    /\ UNCHANGED <<ledger, ops, req, started, place, wrote>>

CountOverflows(c) ==
    /\ at[c] = "sum"
    /\ ~CountFits(c)
    /\ Abort(c)

-----------------------------------------------------------------------------
(* The INSERT and its constraints *)

\* Variant of NewRow: the variance has the wrong sign.
NewRowReversed(c) ==
    [op |-> started[c], leg |-> place[c], store |-> Current(c).store,
     product |-> Current(c).product, unit |-> Current(c).unit,
     qty |-> IF req[c].op = "count" THEN -Variance[<<Current(c).qty, seen[c]>>]
             ELSE Current(c).qty,
     type |-> Current(c).type, ext |-> Current(c).ext,
     group |-> IF req[c].op = "transfer" THEN started[c] ELSE 0,
     count |-> IF req[c].op = "count" THEN started[c] ELSE 0]

NewRow(c) ==
    [op |-> started[c], leg |-> place[c], store |-> Current(c).store,
     product |-> Current(c).product, unit |-> Current(c).unit,
     qty |-> IF req[c].op = "count" THEN Variance[<<Current(c).qty, seen[c]>>]
             ELSE Current(c).qty,
     type |-> Current(c).type, ext |-> Current(c).ext,
     group |-> IF req[c].op = "transfer" THEN started[c] ELSE 0,
     count |-> IF req[c].op = "count" THEN started[c] ELSE 0]

\* Variant of UnitsClash: the constraint of migration 0016 is missing.
NeverClash(r, q) == FALSE

\* stock_movements_one_unit_per_product
UnitsClash(r, q) ==
    r.product # None /\ r.store = q.store /\ r.product = q.product /\ r.unit # q.unit

\* Variant of SamePair: no unique index on the pair.
NoPairIsSame(r, q) == FALSE

\* uq_stock_movements_tenant_source_external
SamePair(r, q) == r.ext # 0 /\ r.ext = q.ext

\* An INSERT waits for a transaction that holds a row it competes with.
WaitsFor(c, d) ==
    /\ d # c
    /\ at[c] = "insert"
    /\ \E q \in wrote[d] : UnitsClash(NewRow(c), q) \/ SamePair(NewRow(c), q)

MayInsert(c) == at[c] = "insert" /\ \A d \in Clients : ~WaitsFor(c, d)

Duplicate(c) == \E q \in Visible(c) : SamePair(NewRow(c), q)
Excluded(c) == \E q \in Visible(c) : UnitsClash(NewRow(c), q)

\* After a leg: the next one, or the audit row, the event and the commit.
\* Only an outbound or a transfer first looks for a negative balance; the
\* worker never does.
Probes(c) ==
    \/ req[c].op = "manual" /\ req[c].legs[1].type = "outbound"
    \/ req[c].op \in {"transfer", "sale"}

NextLeg(c) ==
    /\ place' = [place EXCEPT ![c] = IF LastLeg(c) THEN @ ELSE @ + 1]
    /\ at' = [at EXCEPT ![c] = CASE ~LastLeg(c) -> IF req[c].op = "job" THEN "check" ELSE "insert"
                                 [] LastLeg(c) -> "emit"]
    /\ UNCHANGED <<ledger, ops, req, started, seen>>

InsertMovementRow(c) ==
    /\ MayInsert(c)
    /\ ~Duplicate(c)
    /\ ~Excluded(c)
    /\ InRange(NewRow(c).qty)
    /\ wrote' = [wrote EXCEPT ![c] = @ \cup {NewRow(c)}]
    /\ NextLeg(c)

\* ON CONFLICT DO NOTHING: the pair was applied before.
InsertDeduplicates(c) ==
    /\ MayInsert(c)
    /\ Duplicate(c)
    /\ UNCHANGED wrote
    /\ NextLeg(c)

\* The exclusion constraint fires, or the value does not fit.  The API's query
\* for the established unit runs in the doomed transaction and fails as well.
InsertFails(c) ==
    /\ MayInsert(c)
    /\ ~Duplicate(c)
    /\ Excluded(c) \/ ~InRange(NewRow(c).qty)
    /\ Abort(c)

\* Postgres breaks a cycle of waiting transactions by aborting one of them.
Deadlocked(c) ==
    \E S \in SUBSET Clients : c \in S /\ \A x \in S : \E y \in S : WaitsFor(x, y)

DeadlockVictim(c) == Deadlocked(c) /\ Abort(c)

-----------------------------------------------------------------------------
(* Audit, event, negative-balance probe and commit *)

\* One event per operation for what it appended; the job one per line.
Announced(c) ==
    CASE wrote[c] = {} -> {}
      [] wrote[c] # {} /\ req[c].op = "job" -> {{RowId(r)} : r \in wrote[c]}
      [] OTHER -> {{RowId(r) : r \in wrote[c]}}

\* flagIfNegativeOnHand swallows the error of its query, and with it the
\* notice that the transaction is doomed.
ProbeStores(c) == req[c].legs[1].store

FlagIfNegativeOnHand(c) ==
    /\ at[c] = "emit"
    /\ at' = [at EXCEPT ![c] =
          IF /\ Probes(c) /\ wrote[c] # {} /\ req[c].legs[1].product # None
             /\ ~InRange(OnHand(Visible(c), ProbeStores(c), req[c].legs[1].product))
          THEN "doomed" ELSE "commit"]
    /\ UNCHANGED <<ledger, ops, req, started, place, wrote, seen>>

Commit(c) ==
    /\ at[c] = "commit"
    /\ movements' = movements \cup wrote[c]
    /\ events' = events \cup Announced(c)
    /\ counts' = IF req[c].op = "count"
                 THEN counts \cup {[op |-> started[c], counted |-> req[c].legs[1].qty,
                                    derived |-> AsNumber[seen[c]]]}
                 ELSE counts
    /\ UNCHANGED saleOpen
    /\ Ended(c)

\* COMMIT of a doomed transaction rolls back without an error.
CommitDoomed(c) ==
    /\ at[c] = "doomed"
    /\ UNCHANGED <<movements, events, counts, saleOpen>>
    /\ Ended(c)

\* The connection or the process is lost before the commit.
ConnectionLost(c) == at[c] # "idle" /\ Abort(c)

-----------------------------------------------------------------------------
(* Specification *)

Statement(c) ==
    \/ AssertUnitMatchesEstablished(c) \/ CrossUnitError(c)
    \/ ReadDerivedOnHand(c) \/ CountOverflows(c)
    \/ InsertMovementRow(c) \/ InsertDeduplicates(c) \/ InsertFails(c) \/ DeadlockVictim(c)
    \/ FlagIfNegativeOnHand(c) \/ Commit(c) \/ CommitDoomed(c)

InventoryNext ==
    \/ SaleProcessed
    \/ \E c \in Clients :
        \/ CreateStockMovement(c) \/ CreateStockTransfer(c) \/ RecordStockCount(c)
        \/ BackfillSaleLinkedOutbound(c) \/ BackfillRestockInbound(c)
        \/ ProcessBackfillJob(c)
        \/ Statement(c)
        \/ ConnectionLost(c)

InventorySpec == InventoryInit /\ [][InventoryNext]_inventoryVars

-----------------------------------------------------------------------------
(* Properties *)

Statements == {"idle", "check", "sum", "insert", "emit", "doomed", "commit"}

\* Rows, requests and statements are of their kinds, and whoever is idle has
\* written nothing.
InventoryTypeOK ==
    /\ movements \subseteq MovementRow
    /\ ops \in 0 .. MaxOps
    /\ at \in [Clients -> Statements]
    /\ wrote \in [Clients -> SUBSET MovementRow]
    /\ \A c \in Clients : at[c] = "idle" => wrote[c] = {} /\ started[c] = 0

\* All movements of a product at a store are in one unit, also when the first
\* two are inserted by overlapping transactions that both found none (the
\* read-before-insert of assertUnitMatchesEstablished).
OneUnitPerProduct ==
    \A r, q \in movements :
        r.product # None /\ r.store = q.store /\ r.product = q.product => r.unit = q.unit

\* A transfer is on the books with both legs or not at all, and moves exactly
\* what it takes (createStockTransfer).
TransfersBalance ==
    \A r \in {x \in movements : x.group # 0} :
        \E q \in movements :
            /\ {y \in movements : y.group = r.group} = {r, q}
            /\ q.store # r.store /\ q.product = r.product
            /\ q.unit = r.unit /\ q.qty = -r.qty

\* A sale line or a restock is applied once however often and however
\* concurrently it is backfilled, and every movement is named by exactly one
\* outbox event, which names nothing else (redelivered jobs do not emit again).
AppliedAndAnnouncedOnce ==
    /\ InventoryTypeOK
    /\ \A r, q \in movements : r.ext # 0 /\ r.ext = q.ext => r = q
    /\ \A r \in movements : \E e \in events : {f \in events : RowId(r) \in f} = {e}
    /\ UNION events = {RowId(r) : r \in movements}

CountCommits(c) ==
    req[c].op = "count" /\ \E x \in counts' \ counts : x.op = started[c]

\* Quantities on which JavaScript's arithmetic is exact.
ExactCount(c) == {req[c].legs[1].qty, seen[c]} \subseteq -ExactMax..ExactMax

\* What the product's other transactions committed since the count read the sum.
RacedBy(c) == OnHand(movements, req[c].legs[1].store, req[c].legs[1].product) - seen[c]

\* A count corrects by what it saw and takes nothing from the movements that
\* race it: it leaves the counted quantity and what they brought, so it settles
\* exactly when they bring nothing: "the derived on-hand equals the counted
\* quantity (SC-005)" of recordStockCount holds of the others no more.  It is
\* said of quantities on which JavaScript's arithmetic is exact.
CountKeepsRacers ==
    [][\A c \in Clients :
        CountCommits(c) /\ ExactCount(c) =>
            OnHand(movements', req[c].legs[1].store, req[c].legs[1].product)
              = req[c].legs[1].qty + RacedBy(c)]_inventoryVars

-----------------------------------------------------------------------------
(* The inductive invariant: what the open transactions have written.        *)

Requests ==
    ManualRequests \cup TransferRequests \cup CountRequests
      \cup SaleRequests \cup RestockRequests \cup {JobRequest}

Legs == [store : StockStores, product : Products \cup {None}, unit : Units,
         qty : Int, type : MovementTypes, ext : Nat]

\* The statement an open transaction is at fits its request.
ClientShape(c) ==
    /\ at[c] = "idle" => req[c] = NoRequest /\ place[c] = 1
    /\ at[c] # "idle" => req[c] \in Requests /\ place[c] \in 1..Len(req[c].legs)
    /\ at[c] = "sum" => req[c].op = "count"

ClientsOK ==
    /\ req \in [Clients -> Requests \cup {NoRequest}]
    /\ started \in [Clients -> 0..MaxOps]
    /\ place \in [Clients -> Nat]
    /\ seen \in [Clients -> -NumericMax..NumericMax]

\* Time stamps name one transaction, open or committed.
FreshId(c) ==
    at[c] # "idle" =>
        /\ started[c] \in 1..ops
        /\ \A r \in movements : r.op # started[c]
        /\ \A d \in Clients : started[d] = started[c] => d = c

CommittedIds ==
    /\ \A r \in movements : r.op <= ops /\ r.group \in {0, r.op}
    /\ \A r, q \in movements : RowId(r) = RowId(q) => r = q

\* What an open transaction has written is under its own id, leg by leg.
OwnRows(c) ==
    /\ \A r \in wrote[c] :
        /\ r.op = started[c]
        /\ r.group = IF req[c].op = "transfer" THEN started[c] ELSE 0
        /\ r.leg <= place[c]
        /\ at[c] \in {"check", "insert"} => r.leg < place[c]
    /\ \A r, q \in wrote[c] : r.leg = q.leg => r = q
    /\ at[c] = "sum" \/ (at[c] = "check" /\ req[c].op # "job") => wrote[c] = {}

\* The two constraints hold over committed and uncommitted rows together.
Written == movements \cup UNION {wrote[c] : c \in Clients}

NoCompetitors ==
    \A r, q \in Written : ~UnitsClash(r, q) /\ (SamePair(r, q) => r = q)

\* A transfer has written the legs it is past, and at its end both.
TransferLeg(c, i) ==
    [op |-> started[c], leg |-> i, store |-> req[c].legs[i].store,
     product |-> req[c].legs[i].product, unit |-> req[c].legs[i].unit,
     qty |-> req[c].legs[i].qty, type |-> req[c].legs[i].type, ext |-> 0,
     group |-> started[c], count |-> 0]

LegsPast(c) ==
    CASE at[c] = "check" -> {}
      [] at[c] = "insert" -> 1..(place[c] - 1)
      [] OTHER -> {1, 2}

TransferRows(c) ==
    req[c].op = "transfer" => wrote[c] = {TransferLeg(c, i) : i \in LegsPast(c)}

InventoryInvariant ==
    /\ AppliedAndAnnouncedOnce
    /\ ClientsOK
    /\ CommittedIds
    /\ NoCompetitors
    /\ TransfersBalance
    /\ \A c \in Clients :
        ClientShape(c) /\ FreshId(c) /\ OwnRows(c) /\ TransferRows(c)

-----------------------------------------------------------------------------
(* The inductive invariant of counts.                                       *)

\* A count has one movement, the variance, to write after it has read the sum,
\* and none when there is no variance.
CountRows(c) ==
    req[c].op = "count" =>
        /\ at[c] \in {"check", "sum", "insert"} => wrote[c] = {}
        /\ at[c] \in {"emit", "doomed"} => wrote[c] = {NewRow(c)}
        /\ at[c] = "commit" =>
              \/ wrote[c] = {NewRow(c)}
              \/ wrote[c] = {} /\ Variance[<<Current(c).qty, seen[c]>>] = 0

CountInvariant ==
    /\ IsFiniteSet(movements)
    /\ \A c \in Clients : IsFiniteSet(wrote[c]) /\ CountRows(c)
=============================================================================
