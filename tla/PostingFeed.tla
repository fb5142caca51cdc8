---------------------------- MODULE PostingFeed ----------------------------
(***************************************************************************)
(* The ERPNext posting feed: the table erpnext_posting_status between the  *)
(* worker's posting-requested consumer, which inserts a row per sale, void *)
(* or refund, and the connector outside the system, which pulls pending    *)
(* rows in the order of an identity column and acknowledges outcomes; an   *)
(* operator may repair a rejected row, which offers it again.              *)
(*                                                                         *)
(* Consumer, acknowledgement and repair are READ COMMITTED transactions    *)
(* of several statements; a sequence number is drawn by the statement and  *)
(* becomes visible at the commit.  The connector and the item and          *)
(* warehouse maps are the environment: the connector is known only by the  *)
(* calls it makes, and of the maps only whether an active, confirmed entry *)
(* exists.                                                                 *)
(***************************************************************************)
EXTENDS Naturals, FiniteSetsExt

CONSTANTS
    Refs,           \* source_ref_id: sales, voids and refunds
    Products,       \* tenant products
    AdHoc,          \* a line without tenant_product_ref
    LineProducts,   \* [Refs -> the products on the lines of its sale]
    Stores,
    StoreOf,        \* [Refs -> Stores]
    Documents,      \* ERPNext documents that a posted outcome may name
    NoDocument,
    NoRef,
    Txns,           \* concurrent transactions on the table
    PageSize,       \* limit of a pull
    RetryBudget,    \* POSTING_RETRY_BUDGET
    MaxIncidents,   \* bound: failed transactions, events delivered again and
                    \* map entries retired
    MaxRepairs      \* bound: repairs of a rejected row

ASSUME FeedAssumption ==
    /\ LineProducts \in [Refs -> SUBSET (Products \cup {AdHoc})]
    /\ AdHoc \notin Products
    /\ StoreOf \in [Refs -> Stores]
    /\ NoDocument \notin Documents
    /\ NoRef \notin Refs
    /\ PageSize \in Nat \ {0}
    /\ RetryBudget \in Nat
    /\ MaxIncidents \in Nat
    /\ MaxRepairs \in Nat

VARIABLES
    deliveries,     \* consumer runs so far of the event of each ref
    requested,      \* refs whose posting event is in the outbox
    itemMap,        \* [Products -> state of the active mapping]
    warehouses,     \* stores with an active warehouse mapping
    mapChanges,
    status,         \* erpnext_posting_status.status, or "none"
    sequence,       \* erpnext_posting_status.sequence
    retryCount,     \* erpnext_posting_status.retry_count
    documentRef,    \* erpnext_posting_status.document_ref
    category,       \* erpnext_posting_status.rejection_category
    nextSeq,        \* the identity column's next value
    txn,            \* [Txns -> running transaction]
    aborts,         \* transactions failed so far
    repairs,        \* repairs begun so far
    cursor,         \* the connector's cursor
    inHand,         \* items pulled by the connector and not answered yet
    offered,        \* items ever on a page
    accepted,       \* [Refs -> documents whose posted ack was answered with success]
    dismissed       \* rows that the connector itself rejected with a reason

mapVars == <<itemMap, warehouses, mapChanges>>
rowVars == <<status, sequence, retryCount, documentRef, category>>
connectorVars == <<cursor, inHand, offered>>
vars == <<deliveries, requested, mapVars, rowVars, nextSeq, txn, aborts,
          repairs, connectorVars, accepted, dismissed>>

Terminal == {"posted", "permanently_rejected"}
Unmapped == {"unmapped_store", "unmapped_item"}
Categories == Unmapped \cup {"null", "other", "retry_budget_exhausted"}

\* RejectionReasonSchema: a connector, too, may say unmapped_item; its other
\* reasons are told apart by nobody.
Reasons == {"unmapped_item", "other"}

NoRow == [status |-> "none", sequence |-> 0, retryCount |-> 0,
          documentRef |-> NoDocument, category |-> "null"]

\* row is what the transaction will have written when it commits.
NoTransaction == [op |-> "none", ref |-> NoRef, step |-> "idle", row |-> NoRow]

Init ==
    /\ deliveries = [r \in Refs |-> 0]
    /\ requested = {}
    /\ itemMap = [p \in Products |-> "none"]
    /\ warehouses = {}
    /\ mapChanges = 0
    /\ status = [r \in Refs |-> "none"]
    /\ sequence = [r \in Refs |-> 0]
    /\ retryCount = [r \in Refs |-> 0]
    /\ documentRef = [r \in Refs |-> NoDocument]
    /\ category = [r \in Refs |-> "null"]
    /\ nextSeq = 1
    /\ txn = [t \in Txns |-> NoTransaction]
    /\ aborts = 0
    /\ repairs = 0
    /\ cursor = 0
    /\ inHand = {}
    /\ offered = {}
    /\ accepted = [r \in Refs |-> {}]
    /\ dismissed = {}

-----------------------------------------------------------------------------
(* Environment: producers of the event, and the two maps.                  *)

\* The sale-processing job, recordVoid and recordRefund each emit one event
\* per sale, void or refund, in the transaction that writes it.
RequestPosting(r) ==
    /\ r \notin requested
    /\ requested' = requested \cup {r}
    /\ UNCHANGED <<aborts, repairs, deliveries, mapVars, rowVars, nextSeq,
                   txn, connectorVars, accepted, dismissed>>

\* What the bound counts.
Incidents ==
    aborts + mapChanges +
    MapThenSumSet(LAMBDA r : IF deliveries[r] > 1 THEN deliveries[r] - 1 ELSE 0, Refs)

\* suggest and confirm; at most one active entry per product.
SuggestItem(p) ==
    /\ itemMap[p] = "none"
    /\ itemMap' = [itemMap EXCEPT ![p] = "suggested"]
    /\ UNCHANGED <<aborts, repairs, deliveries, requested, warehouses,
                   mapChanges, rowVars, nextSeq, txn, connectorVars,
                   accepted, dismissed>>

ConfirmItem(p) ==
    /\ itemMap[p] = "suggested"
    /\ itemMap' = [itemMap EXCEPT ![p] = "confirmed"]
    /\ UNCHANGED <<aborts, repairs, deliveries, requested, warehouses,
                   mapChanges, rowVars, nextSeq, txn, connectorVars,
                   accepted, dismissed>>

RetireItem(p) ==
    /\ itemMap[p] # "none"
    /\ Incidents < MaxIncidents
    /\ mapChanges' = mapChanges + 1
    /\ itemMap' = [itemMap EXCEPT ![p] = "none"]
    /\ UNCHANGED <<aborts, repairs, deliveries, requested, warehouses,
                   rowVars, nextSeq, txn, connectorVars, accepted, dismissed>>

SetWarehouse(s) ==
    /\ s \notin warehouses
    /\ warehouses' = warehouses \cup {s}
    /\ UNCHANGED <<aborts, repairs, deliveries, requested, itemMap,
                   mapChanges, rowVars, nextSeq, txn, connectorVars,
                   accepted, dismissed>>

RetireWarehouse(s) ==
    /\ s \in warehouses
    /\ Incidents < MaxIncidents
    /\ mapChanges' = mapChanges + 1
    /\ warehouses' = warehouses \ {s}
    /\ UNCHANGED <<aborts, repairs, deliveries, requested, itemMap, rowVars,
                   nextSeq, txn, connectorVars, accepted, dismissed>>

-----------------------------------------------------------------------------
(* PostingRequestedConsumer.handle: two reads, one INSERT, COMMIT.         *)

Confirmed(p) == p \in Products /\ itemMap[p] = "confirmed"

Verdict(st, cat) == [NoRow EXCEPT !.status = st, !.category = cat]

Go(t, o, r, st, row) ==
    txn' = [txn EXCEPT ![t] = [op |-> o, ref |-> r, step |-> st, row |-> row]]

End(t) == txn' = [txn EXCEPT ![t] = NoTransaction]

\* Somebody's uncommitted write of the row of r, or a repair's FOR UPDATE.
Locked(r) ==
    \E t \in Txns :
        txn[t].ref = r /\ (txn[t].step = "commit" \/ txn[t].op = "repair")

\* The warehouse query of resolveEligibility.
ResolveWarehouse(t, r) ==
    /\ txn[t] = NoTransaction
    /\ r \in requested
    /\ deliveries[r] = 0 \/ Incidents < MaxIncidents
    /\ deliveries' = [deliveries EXCEPT ![r] = @ + 1]
    /\ IF StoreOf[r] \in warehouses
       THEN Go(t, "create", r, "items", NoRow)
       ELSE Go(t, "create", r, "insert",
               Verdict("permanently_rejected", "unmapped_store"))
    /\ UNCHANGED <<aborts, repairs, requested, mapVars, rowVars, nextSeq,
                   connectorVars, accepted, dismissed>>

\* Its query for lines without a confirmed, active item mapping.
ResolveItems(t) ==
    LET r == txn[t].ref IN
    /\ txn[t].op = "create"
    /\ txn[t].step = "items"
    /\ IF \A p \in LineProducts[r] : Confirmed(p)
       THEN Go(t, "create", r, "insert", Verdict("pending", "null"))
       ELSE Go(t, "create", r, "insert", Verdict("permanently_rejected", "unmapped_item"))
    /\ UNCHANGED <<aborts, repairs, deliveries, requested, mapVars, rowVars,
                   nextSeq, connectorVars, accepted, dismissed>>

\* Variant of InsertPosting: ON CONFLICT DO UPDATE with the new verdict.
InsertPostingOverwrites(t) ==
    LET r == txn[t].ref IN
    /\ txn[t].step = "insert"
    /\ ~Locked(r)
    /\ nextSeq' = nextSeq + 1
    /\ Go(t, "create", r, "commit", [txn[t].row EXCEPT !.sequence = nextSeq])
    /\ UNCHANGED <<aborts, repairs, deliveries, requested, mapVars, rowVars,
                   connectorVars, accepted, dismissed>>

\* The INSERT draws its sequence number, and waits for another transaction
\* that is writing the same source_ref_id ...
InsertPosting(t) ==
    LET r == txn[t].ref IN
    /\ txn[t].step = "insert"
    /\ ~Locked(r)
    /\ status[r] = "none"
    /\ nextSeq' = nextSeq + 1
    /\ Go(t, "create", r, "commit", [txn[t].row EXCEPT !.sequence = nextSeq])
    /\ UNCHANGED <<aborts, repairs, deliveries, requested, mapVars, rowVars,
                   connectorVars, accepted, dismissed>>

\* ... and does nothing when the row exists: the first verdict stands.
InsertConflicts(t) ==
    LET r == txn[t].ref IN
    /\ txn[t].step = "insert"
    /\ ~Locked(r)
    /\ status[r] # "none"
    /\ nextSeq' = nextSeq + 1
    /\ End(t)
    /\ UNCHANGED <<aborts, repairs, deliveries, requested, mapVars, rowVars,
                   connectorVars, accepted, dismissed>>

Write(r, row) ==
    /\ status' = [status EXCEPT ![r] = row.status]
    /\ sequence' = [sequence EXCEPT ![r] = row.sequence]
    /\ retryCount' = [retryCount EXCEPT ![r] = row.retryCount]
    /\ documentRef' = [documentRef EXCEPT ![r] = row.documentRef]
    /\ category' = [category EXCEPT ![r] = row.category]

CreateCommit(t) ==
    /\ txn[t].op = "create"
    /\ txn[t].step = "commit"
    /\ Write(txn[t].ref, txn[t].row)
    /\ End(t)
    /\ UNCHANGED <<aborts, repairs, deliveries, requested, mapVars, nextSeq,
                   connectorVars, accepted, dismissed>>

\* Any statement or the COMMIT fails; a drawn sequence number is gone.
Abort(t) ==
    /\ txn[t] # NoTransaction
    /\ Incidents < MaxIncidents
    /\ aborts' = aborts + 1
    /\ End(t)
    /\ UNCHANGED <<repairs, deliveries, requested, mapVars, rowVars, nextSeq,
                   connectorVars, accepted, dismissed>>

-----------------------------------------------------------------------------
(* The connector's calls.                                                  *)

\* The pending rows after the cursor, in the order of their sequence.
Due == {r \in Refs : status[r] = "pending" /\ sequence[r] > cursor}

Page ==
    {r \in Due : Cardinality({q \in Due : sequence[q] < sequence[r]}) < PageSize}

\* buildWorkItem re-reads the item map; null leaves the row off the page.
Assembles(r) == \A p \in LineProducts[r] : Confirmed(p)

\* pullPostings writes nothing; the connector keeps the returned cursor, the
\* sequence of the page's last row, and takes the items.
PullPostings ==
    LET items == {r \in Page : Assembles(r)} IN
    /\ Page # {}
    /\ \E last \in Page :
        /\ \A r \in Page : sequence[r] <= sequence[last]
        /\ cursor' = sequence[last]
    /\ inHand' = inHand \cup items
    /\ offered' = offered \cup items
    /\ UNCHANGED <<aborts, repairs, deliveries, requested, mapVars, rowVars,
                   nextSeq, txn, accepted, dismissed>>

\* A pull without since: the connector starts over.
StartOver ==
    /\ cursor # 0
    /\ cursor' = 0
    /\ UNCHANGED <<aborts, repairs, deliveries, requested, mapVars, rowVars,
                   nextSeq, txn, inHand, offered, accepted, dismissed>>

Current(r) == [status |-> status[r], sequence |-> sequence[r],
               retryCount |-> retryCount[r], documentRef |-> documentRef[r],
               category |-> category[r]]

applyPosted(r, d) ==
    [Current(r) EXCEPT !.status = "posted", !.documentRef = d]

applyRejected(r, cat) ==
    [Current(r) EXCEPT !.status = "permanently_rejected", !.category = cat]

\* sequence = DEFAULT re-heads the row, until the budget is exhausted.
applyTransient(r) ==
    IF retryCount[r] >= RetryBudget
    THEN applyRejected(r, "retry_budget_exhausted")
    ELSE [Current(r) EXCEPT !.retryCount = @ + 1, !.sequence = nextSeq]

Outcomes == {"posted", "permanently_rejected", "failed_transient"}

\* Variant of AckOutcome: SELECT without FOR UPDATE.
AckOutcomeUnlocked(t, r, outcome, d, reason) ==
    LET row == CASE outcome = "posted" -> applyPosted(r, d)
                 [] outcome = "permanently_rejected" -> applyRejected(r, reason)
                 [] outcome = "failed_transient" -> applyTransient(r)
    IN
    /\ txn[t] = NoTransaction
    /\ r \in offered
    /\ status[r] \notin Terminal
    /\ nextSeq' = IF row.sequence = sequence[r] THEN nextSeq ELSE nextSeq + 1
    /\ Go(t, "ack", r, "commit", row)
    /\ UNCHANGED <<aborts, repairs, deliveries, requested, mapVars, rowVars,
                   connectorVars, accepted, dismissed>>

\* ackOutcome on a row that is not terminal: SELECT ... FOR UPDATE, then the
\* UPDATE of the outcome.  A late or repeated ack is like any other.
AckOutcome(t, r, outcome, d, reason) ==
    LET row == CASE outcome = "posted" -> applyPosted(r, d)
                 [] outcome = "permanently_rejected" -> applyRejected(r, reason)
                 [] outcome = "failed_transient" -> applyTransient(r)
    IN
    /\ txn[t] = NoTransaction
    /\ r \in offered
    /\ ~Locked(r)
    /\ status[r] \notin Terminal
    /\ nextSeq' = IF row.sequence = sequence[r] THEN nextSeq ELSE nextSeq + 1
    /\ Go(t, "ack", r, "commit", row)
    /\ UNCHANGED <<aborts, repairs, deliveries, requested, mapVars, rowVars,
                   connectorVars, accepted, dismissed>>

AckCommit(t) ==
    LET r == txn[t].ref
        d == txn[t].row.documentRef IN
    /\ txn[t].op = "ack"
    /\ Write(r, txn[t].row)
    /\ accepted' = [accepted EXCEPT ![r] = @ \cup ({d} \ {NoDocument})]
    /\ dismissed' = IF txn[t].row.category \in Reasons
                       /\ txn[t].row.status = "permanently_rejected"
                    THEN dismissed \cup {r} ELSE dismissed
    /\ inHand' = inHand \ {r}
    /\ End(t)
    /\ UNCHANGED <<aborts, repairs, deliveries, requested, mapVars, nextSeq,
                   cursor, offered>>

\* The stored outcome and document are those of this ack.
sameLogicalOutcome(r, outcome, d) ==
    /\ status[r] = outcome
    /\ outcome = "posted" => documentRef[r] = d

\* ackOutcome on a terminal row: an echo of the stored outcome, or a 409.
AckAnswered(r, outcome, d) ==
    /\ r \in offered
    /\ ~Locked(r)
    /\ status[r] \in Terminal
    /\ accepted' = [accepted EXCEPT ![r] =
                      IF sameLogicalOutcome(r, outcome, d) /\ outcome = "posted"
                      THEN @ \cup {d} ELSE @]
    /\ inHand' = inHand \ {r}
    /\ UNCHANGED <<aborts, repairs, deliveries, requested, mapVars, rowVars,
                   nextSeq, txn, cursor, offered, dismissed>>

-----------------------------------------------------------------------------
(* repairPosting: the operator offers a rejected row again.  On a pending   *)
(* or posted row it only records an attempt.                               *)

\* SELECT ... FOR UPDATE.
RepairRead(t, r) ==
    /\ txn[t] = NoTransaction
    /\ ~Locked(r)
    /\ status[r] = "permanently_rejected"
    /\ repairs < MaxRepairs
    /\ repairs' = repairs + 1
    /\ Go(t, "repair", r, "warehouse", NoRow)
    /\ UNCHANGED <<aborts, deliveries, requested, mapVars, rowVars, nextSeq,
                   connectorVars, accepted, dismissed>>

\* resolvePostingEligibility asks the same two questions again; a row that
\* still does not resolve stays as it is.
RepairWarehouse(t) ==
    LET r == txn[t].ref IN
    /\ txn[t].op = "repair"
    /\ txn[t].step = "warehouse"
    /\ IF StoreOf[r] \in warehouses
       THEN Go(t, "repair", r, "items", NoRow)
       ELSE End(t)
    /\ UNCHANGED <<aborts, repairs, deliveries, requested, mapVars, rowVars,
                   nextSeq, connectorVars, accepted, dismissed>>

\* The row that a repair writes; document_ref and rejection_category stay.
Reoffered(r) ==
    [Current(r) EXCEPT !.status = "pending", !.sequence = nextSeq, !.retryCount = 0]

RepairItems(t) ==
    LET r == txn[t].ref IN
    /\ txn[t].op = "repair"
    /\ txn[t].step = "items"
    /\ IF \A p \in LineProducts[r] : Confirmed(p)
       THEN /\ Go(t, "repair", r, "commit", Reoffered(r))
            /\ nextSeq' = nextSeq + 1
       ELSE End(t) /\ UNCHANGED nextSeq
    /\ UNCHANGED <<aborts, repairs, deliveries, requested, mapVars, rowVars,
                   connectorVars, accepted, dismissed>>

RepairCommit(t) ==
    /\ txn[t].op = "repair"
    /\ txn[t].step = "commit"
    /\ Write(txn[t].ref, txn[t].row)
    /\ End(t)
    /\ UNCHANGED <<aborts, repairs, deliveries, requested, mapVars, nextSeq,
                   connectorVars, accepted, dismissed>>

-----------------------------------------------------------------------------
MapStep ==
    \/ \E p \in Products : SuggestItem(p) \/ ConfirmItem(p) \/ RetireItem(p)
    \/ \E s \in Stores : SetWarehouse(s) \/ RetireWarehouse(s)

ConsumerStep(t) ==
    \/ \E r \in Refs : ResolveWarehouse(t, r)
    \/ ResolveItems(t)
    \/ InsertPosting(t)
    \/ InsertConflicts(t)
    \/ CreateCommit(t)

RepairStep(t) ==
    RepairWarehouse(t) \/ RepairItems(t) \/ RepairCommit(t)

\* OutcomeAckBodySchema: a posted outcome names a document, a rejection a reason.
Named(outcome) == IF outcome = "posted" THEN Documents ELSE {NoDocument}
Given(outcome) == IF outcome = "permanently_rejected" THEN Reasons ELSE {"null"}

Acknowledge(r) ==
    \E outcome \in Outcomes : \E d \in Named(outcome), reason \in Given(outcome) :
        \/ AckAnswered(r, outcome, d)
        \/ \E t \in Txns : AckOutcome(t, r, outcome, d, reason)

Next ==
    \/ \E r \in Refs : RequestPosting(r) \/ Acknowledge(r)
    \/ MapStep
    \/ \E t \in Txns : ConsumerStep(t) \/ AckCommit(t) \/ Abort(t)
    \/ \E t \in Txns : RepairStep(t) \/ \E r \in Refs : RepairRead(t, r)
    \/ PullPostings
    \/ StartOver

Spec == Init /\ [][Next]_vars

\* Transactions come to their end, and the connector polls and answers what
\* it has pulled.  Nothing obliges it to start over.
Fairness ==
    /\ \A t \in Txns :
        /\ WF_vars(ResolveItems(t) \/ InsertPosting(t) \/ InsertConflicts(t)
                     \/ CreateCommit(t))
        /\ WF_vars(AckCommit(t))
        /\ WF_vars(RepairStep(t))
    /\ WF_vars(PullPostings)
    /\ \A r \in Refs : WF_vars(r \in inHand /\ Acknowledge(r))

FairSpec == Spec /\ Fairness

-----------------------------------------------------------------------------
(* Properties.                                                             *)

Statuses == {"none", "pending"} \cup Terminal

Rows == [status : Statuses, sequence : Nat,
         retryCount : 0..RetryBudget, documentRef : Documents \cup {NoDocument},
         category : Categories]

Transactions ==
    [op : {"none", "create", "ack", "repair"},
     ref : Refs \cup {NoRef},
     step : {"idle", "warehouse", "items", "insert", "commit"},
     row : Rows]

\* Every variable has its type.
TypeOK ==
    /\ deliveries \in [Refs -> Nat]
    /\ requested \in SUBSET Refs
    /\ itemMap \in [Products -> {"none", "suggested", "confirmed"}]
    /\ warehouses \in SUBSET Stores
    /\ mapChanges \in Nat
    /\ status \in [Refs -> Statuses]
    /\ sequence \in [Refs -> Nat]
    /\ retryCount \in [Refs -> 0..RetryBudget]
    /\ documentRef \in [Refs -> Documents \cup {NoDocument}]
    /\ category \in [Refs -> Categories]
    /\ nextSeq \in Nat
    /\ txn \in [Txns -> Transactions]
    /\ aborts \in Nat
    /\ repairs \in 0..MaxRepairs
    /\ cursor \in Nat
    /\ inHand \in SUBSET Refs
    /\ offered \in SUBSET Refs
    /\ accepted \in [Refs -> SUBSET Documents]
    /\ dismissed \in SUBSET Refs

\* Exactly one document per originating row: whatever acks arrive, repeated,
\* late or contradicting, the connector never gets success for a document
\* other than the stored one.
OneDocument ==
    \A r \in Refs :
        /\ \A d \in accepted[r] : status[r] = "posted" /\ documentRef[r] = d
        /\ status[r] = "posted" <=> documentRef[r] # NoDocument

\* The worker never refuses a row that the connector has seen: a row rejected
\* for a missing mapping was never on a page, unless the connector itself has
\* rejected it since with its own reason, which may be unmapped_item too.
RefusedNeverOffered ==
    \A r \in offered :
        status[r] = "permanently_rejected" /\ category[r] \in Unmapped
            => r \in dismissed /\ category[r] \in Reasons

\* No two rows share a sequence number, so a page boundary cuts cleanly, and
\* no row lies ahead of the identity column.
DistinctSequences ==
    \A q, r \in Refs :
        /\ status[r] # "none" => sequence[r] \in 1..(nextSeq - 1)
        /\ status[q] # "none" /\ status[r] # "none" /\ sequence[q] = sequence[r] => q = r

\* Re-offers are bounded: the budget is spent before it is called exhausted.
BudgetSpentFirst ==
    \A r \in Refs :
        (status[r] = "permanently_rejected" /\ category[r] = "retry_budget_exhausted")
            => retryCount[r] = RetryBudget

\* However acks, deliveries, repairs and retirements of map entries interleave:
\* one document per row, no offer of one the worker refused, distinct sequence
\* numbers and a retry budget spent to its end.
FeedInvariant ==
    /\ TypeOK
    /\ OneDocument
    /\ RefusedNeverOffered
    /\ DistinctSequences
    /\ BudgetSpentFirst

\* The stored outcome wins: a posted row never changes again, and a rejected
\* one only by a repair, whatever acks and deliveries of the event come late.
OutcomeStands ==
    [][\A r \in Refs :
         status[r] \in Terminal /\ Current(r)' # Current(r) =>
             /\ status[r] = "permanently_rejected"
             /\ status'[r] = "pending"
             /\ \E t \in Txns : txn[t].op = "repair" /\ txn[t].ref = r]_vars

\* connector-lifecycle.md: "an un-ACK'd item is re-offered"; applyTransient:
\* "a connector that already advanced its cursor past the old sequence sees
\* the row again".  So every pending row is decided in the end.
PendingIsDecided ==
    \A r \in Refs : status[r] = "pending" ~> status[r] \in Terminal

-----------------------------------------------------------------------------
(* The inductive invariant: what a transaction knows, from its locks, of   *)
(* the row that it will overwrite.                                         *)

Locks(t) == txn[t].step = "commit" \/ txn[t].op = "repair"

IdleShape(t) == txn[t].op = "none" => txn[t] = NoTransaction

\* A row is created once, with a verdict and nothing else in it.
CreateShape(t) ==
    txn[t].op = "create" =>
        /\ txn[t].ref \in Refs
        /\ txn[t].step \in {"items", "insert", "commit"}
        /\ txn[t].step # "items" =>
             /\ txn[t].row.status \in {"pending", "permanently_rejected"}
             /\ txn[t].row.documentRef = NoDocument
             /\ txn[t].row.category # "retry_budget_exhausted"
        /\ txn[t].step = "commit" => status[txn[t].ref] = "none"

\* An ack overwrites a pending row that was offered.
AckShape(t) ==
    txn[t].op = "ack" =>
        /\ txn[t].ref \in offered
        /\ txn[t].step = "commit"
        /\ status[txn[t].ref] = "pending"
        /\ txn[t].row.status # "none"
        /\ txn[t].row.status = "posted" <=> txn[t].row.documentRef # NoDocument
        /\ txn[t].row.status = "permanently_rejected" =>
             /\ txn[t].row.category \in Reasons \cup {"retry_budget_exhausted"}
             /\ txn[t].row.category = "retry_budget_exhausted" =>
                  txn[t].row.retryCount = RetryBudget

\* A repair overwrites a rejected row.
RepairShape(t) ==
    txn[t].op = "repair" =>
        /\ txn[t].ref \in Refs
        /\ txn[t].step \in {"warehouse", "items", "commit"}
        /\ status[txn[t].ref] = "permanently_rejected"
        /\ txn[t].step = "commit" =>
             txn[t].row.status = "pending" /\ txn[t].row.documentRef = NoDocument

TxnShape ==
    \A t \in Txns : IdleShape(t) /\ CreateShape(t) /\ AckShape(t) /\ RepairShape(t)

OneWriter ==
    \A t, u \in Txns : Locks(t) /\ Locks(u) /\ txn[t].ref = txn[u].ref => t = u

\* The number that a transaction will write is no other row's, committed or not.
DrawnOnce ==
    \A t \in Txns : txn[t].step = "commit" =>
        /\ txn[t].row.sequence \in 1..(nextSeq - 1)
        /\ \A r \in Refs : status[r] # "none" /\ sequence[r] = txn[t].row.sequence
                             => r = txn[t].ref
        /\ \A u \in Txns :
             txn[u].step = "commit" /\ txn[u].row.sequence = txn[t].row.sequence
               => txn[u].ref = txn[t].ref

OfferedExists == \A r \in offered : status[r] # "none"

FeedInductive ==
    /\ FeedInvariant
    /\ TxnShape
    /\ OneWriter
    /\ DrawnOnce
    /\ OfferedExists
    /\ nextSeq >= 1
=============================================================================
