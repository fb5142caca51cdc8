---------------------------- MODULE UnknownItems -----------------------------
(***************************************************************************)
(* Unknown items and their reconciliation.  A till submits an identifier    *)
(* (UnknownItemsService.captureItem): an active alias answers it, otherwise *)
(* a pending row is found or inserted.  Reviewers settle a pending row once *)
(* - dismiss it, link it to a product, or create a product from it - and a  *)
(* tenant-wide reviewer may reopen a dismissed one, which inserts a fresh   *)
(* row (ReconciliationService).                                             *)
(*                                                                         *)
(* Operations are READ COMMITTED transactions.  Dismissing is one           *)
(* conditional UPDATE; the others take the row's lock with SELECT ... FOR   *)
(* UPDATE.  The aliases carry partial unique indexes, the pending rows do   *)
(* not: an alias INSERT waits for an uncommitted competitor, a row INSERT   *)
(* meets none.  Audit records are enqueued after the commit; a failure to   *)
(* enqueue is swallowed.                                                    *)
(***************************************************************************)
EXTENDS Naturals, SequencesExt, FiniteSetsExt

CONSTANTS
    Stores,
    Identifiers,    \* [type, value, source] a till may submit
    Products,       \* tenant_products rows at the start, numbered from 1
    Clients,
    Role,           \* [Clients -> role]
    Scope,          \* [Clients -> store context, None when tenant-wide]
    ListLimit,      \* limit of a review-queue page
    MaxItems,       \* bound: rows ever inserted
    MaxAliases,     \* bound: aliases ever created by hand
    MaxFaults,      \* bound: requests that die and enqueues that fail
    None            \* NULL

ASSUME UnknownItemsAssumption ==
    /\ Role \in [Clients -> {"pos", "store_manager", "tenant_admin", "owner"}]
    /\ Scope \in [Clients -> Stores \cup {None}]
    /\ \A c \in Clients : Role[c] = "pos" => Scope[c] # None
    /\ Cardinality(Products) \in Nat
    /\ Products = 1..Cardinality(Products)
    /\ MaxItems \in Nat /\ MaxFaults \in Nat
    /\ None \notin Stores \cup {"linked", "created", "dismissed"}

VARIABLES
    items,          \* unknown_items, in the order they were committed
    aliases,        \* active product_aliases, oldest first
    products,       \* ids of tenant_products
    retired,        \* those with retired_at set
    audits,         \* <<action, item>> audit records enqueued
    settles,        \* [item -> times a client was told it settled it]
    prior,          \* prior states a bulk dismissal reported
    faults,
    shown,          \* [Clients -> ids of the review queue last read]
    at,             \* [Clients -> next statement of the request, "idle"]
    job,            \* [Clients -> the request]
    locked,         \* [Clients -> row it holds FOR UPDATE, 0 for none]
    held            \* [Clients -> alias inserted and not committed, None]

vars == <<items, aliases, products, retired, audits, settles,
          prior, faults, shown, at, job, locked, held>>

stored == <<items, aliases, products, retired>>

-----------------------------------------------------------------------------
(* What the tables hold.                                                     *)

Statuses == {"pending", "resolved", "dismissed"}

\* A row of unknown_items.
UnknownItemRow ==
    [store : Stores, ident : Identifiers, status : Statuses,
     action : {"linked", "created", "dismissed", None}, product : Nat \cup {None}]

PendingRow(store, ident) ==
    [store |-> store, ident |-> ident, status |-> "pending",
     action |-> None, product |-> None]

\* A row of product_aliases.
ProductAliasRow ==
    [ident : Identifiers, store : Stores \cup {None}, product : Nat]

\* CHECK product_aliases_store_scope_consistency.
StoreScopeConsistent(a) == a.store = None \/ a.ident.type # "external_pos_id"

\* The three partial unique indexes of product_aliases.
SameKey(a, b) ==
    /\ a.ident.type = b.ident.type
    /\ a.ident.value = b.ident.value
    /\ \/ a.ident.type = "external_pos_id" /\ a.ident.source = b.ident.source
       \/ a.ident.type # "external_pos_id" /\ a.store = b.store

ItemIds == 1..Len(items)
AliasSet == ToSet(aliases)
Uncommitted(c) == {held[d] : d \in Clients \ {c}} \ {None}

\* Row-level security: a store context sees the rows of its store, a
\* tenant-wide one ('*') every row.
Visible(c, i) == i \in ItemIds /\ Scope[c] \in {None, items[i].store}

\* The pending row a new submission of the same identifier is folded into.
Siblings(store, ident) ==
    {i \in ItemIds : items[i].store = store /\ items[i].ident = ident
                       /\ items[i].status = "pending"}

\* Row locks: nobody else holds row i.
Unlocked(c, i) == \A d \in Clients \ {c} : locked[d] # i

\* The clean state of a client between requests.
Idle == [kind |-> "none"]

Done(c) ==
    /\ at' = [at EXCEPT ![c] = "idle"]
    /\ job' = [job EXCEPT ![c] = Idle]
    /\ locked' = [locked EXCEPT ![c] = 0]
    /\ held' = [held EXCEPT ![c] = None]

GoTo(c, step) == at' = [at EXCEPT ![c] = step] /\ UNCHANGED <<job, locked, held>>

Init ==
    /\ items = <<>>
    /\ aliases = <<>>
    /\ products = Products
    /\ retired = {}
    /\ audits = {}
    /\ settles = [i \in 1..MaxItems |-> 0]
    /\ prior = {}
    /\ faults = 0
    /\ shown = [c \in Clients |-> {}]
    /\ at = [c \in Clients |-> "idle"]
    /\ job = [c \in Clients |-> Idle]
    /\ locked = [c \in Clients |-> 0]
    /\ held = [c \in Clients |-> None]

-----------------------------------------------------------------------------
(* Capture.                                                                  *)

\* PosCaptureItemRequestSchema: a source system exactly for external ids.
ValidCapture(ident) == ident.type = "external_pos_id" <=> ident.source # None

\* posCaptureItem: a till with a store context submits an identifier.
PosCapture(c) ==
    /\ at[c] = "idle" /\ Role[c] = "pos"
    /\ \E ident \in Identifiers :
        /\ ValidCapture(ident)
        /\ job' = [job EXCEPT ![c] = [kind |-> "capture", store |-> Scope[c], ident |-> ident]]
    /\ at' = [at EXCEPT ![c] = "lookup"]
    /\ UNCHANGED <<stored, audits, settles, prior, faults, shown, locked, held>>

\* The active aliases the lookup's WHERE clause selects: type and value, at
\* this store or tenant-wide.
Matching(ident, store) ==
    {n \in 1..Len(aliases) :
        /\ aliases[n].ident.type = ident.type
        /\ aliases[n].ident.value = ident.value
        /\ aliases[n].store \in {None, store}}

\* captureItem, the alias prelude: a hit answers the till.
CaptureLookup(c) ==
    /\ at[c] = "lookup"
    /\ LET found == Matching(job[c].ident, job[c].store)
       IN  IF found = {}
           THEN GoTo(c, "dedup")
           ELSE Done(c)
    /\ UNCHANGED <<stored, audits, settles, prior, faults, shown>>

\* captureItem, the natural-dedup SELECT: a pending sibling is the answer.
CaptureDedup(c) ==
    /\ at[c] = "dedup"
    /\ IF Siblings(job[c].store, job[c].ident) # {} THEN Done(c) ELSE GoTo(c, "insert")
    /\ UNCHANGED <<stored, audits, settles, prior, faults, shown>>

\* captureItem, the fallback INSERT and the commit.
CaptureInsert(c) ==
    /\ at[c] = "insert" /\ Len(items) < MaxItems
    /\ items' = Append(items, PendingRow(job[c].store, job[c].ident))
    /\ Done(c)
    /\ UNCHANGED <<aliases, products, retired, audits, settles, prior, faults, shown>>

-----------------------------------------------------------------------------
(* Review.                                                                   *)

\* listForTenant: one page of the visible rows with a status, newest first;
\* there is no second page.
ReviewQueue(c, status) ==
    LET rows == {i \in ItemIds : Visible(c, i) /\ items[i].status = status}
    IN  {i \in rows : Cardinality({j \in rows : j > i}) < ListLimit}

\* tenantAdminListUnknownItems: what a reviewer acts on later is what the
\* queue showed.
List(c) ==
    /\ at[c] = "idle" /\ Role[c] # "pos"
    /\ \E status \in Statuses \ {"resolved"} : shown' = [shown EXCEPT ![c] = ReviewQueue(c, status)]
    /\ shown' # shown
    /\ UNCHANGED <<stored, audits, settles, prior, faults, at, job, locked, held>>

\* dismissUnknownItem's UPDATE: it waits for the row's lock and takes effect
\* only if the row is then still pending.
DismissRow(i) ==
    /\ items' = [items EXCEPT ![i] = [@ EXCEPT !.status = "dismissed", !.action = "dismissed"]]
    /\ settles' = [settles EXCEPT ![i] = @ + 1]

\* Variant of Dismissable: only a resolved row refuses the dismissal.
DismissableUnlessResolved(i) == items[i].status # "resolved"

\* WHERE resolution_status = 'pending'.
Dismissable(i) == items[i].status = "pending"

\* An enqueue after the commit either reaches the queue or fails unnoticed.
Enqueue(entry) ==
    \/ audits' = audits \cup {entry} /\ UNCHANGED faults
    \/ faults < MaxFaults /\ faults' = faults + 1 /\ UNCHANGED audits

\* Variant of Dismiss: the audit record is enqueued whatever the UPDATE did.
DismissAuditsAlways(c) ==
    /\ at[c] = "idle" /\ Role[c] # "pos"
    /\ \E i \in shown[c] :
        /\ Unlocked(c, i)
        /\ IF Dismissable(i) THEN DismissRow(i) ELSE UNCHANGED <<items, settles>>
        /\ Enqueue(<<"dismissed", i>>)
    /\ UNCHANGED <<aliases, products, retired, prior, shown, at, job, locked, held>>

\* tenantAdminDismissUnknownItem: one transaction; 409 when the row is
\* settled, 404 when it is not visible.
Dismiss(c) ==
    /\ at[c] = "idle" /\ Role[c] # "pos"
    /\ \E i \in shown[c] :
        /\ Unlocked(c, i)
        /\ IF Dismissable(i)
           THEN DismissRow(i) /\ Enqueue(<<"dismissed", i>>)
           ELSE UNCHANGED <<items, settles, audits, faults>>
    /\ UNCHANGED <<aliases, products, retired, prior, shown, at, job, locked, held>>

\* tenantAdminBulkDismissUnknownItems: the ids are unique, 1 to 200 of them.
BulkDismiss(c) ==
    /\ at[c] = "idle" /\ Role[c] # "pos"
    /\ \E ids \in SUBSET shown[c] :
        /\ Cardinality(ids) > 1
        /\ job' = [job EXCEPT ![c] = [kind |-> "bulk", ids |-> ids]]
    /\ at' = [at EXCEPT ![c] = "bulk"]
    /\ UNCHANGED <<stored, audits, settles, prior, faults, shown, locked, held>>

\* bulkDismissUnknownItems, one id: its own transaction.  A conflict is
\* looked up afterwards for its prior state.
BulkNext(c) ==
    /\ at[c] = "bulk"
    /\ \E i \in job[c].ids :
        /\ Unlocked(c, i)
        /\ IF Dismissable(i)
           THEN /\ DismissRow(i)
                /\ Enqueue(<<"dismissed", i>>)
                /\ job' = [job EXCEPT ![c] = [kind |-> "bulk", ids |-> job[c].ids \ {i}]]
                /\ UNCHANGED at
           ELSE /\ at' = [at EXCEPT ![c] = "prior"]
                /\ job' = [job EXCEPT ![c] = [kind |-> "bulk", ids |-> job[c].ids \ {i}, last |-> i]]
                /\ UNCHANGED <<items, settles, audits, faults>>
    /\ UNCHANGED <<aliases, products, retired, prior, shown, locked, held>>

\* findByIdForTenant after a conflict: a second transaction reads the state
\* the outcome reports.
BulkPrior(c) ==
    /\ at[c] = "prior"
    /\ prior' = prior \cup {items[job[c].last].status}
    /\ at' = [at EXCEPT ![c] = "bulk"]
    /\ job' = [job EXCEPT ![c] = [kind |-> "bulk", ids |-> job[c].ids]]
    /\ UNCHANGED <<stored, audits, settles, faults, shown, locked, held>>

BulkEnd(c) ==
    /\ at[c] = "bulk" /\ job[c].ids = {}
    /\ Done(c)
    /\ UNCHANGED <<stored, audits, settles, prior, faults, shown>>

-----------------------------------------------------------------------------
(* Reconciliation.                                                           *)

\* The roles of the three controllers' @Roles.
MayLink(c) == Role[c] \in {"owner", "tenant_admin", "store_manager"}
MayCreate(c) == Role[c] \in {"owner", "tenant_admin"}

\* LinkUnknownItemRequestSchema names a product, which need not exist.
Begin(c, request) ==
    /\ at[c] = "idle"
    /\ at' = [at EXCEPT ![c] = "lock"]
    /\ job' = [job EXCEPT ![c] = request]
    /\ UNCHANGED <<stored, audits, settles, prior, faults, shown, locked, held>>

Link(c) ==
    MayLink(c) /\ \E i \in shown[c], p \in Products \cup {0} :
        Begin(c, [kind |-> "linked", item |-> i, product |-> p])

CreateProduct(c) ==
    MayCreate(c) /\ \E i \in shown[c] :
        Begin(c, [kind |-> "created", item |-> i, product |-> Cardinality(Products) + i])

Reopen(c) ==
    MayLink(c) /\ \E i \in shown[c] :
        Begin(c, [kind |-> "reopen", item |-> i])

Answer(c) == Done(c) /\ UNCHANGED <<audits, faults>>

\* A refusal ends the transaction, which has written nothing, and is
\* enqueued for the audit trail (emitConflictRejection).
Refuse(c) == Done(c) /\ Enqueue(<<"rejected", 0>>)

Lock(c, i, step) ==
    /\ at' = [at EXCEPT ![c] = step]
    /\ locked' = [locked EXCEPT ![c] = i]
    /\ UNCHANGED <<job, held, audits, faults>>

\* SELECT ... FOR UPDATE waits for the holder, and reads the row as the
\* holder left it.  A settled row refuses a link or a creation.
LockPending(c) ==
    /\ at[c] = "lock" /\ job[c].kind \in {"linked", "created"}
    /\ LET i == job[c].item
       IN  /\ Unlocked(c, i)
           /\ IF ~Visible(c, i) THEN Answer(c)
              ELSE IF items[i].status # "pending" THEN Refuse(c)
              ELSE Lock(c, i, IF job[c].kind = "linked" THEN "target" ELSE "alias")
    /\ UNCHANGED <<stored, settles, prior, shown>>

\* linkUnknownItem's product check; the product row is not locked.
CheckTarget(c) ==
    /\ at[c] = "target"
    /\ IF job[c].product \notin products THEN Answer(c)
       ELSE IF job[c].product \in retired THEN Refuse(c)
       ELSE GoTo(c, "alias") /\ UNCHANGED <<audits, faults>>
    /\ UNCHANGED <<stored, settles, prior, shown>>

\* Variant of NewAlias: the alias is not bound to the item's store.
NewAliasTenantWide(c) ==
    [ident |-> items[job[c].item].ident, store |-> None, product |-> job[c].product]

\* The alias takes the item's identifier and its store.
NewAlias(c) ==
    [ident |-> items[job[c].item].ident, store |-> items[job[c].item].store,
     product |-> job[c].product]

\* The INSERT of the alias: it waits for an uncommitted competitor, a unique
\* violation is alias_conflict, and a CHECK violation rolls everything back.
InsertAlias(c) ==
    /\ at[c] = "alias"
    /\ \A b \in Uncommitted(c) : ~SameKey(NewAlias(c), b)
    /\ IF ~StoreScopeConsistent(NewAlias(c)) THEN Answer(c)
       ELSE IF \E b \in AliasSet : SameKey(NewAlias(c), b) THEN Refuse(c)
       ELSE /\ at' = [at EXCEPT ![c] = "settle"]
            /\ held' = [held EXCEPT ![c] = NewAlias(c)]
            /\ UNCHANGED <<job, locked, audits, faults>>
    /\ UNCHANGED <<stored, settles, prior, shown>>

\* The UPDATE of the item and the commit, which publishes the alias and the
\* created product with it; a row no longer pending would throw.
Settle(c) ==
    /\ at[c] = "settle"
    /\ LET i == job[c].item
       IN  IF items[i].status # "pending"
           THEN Done(c) /\ UNCHANGED <<items, settles, aliases, products>>
           ELSE /\ items' = [items EXCEPT ![i] = [@ EXCEPT !.status = "resolved",
                                 !.action = job[c].kind, !.product = job[c].product]]
                /\ settles' = [settles EXCEPT ![i] = @ + 1]
                /\ aliases' = Append(aliases, held[c])
                /\ products' = products \cup {job[c].product}
                /\ at' = [at EXCEPT ![c] = "accepted"]
                /\ locked' = [locked EXCEPT ![c] = 0]
                /\ held' = [held EXCEPT ![c] = None]
                /\ UNCHANGED job
    /\ UNCHANGED <<retired, audits, prior, faults, shown>>

\* The audit record of an accepted request (@Auditable, emitReopenAudit).
AcceptedAudit(c) ==
    /\ at[c] = "accepted"
    /\ Enqueue(<<job[c].kind, job[c].item>>)
    /\ Done(c)
    /\ UNCHANGED <<stored, settles, prior, shown>>

\* reopenUnknownItem: only a tenant-wide reviewer reopens; a resolved row is
\* refused, a pending one is returned as it is.
LockDismissed(c) ==
    /\ at[c] = "lock" /\ job[c].kind = "reopen"
    /\ LET i == job[c].item
       IN  /\ Unlocked(c, i)
           /\ IF ~Visible(c, i) THEN Answer(c)
              ELSE IF Scope[c] # None \/ items[i].status = "resolved" THEN Refuse(c)
              ELSE IF items[i].status = "pending" THEN Answer(c)
              ELSE Lock(c, i, "sibling")
    /\ UNCHANGED <<stored, settles, prior, shown>>

\* An existing pending sibling is the answer of a reopening.
ReopenSibling(c) ==
    /\ at[c] = "sibling"
    /\ LET row == items[job[c].item]
       IN  IF Siblings(row.store, row.ident) # {} THEN Done(c) ELSE GoTo(c, "fresh")
    /\ UNCHANGED <<stored, audits, settles, prior, faults, shown>>

\* The fresh pending row and the commit; the dismissed row keeps its state.
ReopenInsert(c) ==
    /\ at[c] = "fresh" /\ Len(items) < MaxItems
    /\ items' = Append(items, PendingRow(items[job[c].item].store, items[job[c].item].ident))
    /\ at' = [at EXCEPT ![c] = "reopened"]
    /\ locked' = [locked EXCEPT ![c] = 0]
    /\ UNCHANGED <<aliases, products, retired, audits, settles, prior,
                   faults, shown, job, held>>

\* emitReopenAudit, for the dismissed row and then for the fresh one.
ReopenAudit(c) ==
    /\ at[c] = "reopened"
    /\ Enqueue(<<"reopened", job[c].item>>)
    /\ at' = [at EXCEPT ![c] = "accepted"]
    /\ job' = [job EXCEPT ![c] = [kind |-> "captured", item |-> Len(items)]]
    /\ UNCHANGED <<stored, settles, prior, shown, locked, held>>

-----------------------------------------------------------------------------
(* The rest of the catalogue.                                                *)

\* ProductAliasesService.create: one INSERT; 23505 is a 409.
CreateAlias ==
    /\ Len(aliases) < MaxAliases
    /\ \E ident \in Identifiers, store \in Stores \cup {None}, p \in products :
        LET a == [ident |-> ident, store |-> store, product |-> p]
        IN  /\ StoreScopeConsistent(a)
            /\ \A b \in AliasSet \cup {held[d] : d \in {d \in Clients : held[d] # None}} : ~SameKey(a, b)
            /\ aliases' = Append(aliases, a)
    /\ UNCHANGED <<items, products, retired, audits, settles, prior, faults,
                   shown, at, job, locked, held>>

\* A product is retired by an operator.
RetireProduct ==
    /\ retired = {}
    /\ \E p \in Products : retired' = {p}
    /\ UNCHANGED <<items, aliases, products, audits, settles, prior, faults,
                   shown, at, job, locked, held>>

\* The process serving a request dies: its transaction rolls back.
Crash(c) ==
    /\ at[c] # "idle" /\ faults < MaxFaults
    /\ faults' = faults + 1
    /\ Done(c)
    /\ UNCHANGED <<stored, audits, settles, prior, shown>>

Capture(c) == PosCapture(c) \/ CaptureLookup(c) \/ CaptureDedup(c) \/ CaptureInsert(c)
Review(c) == List(c) \/ Dismiss(c) \/ BulkDismiss(c) \/ BulkNext(c) \/ BulkPrior(c) \/ BulkEnd(c)
Reconcile(c) ==
    \/ Link(c) \/ CreateProduct(c) \/ Reopen(c)
    \/ LockPending(c) \/ CheckTarget(c) \/ InsertAlias(c) \/ Settle(c)
    \/ LockDismissed(c) \/ ReopenSibling(c) \/ ReopenInsert(c) \/ ReopenAudit(c)
    \/ AcceptedAudit(c)

Next ==
    \/ \E c \in Clients : Capture(c) \/ Review(c) \/ Reconcile(c) \/ Crash(c)
    \/ CreateAlias
    \/ RetireProduct

Spec == Init /\ [][Next]_vars

-----------------------------------------------------------------------------
(* Properties.                                                               *)

\* The tables and the locks hold what the schema declares.
TypeOK ==
    /\ items \in Seq(UnknownItemRow)
    /\ aliases \in Seq(ProductAliasRow)
    /\ retired \subseteq products
    /\ \A c \in Clients : locked[c] \in 0..Len(items)

\* A resolved row, its product and its alias commit together: the identifier
\* of a resolved row answers at the row's store, with the product the row
\* names, and every product beyond the initial ones is that of one row created
\* from it.  A conflict never leaves a half-settled row or a product behind.
ResolvedIsAnswerable ==
    /\ TypeOK
    /\ \A i \in ItemIds :
        items[i].status = "resolved" =>
            /\ items[i].product \in products
            /\ \E a \in AliasSet : /\ a.ident = items[i].ident
                                   /\ a.store = items[i].store
                                   /\ a.product = items[i].product
    /\ \A p \in products \ Products :
        Cardinality({i \in ItemIds : items[i].action = "created" /\ items[i].product = p}) = 1

\* However dismissals, links, creations and bulk dismissals of one row
\* overlap, one of them is told it settled the row, and the others are not.
SettledByOne ==
    \A i \in ItemIds : settles[i] = (IF items[i].status = "pending" THEN 0 ELSE 1)

\* What is reported after a commit is true: an audit record of a settlement
\* names a row that was settled that way, that of a reopening a row that is
\* still dismissed, and a conflict's prior state, read in a second
\* transaction, is a settled one.
ReportsAreTrue ==
    /\ \A e \in audits :
        /\ e[1] \in {"dismissed", "linked", "created"} => items[e[2]].action = e[1]
        /\ e[1] = "reopened" => items[e[2]].status = "dismissed"
    /\ "pending" \notin prior

-----------------------------------------------------------------------------
(* The inductive invariant: what a request knows of its row.                 *)

Steps == {"idle", "lookup", "dedup", "insert", "bulk", "prior", "lock", "target",
          "alias", "settle", "accepted", "sibling", "fresh", "reopened"}

StateFunctions ==
    /\ at \in [Clients -> Steps]
    /\ locked \in [Clients -> Nat]
    /\ shown \in [Clients -> SUBSET Nat]
    /\ job = [c \in Clients |-> job[c]]
    /\ held = [c \in Clients |-> held[c]]
    /\ settles \in [1..MaxItems -> Nat]
    /\ Len(items) <= MaxItems
    /\ Products \subseteq products

CaptureShape(c) ==
    /\ shown[c] \subseteq ItemIds
    /\ at[c] \in {"lookup", "dedup", "insert"} =>
        job[c].store \in Stores /\ job[c].ident \in Identifiers
    /\ at[c] \in {"bulk", "prior"} => job[c].ids \subseteq ItemIds
    /\ at[c] = "prior" => job[c].last \in ItemIds /\ items[job[c].last].status # "pending"

\* What link, create and reopen were asked for.
RequestShape(c) ==
    at[c] \in {"lock", "target", "alias", "settle"} =>
        /\ job[c].item \in ItemIds
        /\ job[c].kind \in {"linked", "created", "reopen"}
        /\ job[c].kind = "linked" => job[c].product \in Products \cup {0}
        /\ job[c].kind = "created" => job[c].product = Cardinality(Products) + job[c].item

\* From the lock to the commit the row stays pending.
ReconcileShape(c) ==
    /\ at[c] \in {"target", "alias", "settle"} =>
        /\ job[c].kind \in {"linked", "created"}
        /\ locked[c] = job[c].item
        /\ items[job[c].item].status = "pending"
    /\ at[c] \in {"alias", "settle"} /\ job[c].kind = "linked" => job[c].product \in Products
    /\ at[c] = "settle" => held[c] = NewAlias(c)

ReportShape(c) ==
    /\ at[c] \in {"sibling", "fresh", "reopened"} =>
        /\ job[c].kind = "reopen"
        /\ job[c].item \in ItemIds
        /\ items[job[c].item].status = "dismissed"
    /\ at[c] = "accepted" =>
        /\ job[c].kind \in {"linked", "created", "captured"}
        /\ job[c].item \in ItemIds
        /\ job[c].kind # "captured" =>
            items[job[c].item].status = "resolved" /\ items[job[c].item].action = job[c].kind

ClientShape(c) ==
    CaptureShape(c) /\ RequestShape(c) /\ ReconcileShape(c) /\ ReportShape(c)

OneLocker ==
    \A c, d \in Clients : locked[c] = locked[d] /\ locked[c] # 0 => c = d

\* Rows not inserted yet have been settled by nobody.
Unsettled == \A i \in 1..MaxItems : i > Len(items) => settles[i] = 0

Answerable ==
    \A i \in ItemIds : items[i].status = "resolved" =>
        /\ items[i].product \in products
        /\ \E n \in 1..Len(aliases) :
            /\ aliases[n].ident = items[i].ident
            /\ aliases[n].store = items[i].store
            /\ aliases[n].product = items[i].product

\* The product created from a row is numbered after it.
CreatedRows ==
    /\ \A i \in ItemIds : items[i].action = "created" =>
        items[i].status = "resolved" /\ items[i].product = Cardinality(Products) + i
    /\ \A p \in products \ Products :
        \E i \in ItemIds : items[i].action = "created" /\ items[i].product = p

\* What is reported stays true, since a settled row does not change.
Reported(e) ==
    /\ e[1] \in {"dismissed", "linked", "created"} =>
        /\ e[2] \in ItemIds
        /\ items[e[2]].action = e[1]
        /\ items[e[2]].status # "pending"
    /\ e[1] = "reopened" => e[2] \in ItemIds /\ items[e[2]].status = "dismissed"

ReportedRows == (\A e \in audits : Reported(e)) /\ "pending" \notin prior

UnknownItemsInvariant ==
    /\ TypeOK
    /\ StateFunctions
    /\ \A c \in Clients : ClientShape(c)
    /\ OneLocker
    /\ SettledByOne
    /\ Unsettled
    /\ Answerable
    /\ CreatedRows
    /\ ReportedRows
=============================================================================
