------------------------------- MODULE ErpOps --------------------------------
(***************************************************************************)
(* What the tenant's back office and the ERPNext connector do besides       *)
(* posting sales: item and warehouse mappings, product and stock            *)
(* reconciliation runs with their repairs, the bin view the connector       *)
(* reports for a stock run, and the connector's own credentials.            *)
(*                                                                         *)
(* A run is triggered by an operator and processed by the worker's drainer  *)
(* when an outbox event of it is delivered.  The run of a mapped store has  *)
(* no event until the connector has reported; a store that is mapped after  *)
(* its run was triggered gives the run two.  An event is claimed by one     *)
(* drainer at a time; an attempt that throws gives it back until its        *)
(* attempts are used up, and one whose worker dies leaves it claimed.       *)
(* Each operation is a READ COMMITTED transaction whose statements          *)
(* interleave with the others'; what it wrote is seen when it commits.  A   *)
(* worker or a request may die, and its transaction with it.                *)
(***************************************************************************)
EXTENDS Integers, Sequences, FiniteSetsExt

CONSTANTS
    Products,       \* active rows of tenant_products
    Refs,           \* ERPNext item names
    Stores,
    OnHand,         \* [Stores -> [Products -> sum of its movements, None without]]
    ItemViews,      \* ERPNext item views: [Refs listed -> sellable], None: unavailable
    Reports,        \* bin views the connector may send: [read, qty : [Refs -> Int]]
    PageLimit,      \* requests in a page of the bin-view feed
    Workers,        \* deliveries in progress, of all replicas
    Clients,        \* operators' requests in flight
    MaxAttempts,    \* claims of an event before it is dead-lettered
    MaxRuns,        \* bound: runs ever triggered
    Mixes,          \* bound: the activities of a behaviour [does], its item
                    \* maps [catalog], warehouse maps [mapped] and credentials
                    \* [issued] at the start, and how many item maps [items],
                    \* warehouse maps [maps], runs [runs], repairs [repairs],
                    \* credentials [creds] and deaths [deaths] it may have
    None            \* NULL

ASSUME ErpOpsAssumption ==
    /\ {PageLimit, MaxAttempts} \subseteq Nat \ {0}
    /\ \A m \in Mixes : m.runs <= MaxRuns
    /\ OnHand \in [Stores -> [Products -> Int \cup {None}]]
    /\ None \notin Int \cup Products \cup Refs \cup Stores

VARIABLES
    items,          \* rows of erpnext_item_map, in order of creation
    warehouses,     \* rows of erpnext_warehouse_map, in order of creation
    runs,           \* rows of both run tables, in order of their ids
    events,         \* "requested" events of the outbox
    results,        \* rows of both result tables
    attempts,       \* rows of both repair_attempt tables
    cursor,         \* the connector's place in the bin-view feed
    asked,          \* runs the connector was asked about
    disabled,       \* connector_registration.disabled_at is set
    creds,          \* the registration's connector rows of auth_tokens
    health,         \* its connector_health row
    rotated,        \* newest credential handed out by a rotation
    work,           \* [Workers -> delivery of an event]
    req,            \* [Clients -> request]
    deaths,         \* faults of workers and requests so far
    mix             \* the activities of this behaviour

maps == <<items, warehouses>>
feed == <<cursor, asked>>
connector == <<disabled, creds, health, rotated>>
vars == <<items, warehouses, runs, events, results, attempts, cursor, asked,
           disabled, creds, health, rotated, work, req, deaths, mix>>

-----------------------------------------------------------------------------
(* Rows.                                                                     *)

\* confirmed is the order of confirmed_at (0: never); confirms is history: how
\* often a confirmation of the row was answered with success.
ItemMapRow ==
    [product : Products, ref : Refs, state : {"suggested", "confirmed"},
     retired : BOOLEAN, version : Nat, confirmed : Nat, confirms : Nat]

WarehouseMapRow == [store : Stores, retired : BOOLEAN]

\* A bin view as it is stored, with the product each item name stood for.
StoredReport == [sent : Reports, product : [Refs -> Products \cup {None}]]

\* report is summary.bin_view_report.  told and written are history: the report
\* the connector was first told is recorded, and how often results were
\* committed for the run.
RunRow ==
    [kind : {"product", "stock"}, store : Stores \cup {None},
     status : {"uncommitted", "running", "completed", "gone"},
     report : StoredReport \cup {None}, told : Reports \cup {None}, written : Nat]

NewRun(kind, s) ==
    [kind |-> kind, store |-> s, status |-> "uncommitted", report |-> None,
     told |-> None, written |-> 0]

\* A run is requested by its trigger or by the connector's report.  A claimed
\* event that no worker delivers stays claimed.
EventRow ==
    [run : Nat, by : {"trigger", "report"}, tries : Nat,
     state : {"open", "claimed", "delivered", "dead"}]

Requested(r, by) == [run |-> r, by |-> by, tries |-> 0, state |-> "open"]

\* mismatch_class and outcome, as the CHECK constraints of the tables list them.
StockClass ==
    {"match", "quantity_divergence", "unmapped_store", "unmapped_item", "dp2_only",
     "erpnext_only", "negative_balance_flagged"}

ProductClass ==
    {"match", "unmapped_dp2_product", "suggestion_unconfirmed", "unmapped_erpnext_item",
     "attribute_drift", "sellable_state_divergence"}

Outcome ==
    {"mapped", "still_unmapped", "conflict", "eligible_again", "still_failing", "no_op_echo"}

ResultRow ==
    [run : Nat, by : Nat, product : Products \cup {None}, ref : Refs \cup {None},
     class : StockClass \cup ProductClass, state : {"open", "repaired"}]

AttemptRow ==
    [target : ResultRow \cup Products, mapping : Nat, outcome : Outcome]

CredentialRow == [revoked : BOOLEAN, expired : BOOLEAN]

\* What a behaviour starts from is what the tables can hold: an item is confirmed
\* once or not at all, and confirmations are numbered.
ASSUME RowAssumption ==
    /\ None \notin Reports \cup StoredReport
    /\ Products \cap ResultRow = {}
    /\ \A rep \in Reports : DOMAIN rep.qty \subseteq Refs
    /\ \A view \in ItemViews \ {None} : DOMAIN view \subseteq Refs
    /\ \A m \in Mixes :
        /\ m.catalog \in Seq(ItemMapRow)
        /\ \A i \in DOMAIN m.catalog :
            /\ m.catalog[i].confirmed <= Len(m.catalog)
            /\ m.catalog[i].confirms = IF m.catalog[i].state = "confirmed" THEN 1 ELSE 0
        /\ m.mapped \in Seq(WarehouseMapRow)
        /\ m.issued \in Seq(CredentialRow)

Idle == [at |-> "idle"]

Init ==
    /\ mix \in Mixes
    /\ items = mix.catalog
    /\ warehouses = mix.mapped
    /\ runs = <<>>
    /\ events = {}
    /\ results = {}
    /\ attempts = <<>>
    /\ cursor = 0
    /\ asked = {}
    /\ disabled = FALSE
    /\ creds = mix.issued
    /\ health = "never_seen"
    /\ rotated = 0
    /\ work = [w \in Workers |-> Idle]
    /\ req = [c \in Clients |-> Idle]
    /\ deaths = 0

Does(what) == what \in mix.does
At(c, step) == req[c].at = step
Begin(c, r) == At(c, "idle") /\ req' = [req EXCEPT ![c] = r]
Finish(c) == req' = [req EXCEPT ![c] = Idle]

-----------------------------------------------------------------------------
(* Item and warehouse mappings.                                              *)

ActiveItem(i) == ~items[i].retired
ConfirmedItem(i) == ActiveItem(i) /\ items[i].state = "confirmed"
ActiveOf(p) == {i \in DOMAIN items : items[i].product = p /\ ActiveItem(i)}
ConfirmedOf(p) == {i \in ActiveOf(p) : ConfirmedItem(i)}

Confirmations == Cardinality({i \in DOMAIN items : items[i].state = "confirmed"})

Suggestion(p, r) ==
    [product |-> p, ref |-> r, state |-> "suggested", retired |-> FALSE,
     version |-> 1, confirmed |-> 0, confirms |-> 0]

\* The partial unique index lets a product have one active mapping.
Suggestible(p) == ActiveOf(p) = {}

Suggest(p, r) ==
    /\ Does("map") /\ Len(items) < mix.items
    /\ Suggestible(p)
    /\ items' = Append(items, Suggestion(p, r))
    /\ UNCHANGED <<warehouses, runs, events, results, attempts, feed,
                   connector, work, req, deaths, mix>>

\* The UPDATE of confirmOnClient and its guards; v is the version its caller saw.
Confirmable(i, v) ==
    items[i].version = v /\ items[i].state = "suggested" /\ ActiveItem(i)

Confirmed(row) ==
    [row EXCEPT !.state = "confirmed", !.version = @ + 1, !.confirms = @ + 1,
                !.confirmed = Confirmations + 1]

Confirm(i, v) ==
    /\ Does("map") /\ Confirmable(i, v)
    /\ items' = [items EXCEPT ![i] = Confirmed(@)]
    /\ UNCHANGED <<warehouses, runs, events, results, attempts, feed,
                   connector, work, req, deaths, mix>>

Retire(i, v) ==
    /\ Does("map") /\ ActiveItem(i) /\ items[i].version = v
    /\ items' = [items EXCEPT ![i].retired = TRUE, ![i].version = @ + 1]
    /\ UNCHANGED <<warehouses, runs, events, results, attempts, feed,
                   connector, work, req, deaths, mix>>

Mapped(s) == \E i \in DOMAIN warehouses :
                warehouses[i].store = s /\ ~warehouses[i].retired

SetWarehouse(s) ==
    /\ Does("warehouse") /\ Len(warehouses) < mix.maps
    /\ ~Mapped(s)
    /\ warehouses' = Append(warehouses, [store |-> s, retired |-> FALSE])
    /\ UNCHANGED <<items, runs, events, results, attempts, feed, connector,
                   work, req, deaths, mix>>

RetireWarehouse(i) ==
    /\ Does("warehouse") /\ ~warehouses[i].retired
    /\ warehouses' = [warehouses EXCEPT ![i].retired = TRUE]
    /\ UNCHANGED <<items, runs, events, results, attempts, feed, connector,
                   work, req, deaths, mix>>

-----------------------------------------------------------------------------
(* Triggering a run.  The id is taken at the insert, before the commit.      *)

\* A stock run is inserted, and whether its store is mapped is read ...
TriggerRun(c, s) ==
    /\ Does("stock") /\ Len(runs) < mix.runs
    /\ Begin(c, [at |-> "trigger", run |-> Len(runs) + 1, emits |-> ~Mapped(s)])
    /\ runs' = Append(runs, NewRun("stock", s))
    /\ UNCHANGED <<maps, events, results, attempts, feed, connector, work,
                   deaths, mix>>

\* ... a product run is inserted with its event ...
TriggerProductRun(c) ==
    /\ Does("product") /\ Len(runs) < mix.runs
    /\ Begin(c, [at |-> "trigger", run |-> Len(runs) + 1, emits |-> TRUE])
    /\ runs' = Append(runs, NewRun("product", None))
    /\ UNCHANGED <<maps, events, results, attempts, feed, connector, work,
                   deaths, mix>>

\* ... and the transaction commits, with the event of a run that has one.
CommitTrigger(c) ==
    /\ At(c, "trigger")
    /\ runs' = [runs EXCEPT ![req[c].run].status = "running"]
    /\ events' = IF req[c].emits THEN events \cup {Requested(req[c].run, "trigger")}
                 ELSE events
    /\ Finish(c)
    /\ UNCHANGED <<maps, results, attempts, feed, connector, work, deaths, mix>>

-----------------------------------------------------------------------------
(* The bin view: the connector pulls what is wanted and reports it.          *)

\* A connector credential that findActiveConnectorCredentialByTokenId resolves.
Admitted(i) == ~creds[i].revoked /\ ~creds[i].expired /\ ~disabled

Wanted(r) == runs[r].kind = "stock" /\ runs[r].status = "running" /\ Mapped(runs[r].store)

\* Processing of a run holds its row lock (FOR UPDATE).
Processing(w) == work[w].at \in {"warehouse", "bin", "confirmed", "unmapped"}
Locked(r) == \E w \in Workers : Processing(w) /\ work[w].run = r

LastOf(page) == IF page = {} THEN 0 ELSE Max(page)

\* A page is in id order; an empty one answers a null cursor, which starts over.
PullRequests(i) ==
    /\ Does("bin") /\ Admitted(i)
    /\ \E page \in SUBSET {r \in DOMAIN runs : r > cursor /\ Wanted(r)} :
          /\ Cardinality(page) <= PageLimit
          /\ \A r \in DOMAIN runs :
                r > cursor /\ Wanted(r) /\ r \notin page =>
                    Cardinality(page) = PageLimit /\ r > LastOf(page)
          /\ asked' = asked \cup page
          /\ cursor' = LastOf(page)
    /\ <<asked', cursor'>> # <<asked, cursor>>
    /\ UNCHANGED <<maps, runs, events, results, attempts, connector, work, req,
                   deaths, mix>>

\* The product an item name stands for: the mapping confirmed last, if any.
ProductOf(name) ==
    LET of == {i \in DOMAIN items : items[i].ref = name /\ ConfirmedItem(i)}
    IN  IF of = {} THEN None
        ELSE items[CHOOSE i \in of : \A j \in of : items[j].confirmed <= items[i].confirmed].product

RecordedAs(rep) ==
    [sent |-> rep, product |-> [n \in Refs |-> IF n \in DOMAIN rep.qty THEN ProductOf(n) ELSE None]]

\* The same report replays the recorded answer and a different one is refused:
\* in both cases nothing is written.
Recordable(r, rep) == runs[r].report = None

\* Variant of Driven: recording a report emits nothing.
DrivenByTrigger(r) == events

\* The event that lets the run be processed, emitted with the report.
Driven(r) == events \cup {Requested(r, "report")}

\* reportSnapshot locks every wanted run before it looks for its own.
ReportSnapshot(i, r, rep) ==
    /\ Does("bin") /\ Admitted(i)
    /\ r \in asked /\ Wanted(r)
    /\ \A q \in DOMAIN runs : Wanted(q) => ~Locked(q)
    /\ Recordable(r, rep)
    /\ runs' = [runs EXCEPT ![r].report = RecordedAs(rep),
                            ![r].told = IF @ = None THEN rep ELSE @]
    /\ events' = Driven(r)
    /\ UNCHANGED <<maps, results, attempts, feed, connector, work, req,
                   deaths, mix>>

-----------------------------------------------------------------------------
(* Processing a run.                                                         *)

\* A drainer claims an event; the claim commits before the consumer is called.
ClaimEvent(w, e) ==
    /\ work[w].at = "idle"
    /\ e.state = "open"
    /\ LET claimed == [e EXCEPT !.state = "claimed", !.tries = e.tries + 1]
       IN  /\ events' = (events \ {e}) \cup {claimed}
           /\ work' = [work EXCEPT ![w] =
                          [at |-> "deliver", run |-> e.run, event |-> claimed]]
    /\ UNCHANGED <<maps, runs, results, attempts, feed, connector, req, deaths, mix>>

\* Where a delivery is next, with what it carries along.
Moves(w, step) ==
    work' = [work EXCEPT ![w] = [at |-> step, run |-> work[w].run, event |-> work[w].event]]

\* Variant of Processable: every delivery is processed.
ProcessableAlways(r) == TRUE

\* A run that is no longer running is skipped.
Processable(r) == runs[r].status = "running"

\* The consumer locks the run's row; a run that is locked makes it wait.
TakeRun(w) ==
    /\ work[w].at = "deliver" /\ ~Locked(work[w].run)
    /\ Moves(w, IF ~Processable(work[w].run) THEN "done"
                ELSE IF runs[work[w].run].kind = "stock" THEN "warehouse" ELSE "confirmed")
    /\ UNCHANGED <<maps, runs, events, results, attempts, feed, connector, req,
                   deaths, mix>>

Result(r, p, name, class) ==
    [run |-> r, by |-> runs[r].written + 1, product |-> p, ref |-> name,
     class |-> class, state |-> "open"]

\* The results and the completion of the run commit together.
Complete(w, found) ==
    /\ results' = results \cup found
    /\ runs' = [runs EXCEPT ![work[w].run].status = "completed",
                            ![work[w].run].written = @ + 1]
    /\ Moves(w, "done")
    /\ UNCHANGED <<maps, events, attempts, feed, connector, req, deaths, mix>>

\* The stock run of a store that is not mapped has one result ...
UnmappedStore(w) ==
    /\ work[w].at = "warehouse" /\ ~Mapped(runs[work[w].run].store)
    /\ Complete(w, {Result(work[w].run, None, None, "unmapped_store")})

\* ... else what is on hand is read with the confirmed mappings ...
ReadOnHand(w) ==
    /\ work[w].at = "warehouse" /\ Mapped(runs[work[w].run].store)
    /\ work' = [work EXCEPT ![w] =
                   [at |-> "bin", run |-> work[w].run, event |-> work[w].event,
                    mapped |-> {p \in Products : ConfirmedOf(p) # {}}]]
    /\ UNCHANGED <<maps, runs, events, results, attempts, feed, connector, req,
                   deaths, mix>>

\* What the run's report says of each product: ReportBackedBinView.
BinView(r) ==
    LET rep == runs[r].report
    IN  IF rep = None THEN {}
        ELSE {<<rep.product[n], rep.sent.qty[n]>> :
                n \in {m \in DOMAIN rep.sent.qty : rep.product[m] # None}}

Classify(onHand, hasMap, bin) ==
    IF onHand < 0 THEN "negative_balance_flagged"
    ELSE IF ~hasMap THEN "unmapped_item"
    ELSE IF bin = {} THEN "dp2_only"
    ELSE IF onHand \notin bin THEN "quantity_divergence"
    ELSE "match"

\* ... and compared, product by product, with the bin view.
CompareStock(w) ==
    LET r == work[w].run
        here == OnHand[runs[r].store]
        bins(p) == {b[2] : b \in {x \in BinView(r) : x[1] = p}}
    IN  /\ work[w].at = "bin"
        /\ Complete(w,
              {Result(r, p, None, Classify(here[p], p \in work[w].mapped, bins(p))) :
                  p \in {q \in Products : here[q] # None}}
              \cup
              {Result(r, p, None, "erpnext_only") :
                  p \in {q \in Products : here[q] = None /\ bins(q) # {}}})

\* A product run fetches the item view and reads the confirmed mappings ...
ReadConfirmed(w, view) ==
    /\ work[w].at = "confirmed"
    /\ work' = [work EXCEPT ![w] =
                   [at |-> "unmapped", run |-> work[w].run, event |-> work[w].event,
                    view |-> view,
                    rows |-> {items[i] : i \in {j \in DOMAIN items : ConfirmedItem(j)}}]]
    /\ UNCHANGED <<maps, runs, events, results, attempts, feed, connector, req,
                   deaths, mix>>

\* A confirmed mapping against the item view.
MappingClass(row, view) ==
    IF row.ref \notin DOMAIN view THEN "unmapped_dp2_product"
    ELSE IF view[row.ref] THEN "match" ELSE "sellable_state_divergence"

\* A product without one: was it ever suggested?
UnmappedClass(p) ==
    IF \E i \in DOMAIN items : items[i].product = p
    THEN "suggestion_unconfirmed" ELSE "unmapped_dp2_product"

\* ... and then, in a second statement, the products without one.
CompareProducts(w) ==
    LET r == work[w].run
        view == work[w].view
        rows == work[w].rows
        missing == DOMAIN view \ {row.ref : row \in rows}
    IN  /\ work[w].at = "unmapped"
        /\ Complete(w,
              (IF view = None THEN {}
               ELSE {Result(r, row.product, row.ref, MappingClass(row, view)) : row \in rows}
                    \cup {Result(r, None, n, "unmapped_erpnext_item") : n \in missing})
              \cup
              {Result(r, p, None, UnmappedClass(p)) :
                  p \in {q \in Products : ConfirmedOf(q) = {}}})

\* The drainer's mark of the event it has claimed.
Mark(w, state) ==
    /\ events' = (events \ {work[w].event}) \cup {[work[w].event EXCEPT !.state = state]}
    /\ work' = [work EXCEPT ![w] = Idle]

\* The consumer has returned.
MarkDelivered(w) ==
    /\ work[w].at = "done"
    /\ Mark(w, "delivered")
    /\ UNCHANGED <<maps, runs, results, attempts, feed, connector, req, deaths, mix>>

\* The consumer throws: its transaction is rolled back, or has committed and the
\* answer was lost.  The last attempt dead-letters the event.
ConsumerThrows(w) ==
    /\ work[w].at # "idle" /\ deaths < mix.deaths
    /\ Mark(w, IF work[w].event.tries < MaxAttempts THEN "open" ELSE "dead")
    /\ deaths' = deaths + 1
    /\ UNCHANGED <<maps, runs, results, attempts, feed, connector, req, mix>>

\* The worker dies, its transaction is rolled back, or the mark itself fails:
\* the event stays claimed, and no drainer claims it again.
WorkerDies(w) ==
    /\ work[w].at # "idle" /\ deaths < mix.deaths
    /\ work' = [work EXCEPT ![w] = Idle]
    /\ deaths' = deaths + 1
    /\ UNCHANGED <<maps, runs, events, results, attempts, feed, connector, req, mix>>

-----------------------------------------------------------------------------
(* Repairs.  A repair of a result holds the result's row lock.               *)

\* A result by its id, whatever its state.
Key(x) == [x EXCEPT !.state = "open"]

StateOf(key) == (CHOOSE x \in results : Key(x) = key).state

Results(kind) == {Key(x) : x \in {y \in results : runs[y.run].kind = kind}}

\* Variant of Unlocked: the state is read without FOR UPDATE.
UnlockedAlways(key) == TRUE

Unlocked(key) ==
    ~\E c \in Clients : req[c].at \in {"repair", "echo", "stock"} /\ req[c].target = key

\* The backlog: products without a confirmed mapping.
Backlog == {p \in Products : ConfirmedOf(p) = {}}

\* What a repair asks for: to confirm a mapping the operator saw (0 is an id
\* that does not exist), or to suggest and confirm an item name.
RepairRequests(target, p) ==
    {[at |-> "repair", target |-> target, kind |-> "confirm", product |-> p,
      mapping |-> i, version |-> 1, ref |-> None] :
        i \in {0} \cup DOMAIN items}
    \cup
    {[at |-> "repair", target |-> target, kind |-> "suggest_confirm", product |-> p,
      mapping |-> 0, version |-> 0, ref |-> name] : name \in Refs}

RepairBacklogItem(c) ==
    /\ Does("repair") /\ Len(attempts) < mix.repairs
    /\ \E p \in Backlog : \E r \in RepairRequests(p, p) : Begin(c, r)
    /\ UNCHANGED <<maps, runs, events, results, attempts, feed, connector, work,
                   deaths, mix>>

RepairResult(c) ==
    /\ Does("repair") /\ Len(attempts) < mix.repairs
    /\ \E key \in Results("product") :
          /\ key.product # None /\ Unlocked(key)
          /\ \E r \in RepairRequests(key, key.product) : Begin(c, r)
    /\ UNCHANGED <<maps, runs, events, results, attempts, feed, connector, work,
                   deaths, mix>>

\* The attempt is recorded, and a result its repair mapped is closed.
Recorded(c, i, outcome) ==
    /\ attempts' = Append(attempts,
          [target |-> req[c].target, mapping |-> i, outcome |-> outcome])
    /\ results' =
          {IF outcome = "mapped" /\ Key(x) = req[c].target
           THEN [x EXCEPT !.state = "repaired"] ELSE x : x \in results}
    /\ Finish(c)
    /\ UNCHANGED <<warehouses, runs, events, feed, connector, work, deaths, mix>>

\* confirmOnClient succeeds ...
RepairConfirms(c) ==
    LET i == req[c].mapping
    IN  /\ At(c, "repair") /\ req[c].kind = "confirm" /\ i # 0
        /\ Confirmable(i, req[c].version)
        /\ items' = [items EXCEPT ![i] = Confirmed(@)]
        /\ Recorded(c, i, "mapped")

\* ... or finds no row ...
RepairFindsNothing(c) ==
    /\ At(c, "repair") /\ req[c].kind = "confirm" /\ req[c].mapping = 0
    /\ Recorded(c, 0, "still_unmapped")
    /\ UNCHANGED items

\* ... or suggestOnClient and confirmOnClient both succeed ...
RepairSuggests(c) ==
    /\ At(c, "repair") /\ req[c].kind = "suggest_confirm"
    /\ Len(items) < mix.items
    /\ Suggestible(req[c].product)
    /\ items' = Append(items, Confirmed(Suggestion(req[c].product, req[c].ref)))
    /\ Recorded(c, Len(items) + 1, "mapped")

\* ... or the mapping is not as the operator saw it ...
RepairConflicts(c) ==
    /\ At(c, "repair")
    /\ \/ /\ req[c].kind = "confirm" /\ req[c].mapping # 0
          /\ ~Confirmable(req[c].mapping, req[c].version)
       \/ req[c].kind = "suggest_confirm" /\ ~Suggestible(req[c].product)
    /\ req' = [req EXCEPT ![c].at = "echo"]
    /\ UNCHANGED <<maps, runs, events, results, attempts, feed, connector, work,
                   deaths, mix>>

\* ... and a second statement reads whether it is what was asked for already.
RepairEchoes(c) ==
    LET there == IF req[c].kind = "confirm"
                 THEN {i \in {req[c].mapping} : ConfirmedItem(i)}
                 ELSE ConfirmedOf(req[c].product)
    IN  /\ At(c, "echo")
        /\ IF there = {} THEN Recorded(c, 0, "conflict")
           ELSE \E i \in there : Recorded(c, i, "no_op_echo")
        /\ UNCHANGED items

\* repairStock locks the result and reads its state ...
RepairStock(c) ==
    /\ Does("stockrepair") /\ Len(attempts) < mix.repairs
    /\ \E key \in Results("stock") :
          Unlocked(key) /\ Begin(c, [at |-> "stock", target |-> key, saw |-> StateOf(key)])
    /\ UNCHANGED <<maps, runs, events, results, attempts, feed, connector, work,
                   deaths, mix>>

\* ... and closes it if it was open.
CloseStock(c) ==
    /\ At(c, "stock")
    /\ attempts' = Append(attempts,
          [target |-> req[c].target, mapping |-> 0,
           outcome |-> IF req[c].saw = "open" THEN "eligible_again" ELSE "no_op_echo"])
    /\ results' = {IF Key(x) = req[c].target THEN [x EXCEPT !.state = "repaired"] ELSE x :
                      x \in results}
    /\ Finish(c)
    /\ UNCHANGED <<maps, runs, events, feed, connector, work, deaths, mix>>

-----------------------------------------------------------------------------
(* The connector's registration and its credentials.                         *)

Unrevoked == {i \in DOMAIN creds : ~creds[i].revoked}

\* issue and rotate read the registration first ...
CheckInstance(c, op) ==
    /\ Does("credential") /\ Len(creds) < mix.creds
    /\ ~disabled
    /\ Begin(c, [at |-> op])
    /\ UNCHANGED <<maps, runs, events, results, attempts, feed, connector, work,
                   deaths, mix>>

\* ... rotate then revokes the credentials it can see ...
RevokeSeen(c) ==
    /\ At(c, "rotate")
    /\ req' = [req EXCEPT ![c] = [at |-> "insert", revoking |-> Unrevoked]]
    /\ UNCHANGED <<maps, runs, events, results, attempts, feed, connector, work,
                   deaths, mix>>

\* Variant of CredentialClash: there is no unique index.
CredentialClashNever(revoking) == FALSE

\* uq_auth_tokens_active_connector_credential: one unrevoked row at a time.
CredentialClash(revoking) == Unrevoked \ revoking # {}

Issued(revoking) ==
    Append([i \in DOMAIN creds |-> [creds[i] EXCEPT !.revoked = @ \/ i \in revoking]],
           [revoked |-> FALSE, expired |-> FALSE])

\* ... and a new row is inserted and committed, or refused by the index.
IssueCredential(c) ==
    /\ At(c, "issue") \/ At(c, "insert")
    /\ LET revoking == IF At(c, "insert") THEN req[c].revoking ELSE {}
       IN  IF CredentialClash(revoking) THEN UNCHANGED <<creds, rotated>>
           ELSE /\ Len(creds) < mix.creds
                /\ creds' = Issued(revoking)
                /\ rotated' = IF At(c, "insert") THEN Len(creds) + 1 ELSE rotated
    /\ Finish(c)
    /\ UNCHANGED <<maps, runs, events, results, attempts, feed, disabled, health,
                   work, deaths, mix>>

RevokeCredential(i) ==
    /\ Does("credential") /\ ~creds[i].revoked
    /\ creds' = [creds EXCEPT ![i].revoked = TRUE]
    /\ UNCHANGED <<maps, runs, events, results, attempts, feed, disabled, health,
                   rotated, work, req, deaths, mix>>

ExpireCredential(i) ==
    /\ Does("credential") /\ ~creds[i].expired
    /\ creds' = [creds EXCEPT ![i].expired = TRUE]
    /\ UNCHANGED <<maps, runs, events, results, attempts, feed, disabled, health,
                   rotated, work, req, deaths, mix>>

Disable ==
    /\ Does("credential") /\ ~disabled
    /\ disabled' = TRUE
    /\ UNCHANGED <<maps, runs, events, results, attempts, feed, creds, health,
                   rotated, work, req, deaths, mix>>

\* recordHeartbeat upserts the registration's row ...
Heartbeat(i) ==
    /\ Does("credential") /\ Admitted(i) /\ health # "healthy"
    /\ health' = "healthy"
    /\ UNCHANGED <<maps, runs, events, results, attempts, feed, disabled, creds,
                   rotated, work, req, deaths, mix>>

\* ... and the staleness threshold passes without another.
HeartbeatLapses ==
    /\ Does("credential") /\ health = "healthy"
    /\ health' = "stale"
    /\ UNCHANGED <<maps, runs, events, results, attempts, feed, disabled, creds,
                   rotated, work, req, deaths, mix>>

-----------------------------------------------------------------------------

\* A request dies or is rolled back; an uncommitted run vanishes with it.
RequestDies(c) ==
    /\ ~At(c, "idle") /\ deaths < mix.deaths
    /\ runs' = IF At(c, "trigger") THEN [runs EXCEPT ![req[c].run].status = "gone"] ELSE runs
    /\ deaths' = deaths + 1
    /\ Finish(c)
    /\ UNCHANGED <<maps, events, results, attempts, feed, connector, work, mix>>

Operate(c) ==
    \/ \E s \in Stores : TriggerRun(c, s)
    \/ TriggerProductRun(c)
    \/ RepairBacklogItem(c)
    \/ RepairResult(c)
    \/ RepairStock(c)
    \/ \E op \in {"issue", "rotate"} : CheckInstance(c, op)

Serve(c) ==
    \/ CommitTrigger(c)
    \/ RepairConfirms(c)
    \/ RepairFindsNothing(c)
    \/ RepairSuggests(c)
    \/ RepairConflicts(c)
    \/ RepairEchoes(c)
    \/ CloseStock(c)
    \/ RevokeSeen(c)
    \/ IssueCredential(c)

Process(w) ==
    \/ \E e \in events : ClaimEvent(w, e)
    \/ TakeRun(w)
    \/ UnmappedStore(w)
    \/ ReadOnHand(w)
    \/ CompareStock(w)
    \/ \E view \in ItemViews : ReadConfirmed(w, view)
    \/ CompareProducts(w)
    \/ MarkDelivered(w)

Maintain ==
    \/ \E p \in Products, n \in Refs : Suggest(p, n)
    \/ \E i \in DOMAIN items, v \in 1 .. 2 : Confirm(i, v) \/ Retire(i, v)
    \/ \E s \in Stores : SetWarehouse(s)
    \/ \E i \in DOMAIN warehouses : RetireWarehouse(i)
    \/ Disable
    \/ HeartbeatLapses
    \/ \E i \in DOMAIN creds : RevokeCredential(i) \/ ExpireCredential(i)

Connect ==
    \E i \in DOMAIN creds :
        \/ PullRequests(i)
        \/ \E r \in asked, rep \in Reports : ReportSnapshot(i, r, rep)
        \/ Heartbeat(i)

Next ==
    \/ \E c \in Clients : Operate(c) \/ Serve(c) \/ RequestDies(c)
    \/ \E w \in Workers : Process(w) \/ ConsumerThrows(w) \/ WorkerDies(w)
    \/ Maintain
    \/ Connect

Spec == Init /\ [][Next]_vars

\* A drainer that can claim an event or go on with its delivery does so, the
\* connector polls and answers, and a request that was begun is finished.
Fairness ==
    /\ \A w \in Workers : WF_vars(Process(w))
    /\ \A c \in Clients : WF_vars(Serve(c))
    /\ WF_vars(\E i \in DOMAIN creds : PullRequests(i))
    /\ WF_vars(\E i \in DOMAIN creds, r \in asked, rep \in Reports : ReportSnapshot(i, r, rep))

-----------------------------------------------------------------------------
(* Properties.                                                               *)

\* The tables hold what the schema declares.
TypeOK ==
    /\ items \in Seq(ItemMapRow)
    /\ warehouses \in Seq(WarehouseMapRow)
    /\ runs \in Seq(RunRow)
    /\ events \subseteq EventRow
    /\ results \subseteq ResultRow
    /\ attempts \in Seq(AttemptRow)
    /\ creds \in Seq(CredentialRow)

\* However often its events are delivered and to however many workers, a run is
\* reported once: its results are those of the one processing that completed it,
\* and what a stock run found is judged by the report the connector was first
\* told is recorded, whatever it sent again before the run was processed.
RunReportedOnce ==
    /\ TypeOK
    /\ \A r \in DOMAIN runs :
        runs[r].written = IF runs[r].status = "completed" THEN 1 ELSE 0
    /\ \A x \in results :
        LET run == runs[x.run]
        IN  /\ x.by = 1
            /\ run.kind = "stock" /\ x.class \in {"match", "quantity_divergence"} =>
                /\ run.told # None
                /\ \E n \in DOMAIN run.told.qty :
                    /\ run.report.product[n] = x.product
                    /\ x.class = "match" <=> run.told.qty[n] = OnHand[run.store][x.product]

\* A stock result is closed by one repair: of the operators who repair it, one
\* is answered "eligible_again" and the others that it was a replay.  A mapping
\* is confirmed by one operator, whose name no later confirmation or repair
\* replaces, and a repair that answers "mapped" or "no_op_echo" names a mapping
\* that was confirmed.
RepairsStand ==
    /\ \A key \in Results("stock") :
        Cardinality({k \in DOMAIN attempts :
            attempts[k].target = key /\ attempts[k].outcome = "eligible_again"})
        = IF StateOf(key) = "repaired" THEN 1 ELSE 0
    /\ \A i \in DOMAIN items : items[i].confirms <= 1
    /\ \A k \in DOMAIN attempts :
        attempts[k].mapping # 0 => items[attempts[k].mapping].state = "confirmed"

\* Once a rotation has handed out its credential no older one is admitted, even
\* if two rotations, an issue and a revocation overlap.
RotationSupersedes ==
    \A i \in DOMAIN creds : i < rotated => ~Admitted(i)

Running(r) == r \in DOMAIN runs /\ runs[r].status = "running"
Completed(r) == r \in DOMAIN runs /\ runs[r].status = "completed"

\* An event that will not be delivered: dead-lettered, or claimed by a worker
\* that is gone.
Lost(e) ==
    \/ e.state = "dead"
    \/ e.state = "claimed" /\ \A w \in Workers : work[w].at # "idle" => work[w].event # e

Abandoned(r) == \A e \in events : e.run = r => Lost(e)

\* A product run, and a stock run whose report the connector was told is
\* recorded, is completed in the end, unless every event it has is lost: one
\* that is left is enough, and only a fault loses an event.
AnsweredRunsComplete ==
    \A r \in 1 .. MaxRuns :
        Running(r) /\ (runs[r].kind = "product" \/ runs[r].told # None)
            ~> Completed(r) \/ (deaths > 0 /\ Abandoned(r))
-----------------------------------------------------------------------------
(* The invariant from which the properties above follow.                     *)

\* A mapping is confirmed at most once, and confirmations are numbered.
ItemsConfirmedOnce ==
    /\ items \in Seq(ItemMapRow)
    /\ \A i \in DOMAIN items :
        /\ items[i].confirmed <= Len(items) + 1
        /\ items[i].confirms = IF items[i].state = "confirmed" THEN 1 ELSE 0

WarehousesTyped == warehouses \in Seq(WarehouseMapRow)

\* Whatever was there before the newest rotation is revoked.
OlderRevoked ==
    /\ creds \in Seq(CredentialRow)
    /\ rotated \in 0 .. Len(creds)
    /\ \A i \in DOMAIN creds : i < rotated => creds[i].revoked

\* A run that has not been committed is its client's alone.
TriggersHold ==
    /\ DOMAIN req = Clients
    /\ \A c \in Clients :
        At(c, "trigger") =>
            req[c].run \in DOMAIN runs /\ runs[req[c].run].status = "uncommitted"
    /\ \A c, d \in Clients :
        At(c, "trigger") /\ At(d, "trigger") /\ req[c].run = req[d].run => c = d

\* A run that is being processed is running, and its worker's alone; what a
\* worker delivers is an event of the run it works on.
WorkersHold ==
    /\ DOMAIN work = Workers
    /\ events \subseteq EventRow
    /\ \A e \in events : e.run \in DOMAIN runs
    /\ \A w \in Workers :
        work[w].at # "idle" =>
            /\ work[w].run \in DOMAIN runs
            /\ work[w].event \in EventRow /\ work[w].event.run = work[w].run
            /\ Processing(w) => runs[work[w].run].status = "running"
            /\ work[w].at \in {"confirmed", "unmapped"} => runs[work[w].run].kind = "product"
            /\ work[w].at = "unmapped" =>
                work[w].view \in ItemViews /\ work[w].rows \subseteq ItemMapRow
    /\ \A v, w \in Workers :
        Processing(v) /\ Processing(w) /\ work[v].run = work[w].run => v = w

\* Results are written when their run is completed, once, and the report that is
\* recorded is the one the connector was first told is.
RunsHold ==
    /\ runs \in Seq(RunRow)
    /\ \A r \in DOMAIN runs :
        /\ runs[r].written = IF runs[r].status = "completed" THEN 1 ELSE 0
        /\ runs[r].report = None => runs[r].told = None
        /\ runs[r].report # None => runs[r].told = runs[r].report.sent
    /\ asked \subseteq DOMAIN runs

\* What a stock result says is judged by the report the connector was first told.
Judged(x) ==
    runs[x.run].kind = "stock" /\ x.class \in {"match", "quantity_divergence"} =>
        /\ runs[x.run].told # None
        /\ \E n \in DOMAIN runs[x.run].told.qty :
            /\ runs[x.run].report.product[n] = x.product
            /\ x.class = "match" <=> runs[x.run].told.qty[n] = OnHand[runs[x.run].store][x.product]

ResultsHold ==
    /\ results \subseteq ResultRow
    /\ \A x \in results :
        /\ x.run \in DOMAIN runs /\ runs[x.run].status = "completed"
        /\ x.by = 1
        /\ Judged(x)
    /\ \A x, y \in results : Key(x) = Key(y) => x = y

IsResult(kind, key) == \E x \in results : Key(x) = key /\ runs[x.run].kind = kind

RepairRequest ==
    [at : {"repair", "echo"}, target : ResultRow \cup Products,
     kind : {"confirm", "suggest_confirm"}, product : Products, mapping : Nat,
     version : Nat, ref : Refs \cup {None}]

\* A repair of a mapping is about a product of the backlog or a result of a product
\* run, and names a mapping there is or the item name to map.
Asks(r) ==
    r.at \in {"repair", "echo"} =>
        /\ r \in RepairRequest
        /\ r.target \in Products \/ IsResult("product", r.target)
        /\ r.kind = "confirm" =>
            r.mapping \in DOMAIN items \/ (r.mapping = 0 /\ r.at = "repair")
        /\ r.kind # "confirm" => r.ref \in Refs

\* The repair of a stock result has seen the state that the result still has.
Sees(r) ==
    r.at = "stock" =>
        \E x \in results : Key(x) = r.target /\ x.state = r.saw /\ runs[x.run].kind = "stock"

\* A stock result has one repair at a time.
RepairsHold ==
    /\ \A c \in Clients : Asks(req[c]) /\ Sees(req[c])
    /\ \A c, d \in Clients :
        At(c, "stock") /\ At(d, "stock") /\ req[c].target = req[d].target => c = d

\* The k-th attempt is the one that closed a stock result.
Closes(k, key) == attempts[k].target = key /\ attempts[k].outcome = "eligible_again"

AttemptsHold ==
    /\ attempts \in Seq(AttemptRow)
    /\ \A k \in DOMAIN attempts :
        /\ attempts[k].mapping # 0 =>
            /\ attempts[k].mapping \in DOMAIN items
            /\ items[attempts[k].mapping].state = "confirmed"
        /\ attempts[k].outcome = "eligible_again" => IsResult("stock", attempts[k].target)
    /\ \A x \in results : runs[x.run].kind = "stock" =>
        /\ x.state = "open" => \A k \in DOMAIN attempts : ~Closes(k, Key(x))
        /\ x.state = "repaired" => \E k \in DOMAIN attempts : Closes(k, Key(x))
        /\ \A j, k \in DOMAIN attempts : Closes(j, Key(x)) /\ Closes(k, Key(x)) => j = k

ErpOpsInvariant ==
    /\ ItemsConfirmedOnce
    /\ WarehousesTyped
    /\ OlderRevoked
    /\ TriggersHold
    /\ WorkersHold
    /\ RunsHold
    /\ ResultsHold
    /\ RepairsHold
    /\ AttemptsHold
=============================================================================
