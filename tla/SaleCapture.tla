---------------------------- MODULE SaleCapture ----------------------------
(***************************************************************************)
(* The tills' side of a sale (SalesService): capture, void and refund,     *)
(* composed with the sync of the captured sale (SaleSync).                 *)
(*                                                                         *)
(* A till retries a request it has no answer for, under the same           *)
(* provenance (source_system, external_id), here a key.  A unique index    *)
(* per table holds the provenance: an INSERT that meets the uncommitted    *)
(* row of another transaction waits for it, and one that meets a committed *)
(* row writes nothing and resolves to that row.  The sale, its lines and   *)
(* its sale.captured event commit together, and so do a void or refund and *)
(* its reversal request.  The projection is read back in a second          *)
(* transaction.                                                            *)
(***************************************************************************)
EXTENDS SaleSync, FiniteSets

CONSTANTS
    Tills,          \* requests in flight, one per till
    StoreOf,        \* the store each till's operator is signed in to
    Keys,           \* provenances (source_system, external_id)
    Refs,           \* ids of sale_voids and sale_refunds rows
    MaxRequests     \* bound: requests the tills ever make

ASSUME CaptureAssumption ==
    /\ "none" \notin Keys \cup Refs
    /\ \A u \in Tills : StoreOf[u] # "none"
    /\ MaxRequests \in Nat

VARIABLES
    receipt,        \* [Sales -> provenance and store of the committed row]
    terminals,      \* committed rows of sale_voids and sale_refunds
    reversals,      \* [Refs -> reversal requests emitted under that id]
    call,           \* [Tills -> the till's request]
    requests,       \* requests made
    answers,        \* projections the tills were answered with
    told            \* [Keys -> answers that said the sale was created]

captureVars == <<receipt, terminals, reversals, call, requests, answers, told>>
allVars == <<vars, captureVars>>

Kinds == {"void", "refund"}
NoReceipt == [key |-> "none", store |-> "none"]
NoCall == [op |-> "none", key |-> "none", sale |-> NoSale, ref |-> "none",
           created |-> FALSE]

CaptureInit ==
    /\ Init
    /\ receipt = [s \in Sales |-> NoReceipt]
    /\ terminals = {}
    /\ reversals = [r \in Refs |-> 0]
    /\ call = [u \in Tills |-> NoCall]
    /\ requests = 0
    /\ answers = {}
    /\ told = [k \in Keys |-> 0]

Committed(s) == receipt[s] # NoReceipt

\* A till with no request in flight makes one.
Request(u) ==
    /\ call[u] = NoCall
    /\ requests < MaxRequests
    /\ requests' = requests + 1

Answer(u, op, k, s, r) ==
    answers' = answers \cup
        {[op |-> op, key |-> k, sale |-> s, ref |-> r, store |-> StoreOf[u]]}

-----------------------------------------------------------------------------
(* Capture.                                                                *)

\* Variant of InFlight: nobody's uncommitted row is waited for.
InFlightUnseen(op, k) == FALSE

\* Another transaction has inserted a row under the provenance and has not
\* committed it: the INSERT waits.
InFlight(op, k) == \E u \in Tills : call[u].op = op /\ call[u].key = k

\* The INSERT ... ON CONFLICT DO NOTHING RETURNING id writes the new row.
InsertSale(u, k, s) ==
    /\ Request(u)
    /\ ~InFlight("capture", k)
    /\ \A o \in Sales : receipt[o].key # k
    /\ ~Committed(s)
    /\ \A v \in Tills : call[v].sale # s
    /\ call' = [call EXCEPT ![u] = [op |-> "capture", key |-> k, sale |-> s,
                                    ref |-> "none", created |-> TRUE]]
    /\ UNCHANGED <<vars, receipt, terminals, reversals, answers, told>>

\* It returned no row: the winner's id is selected by the provenance alone.
ResolveWinner(u, k) ==
    /\ Request(u)
    /\ \E s \in Sales :
         /\ receipt[s].key = k
         /\ call' = [call EXCEPT ![u] = [op |-> "project", key |-> k, sale |-> s,
                                         ref |-> "none", created |-> FALSE]]
    /\ UNCHANGED <<vars, receipt, terminals, reversals, answers, told>>

\* The lines and the sale.captured event are written with the sale.
CommitSale(u) ==
    /\ call[u].op = "capture"
    /\ CaptureSale(call[u].sale)
    /\ receipt' = [receipt EXCEPT
                     ![call[u].sale] = [key |-> call[u].key, store |-> StoreOf[u]]]
    /\ call' = [call EXCEPT ![u].op = "project"]
    /\ UNCHANGED <<terminals, reversals, requests, answers, told>>

\* Variant of InStore: the row-level security of the tenant only.
InTenant(u, s) == Committed(s)

\* WHERE id = $1 AND store_id = $2.
InStore(u, s) == receipt[s].store = StoreOf[u]

\* readSaleProjection after the capture, in its own transaction.
Project(u) ==
    /\ call[u].op = "project"
    /\ InStore(u, call[u].sale)
    /\ Answer(u, "capture", call[u].key, call[u].sale, "none")
    /\ told' = IF call[u].created THEN [told EXCEPT ![call[u].key] = @ + 1] ELSE told
    /\ call' = [call EXCEPT ![u] = NoCall]
    /\ UNCHANGED <<vars, requests, receipt, terminals, reversals>>

\* SaleNotFoundError: the key was captured at another store.
ProjectNotFound(u) ==
    /\ call[u].op = "project"
    /\ ~InStore(u, call[u].sale)
    /\ call' = [call EXCEPT ![u] = NoCall]
    /\ UNCHANGED <<vars, requests, receipt, terminals, reversals, answers, told>>

-----------------------------------------------------------------------------
(* Void and refund: a row of their own, never a change of the sale.        *)

Recorded(kind, k) == {e \in terminals : e.kind = kind /\ e.key = k}

\* The sale is looked up in the till's store, then the row is inserted.
InsertTerminal(u, kind, k, s, r) ==
    /\ Request(u)
    /\ InStore(u, s)
    /\ ~InFlight(kind, k)
    /\ Recorded(kind, k) = {}
    /\ r \notin {e.ref : e \in terminals} \cup {call[v].ref : v \in Tills}
    /\ call' = [call EXCEPT ![u] = [op |-> kind, key |-> k, sale |-> s,
                                    ref |-> r, created |-> TRUE]]
    /\ UNCHANGED <<vars, receipt, terminals, reversals, answers, told>>

\* The row exists and is of the same sale: the recorded event is answered.
ReplayTerminal(u, kind, k, s) ==
    /\ Request(u)
    /\ InStore(u, s)
    /\ \E e \in Recorded(kind, k) :
         e.sale = s /\ Answer(u, kind, k, e.sale, e.ref)
    /\ UNCHANGED <<vars, receipt, terminals, reversals, call, told>>

\* It is of another sale: TerminalEventProvenanceConflictError.
TerminalConflict(u, kind, k, s) ==
    /\ call[u] = NoCall
    /\ InStore(u, s)
    /\ \E e \in Recorded(kind, k) : e.sale # s
    /\ UNCHANGED allVars

\* SaleNotFoundError of either, before anything is written.
TerminalNotFound(u, s) ==
    /\ call[u] = NoCall
    /\ ~InStore(u, s)
    /\ UNCHANGED allVars

\* The row and its erpnext.posting.requested event, whose source_ref_id is
\* the row's own id, commit together; the answer may be lost on its way.
CommitTerminal(u, kind) ==
    LET c == call[u] IN
    /\ c.op = kind
    /\ terminals' = terminals \cup
         {[kind |-> kind, key |-> c.key, sale |-> c.sale, ref |-> c.ref]}
    /\ reversals' = [reversals EXCEPT ![c.ref] = @ + 1]
    /\ Answer(u, kind, c.key, c.sale, c.ref) \/ UNCHANGED answers
    /\ call' = [call EXCEPT ![u] = NoCall]
    /\ UNCHANGED <<vars, requests, receipt, told>>

RecordVoid(u) ==
    \/ \E k \in Keys, s \in Sales :
        \/ \E r \in Refs : InsertTerminal(u, "void", k, s, r)
        \/ ReplayTerminal(u, "void", k, s)
        \/ TerminalConflict(u, "void", k, s)
    \/ CommitTerminal(u, "void")

RecordRefund(u) ==
    \/ \E k \in Keys, s \in Sales :
        \/ \E r \in Refs : InsertTerminal(u, "refund", k, s, r)
        \/ ReplayTerminal(u, "refund", k, s)
        \/ TerminalConflict(u, "refund", k, s)
    \/ CommitTerminal(u, "refund")

-----------------------------------------------------------------------------
\* A statement or the COMMIT fails: ROLLBACK.  A projection that fails, or
\* whose answer is lost, leaves the committed sale.
CallFails(u) ==
    /\ call[u] # NoCall
    /\ call' = [call EXCEPT ![u] = NoCall]
    /\ UNCHANGED <<vars, requests, receipt, terminals, reversals, answers, told>>

Till(u) ==
    \/ \E k \in Keys :
        \/ \E s \in Sales : InsertSale(u, k, s)
        \/ ResolveWinner(u, k)
    \/ CommitSale(u)
    \/ Project(u)
    \/ ProjectNotFound(u)
    \/ RecordVoid(u)
    \/ RecordRefund(u)
    \/ \E s \in Sales : TerminalNotFound(u, s)
    \/ CallFails(u)

\* The steps of SaleSync after the capture.
Sync ==
    /\ \/ \E s \in Sales : ProcessConverges(s) \/ InsertConflicts(s)
       \/ \E t \in Txns :
            Process(t) \/ ProcessFails(t) \/ Quarantine(t) \/ Repair(t) \/ Abort(t)
    /\ UNCHANGED captureVars

CaptureNext == Sync \/ \E u \in Tills : Till(u)

CaptureSpec == CaptureInit /\ [][CaptureNext]_allVars

-----------------------------------------------------------------------------
(* Properties.                                                             *)

\* The service's "re-delivery ... returns the SAME sale reference
\* deterministically (FR-100), no double-apply": however the retries of one
\* receipt overlap, at whatever stores, every projection answered for it
\* names one sale, which the till's own store captured; one answer says it
\* was created; and one ERPNext posting at most is requested for it.
CapturedOnce ==
    \A k \in Keys :
        LET of == {s \in Sales : receipt[s].key = k}
            said == {a \in answers : a.op = "capture" /\ a.key = k} IN
        /\ Cardinality(of) <= 1
        /\ \A a \in said : a.sale \in of /\ receipt[a.sale].store = a.store
        /\ told[k] <= 1
        /\ \A s \in of : postings[s] <= 1 /\ status[s] # "none"

\* A void or refund that tills send again, at once or after a lost answer,
\* is one row with one reversal request under its own id, of a sale captured
\* at the till's store, and every answer tells of the sale the till asked
\* about as the row does.
ReversedOnce ==
    /\ \A r \in Refs :
         reversals[r] = Cardinality({e \in terminals : e.ref = r})
    /\ \A kind \in Kinds, k \in Keys : Cardinality(Recorded(kind, k)) <= 1
    /\ \A a \in answers : a.op \in Kinds =>
         /\ [kind |-> a.op, key |-> a.key, sale |-> a.sale, ref |-> a.ref] \in terminals
         /\ receipt[a.sale].store = a.store

-----------------------------------------------------------------------------
(* What the proofs add.                                                    *)

TillStores == {StoreOf[u] : u \in Tills}
Receipts == [key : Keys, store : TillStores]
Terminals == [kind : Kinds, key : Keys, sale : Sales, ref : Refs]
Calls == [op : {"capture", "project"} \cup Kinds, key : Keys, sale : Sales,
          ref : Refs \cup {"none"}, created : BOOLEAN]
Answers == [op : {"capture"} \cup Kinds, key : Keys, sale : Sales,
            ref : Refs \cup {"none"}, store : TillStores]

CaptureTypeOK ==
    /\ receipt \in [Sales -> Receipts \cup {NoReceipt}]
    /\ terminals \subseteq Terminals
    /\ reversals \in [Refs -> Nat]
    /\ call \in [Tills -> Calls \cup {NoCall}]
    /\ requests \in Nat
    /\ answers \subseteq Answers
    /\ told \in [Keys -> Nat]

\* A sale is known to the sync exactly from its commit on.
CommittedIsCaptured == \A s \in Sales : Committed(s) <=> status[s] # "none"

\* The unique indexes of sales, sale_voids and sale_refunds, and the ids.
UniqueRows ==
    /\ \A s, o \in Sales : Committed(s) /\ receipt[s].key = receipt[o].key => s = o
    /\ \A e, f \in terminals : e.kind = f.kind /\ e.key = f.key => e = f
    /\ \A e, f \in terminals : e.ref = f.ref => e = f

\* A capture in flight is the only row under its key and id; a void or refund
\* in flight is, too, and its sale is one of the till's store.
UncommittedIsNew ==
    /\ \A u \in Tills : call[u].op = "capture" =>
         /\ ~Committed(call[u].sale) /\ call[u].created
         /\ \A s \in Sales : receipt[s].key # call[u].key
         /\ \A v \in Tills : call[v].op = "capture" /\ v # u =>
              call[v].key # call[u].key /\ call[v].sale # call[u].sale
    /\ \A u \in Tills : call[u].op \in Kinds =>
         /\ receipt[call[u].sale].store = StoreOf[u]
         /\ call[u].ref \in Refs
         /\ \A e \in terminals :
              ~(e.kind = call[u].op /\ e.key = call[u].key) /\ e.ref # call[u].ref
         /\ \A v \in Tills : call[v].op \in Kinds /\ v # u =>
              /\ call[v].op = call[u].op => call[v].key # call[u].key
              /\ call[v].ref # call[u].ref

\* A projection reads the committed sale of its key; one till captured it, at
\* its own store, and has not been told yet.
ProjectionIsOfKey ==
    \A u \in Tills : call[u].op = "project" =>
        /\ receipt[call[u].sale].key = call[u].key
        /\ call[u].created =>
             /\ receipt[call[u].sale].store = StoreOf[u]
             /\ told[call[u].key] = 0
             /\ \A v \in Tills : call[v].op = "project" /\ call[v].created /\ v # u =>
                  call[v].key # call[u].key

AnswersAreTrue ==
    /\ \A a \in answers : a.op = "capture" =>
         receipt[a.sale] = [key |-> a.key, store |-> a.store]
    /\ \A a \in answers : a.op \in Kinds =>
         /\ [kind |-> a.op, key |-> a.key, sale |-> a.sale, ref |-> a.ref] \in terminals
         /\ receipt[a.sale].store = a.store
    /\ \A k \in Keys : /\ told[k] <= 1
                       /\ told[k] = 1 => \E s \in Sales : receipt[s].key = k

OneReversalPerRow ==
    \A r \in Refs : reversals[r] = IF \E e \in terminals : e.ref = r THEN 1 ELSE 0

\* The inductive invariant of the safety proofs.
CaptureInvariant ==
    /\ CaptureTypeOK
    /\ CommittedIsCaptured
    /\ UniqueRows
    /\ UncommittedIsNew
    /\ ProjectionIsOfKey
    /\ AnswersAreTrue
    /\ OneReversalPerRow
=============================================================================
