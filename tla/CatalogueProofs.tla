-------------------------- MODULE CatalogueProofs ---------------------------
(***************************************************************************)
(* Proofs about the catalogue, for every number of tills, reviewers,       *)
(* products and rows.                                                      *)
(*                                                                         *)
(* Unknown items: an item is settled by one request, a resolved item is    *)
(* answerable, and what is reported after a commit is true.  The argument  *)
(* is the row lock: from SELECT ... FOR UPDATE to the commit the row is    *)
(* pending (ReconcileShape), because whoever else would settle it waits    *)
(* for the lock (OneLocker), and a settled row never changes again.        *)
(*                                                                         *)
(* Read-down: nothing a till holds is stale and unannounced, but for       *)
(* changes that commit at a sequence the till is past.  The argument       *)
(* follows what a till has read of each product: when a change of it       *)
(* commits, either its sequence is later than the cursor the till has or   *)
(* is about to have (Passed), and the change is announced, or it is noted  *)
(* as missed; a page's cursor passes no change that it leaves out.         *)
(***************************************************************************)
EXTENDS UnknownItems, ReadDown, SequenceTheorems, Sums

-----------------------------------------------------------------------------
(* What a step of one client does to the others.                            *)

\* Rows are appended, or settled by somebody whom nobody's lock stops.
RowsEvolve(c) ==
    /\ Len(items') >= Len(items)
    /\ \A i \in ItemIds :
        \/ items'[i] = items[i]
        \/ /\ items[i].status = "pending" /\ items'[i].status # "pending"
           /\ items'[i].ident = items[i].ident /\ items'[i].store = items[i].store
           /\ Unlocked(c, i)

\* Another client's row, if it is locked or settled, is as it was.
LEMMA OthersKeep ==
    ASSUME UnknownItemsInvariant, items' \in Seq(UnknownItemRow),
           NEW c \in Clients, NEW d \in Clients \ {c}, RowsEvolve(c),
           /\ at'[d] = at[d] /\ job'[d] = job[d] /\ locked'[d] = locked[d]
           /\ held'[d] = held[d] /\ shown'[d] = shown[d]
    PROVE  ClientShape(d)'
<1> USE DEF UnknownItemsInvariant
<1>1. ClientShape(d) /\ Len(items) \in Nat /\ Len(items') \in Nat
  BY LenProperties DEF TypeOK
<1>2. ItemIds \subseteq ItemIds'
  BY <1>1 DEF ItemIds, RowsEvolve
<1>3. \A i \in ItemIds : items[i].status # "pending" => items'[i] = items[i]
  BY DEF RowsEvolve
<1>4. CaptureShape(d)'
  BY <1>1, <1>2, <1>3 DEF ClientShape, CaptureShape
<1>5. RequestShape(d)'
  BY <1>1, <1>2 DEF ClientShape, RequestShape
<1>6. ReportShape(d)'
  BY <1>1, <1>2, <1>3 DEF ClientShape, ReportShape
<1>7. ASSUME at[d] \in {"target", "alias", "settle"}
      PROVE  items'[job[d].item] = items[job[d].item]
  <2>1. job[d].item \in ItemIds /\ locked[d] = job[d].item
    BY <1>1, <1>7 DEF ClientShape, RequestShape, ReconcileShape
  <2>2. QED BY <2>1 DEF RowsEvolve, Unlocked
<1>8. ReconcileShape(d)'
  <2>1. ReconcileShape(d)
    BY <1>1 DEF ClientShape
  <2>2. at[d] = "settle" => NewAlias(d)' = NewAlias(d)
    BY <1>7 DEF NewAlias
  <2>3. QED BY <1>7, <2>1, <2>2 DEF ReconcileShape
<1>9. QED BY <1>4, <1>5, <1>6, <1>8 DEF ClientShape

\* A step that leaves the tables alone keeps the invariant, if the client has
\* a right to the lock it takes and to what it reports.
LEMMA QuietKeeps ==
    ASSUME UnknownItemsInvariant, NEW c \in Clients,
           UNCHANGED <<stored, settles>>,
           StateFunctions', ReportedRows', ClientShape(c)',
           \A d \in Clients \ {c} :
             /\ at'[d] = at[d] /\ job'[d] = job[d] /\ locked'[d] = locked[d]
             /\ held'[d] = held[d] /\ shown'[d] = shown[d],
           \/ locked'[c] \in {0, locked[c]}
           \/ locked'[c] \in ItemIds /\ Unlocked(c, locked'[c])
    PROVE  UnknownItemsInvariant'
<1> USE DEF UnknownItemsInvariant, stored
<1>1. Len(items) \in Nat
  BY LenProperties DEF TypeOK
<1>2. TypeOK'
  <2>1. locked'[c] \in 0..Len(items)
    BY <1>1 DEF TypeOK, ItemIds
  <2>2. \A d \in Clients : locked'[d] \in 0..Len(items)
    BY <2>1 DEF TypeOK
  <2>3. QED BY <2>2 DEF TypeOK
<1>3. OneLocker'
  BY <1>1 DEF OneLocker, Unlocked
<1>4. \A d \in Clients : ClientShape(d)'
  BY OthersKeep DEF RowsEvolve, TypeOK
<1>5. SettledByOne' /\ Unsettled' /\ Answerable' /\ CreatedRows'
  BY DEF SettledByOne, Unsettled, Answerable, CreatedRows, ItemIds
<1>6. QED BY <1>2, <1>3, <1>4, <1>5

\* Reports made before stay true; so does the new one.
LEMMA EnqueueKeeps ==
    ASSUME UnknownItemsInvariant, NEW e, Enqueue(e), UNCHANGED <<items, prior>>,
           Reported(e)
    PROVE  ReportedRows'
<1>1. \A x : Reported(x)' <=> Reported(x)
  BY DEF Reported, ItemIds
<1>2. QED BY <1>1 DEF UnknownItemsInvariant, ReportedRows, Enqueue

\* A request that ends, with or without an audit record.
LEMMA DoneKeeps ==
    ASSUME UnknownItemsInvariant, NEW c \in Clients, Done(c),
           UNCHANGED <<stored, settles, shown>>, ReportedRows'
    PROVE  UnknownItemsInvariant'
<1> USE DEF UnknownItemsInvariant, stored
<1>1. /\ at'[c] = "idle" /\ locked'[c] = 0
      /\ \A d \in Clients \ {c} :
           /\ at'[d] = at[d] /\ job'[d] = job[d] /\ locked'[d] = locked[d]
           /\ held'[d] = held[d]
  BY DEF Done, StateFunctions
<1>2. StateFunctions'
  BY DEF Done, StateFunctions, Steps
<1>3. ClientShape(c)'
  BY <1>1 DEF ClientShape, CaptureShape, RequestShape, ReconcileShape, ReportShape,
     ItemIds
<1>4. QED BY <1>1, <1>2, <1>3, QuietKeeps

\* The client's four variables are functions.
LEMMA SameFunctions ==
    ASSUME UnknownItemsInvariant, NEW c \in Clients
    PROVE  /\ at = [at EXCEPT ![c] = at[c]] /\ job = [job EXCEPT ![c] = job[c]]
           /\ locked = [locked EXCEPT ![c] = locked[c]]
           /\ held = [held EXCEPT ![c] = held[c]]
           /\ at[c] \in Steps /\ locked[c] \in Nat
BY DEF UnknownItemsInvariant, StateFunctions

\* What a client's step to step a with request j, lock l and alias h sets.
LEMMA StepSets ==
    ASSUME UnknownItemsInvariant, NEW c \in Clients,
           NEW a \in Steps, NEW j, NEW l \in Nat, NEW h,
           at' = [at EXCEPT ![c] = a], job' = [job EXCEPT ![c] = j],
           locked' = [locked EXCEPT ![c] = l], held' = [held EXCEPT ![c] = h]
    PROVE  /\ at'[c] = a /\ job'[c] = j /\ locked'[c] = l /\ held'[c] = h
           /\ \A d \in Clients \ {c} :
                /\ at'[d] = at[d] /\ job'[d] = job[d] /\ locked'[d] = locked[d]
                /\ held'[d] = held[d]
           /\ at' \in [Clients -> Steps] /\ locked' \in [Clients -> Nat]
           /\ job' = [d \in Clients |-> job'[d]] /\ held' = [d \in Clients |-> held'[d]]
<1>1. /\ at \in [Clients -> Steps] /\ locked \in [Clients -> Nat]
      /\ job = [d \in Clients |-> job[d]] /\ held = [d \in Clients |-> held[d]]
  BY DEF UnknownItemsInvariant, StateFunctions
<1>2. QED BY <1>1

\* Such a step keeps the invariant when it fits the client's shape.
LEMMA MoveKeeps ==
    ASSUME UnknownItemsInvariant, NEW c \in Clients,
           NEW a \in Steps, NEW j, NEW l \in Nat, NEW h,
           at' = [at EXCEPT ![c] = a], job' = [job EXCEPT ![c] = j],
           locked' = [locked EXCEPT ![c] = l], held' = [held EXCEPT ![c] = h],
           UNCHANGED <<stored, settles, shown>>, ReportedRows',
           (RequestShape(c) /\ ReconcileShape(c) /\ ReportShape(c))',
           a \in {"lookup", "dedup", "insert"} => j.store \in Stores /\ j.ident \in Identifiers,
           a \in {"bulk", "prior"} => j.ids \subseteq ItemIds,
           a = "prior" => j.last \in ItemIds /\ items[j.last].status # "pending",
           l \in {0, locked[c]} \/ (l \in ItemIds /\ Unlocked(c, l))
    PROVE  UnknownItemsInvariant'
<1> USE DEF UnknownItemsInvariant, stored
<1>1. /\ at'[c] = a /\ job'[c] = j /\ locked'[c] = l /\ held'[c] = h
      /\ \A d \in Clients \ {c} :
           /\ at'[d] = at[d] /\ job'[d] = job[d] /\ locked'[d] = locked[d]
           /\ held'[d] = held[d]
      /\ at' \in [Clients -> Steps] /\ locked' \in [Clients -> Nat]
      /\ job' = [d \in Clients |-> job'[d]] /\ held' = [d \in Clients |-> held'[d]]
  BY StepSets
<1>2. StateFunctions'
  BY <1>1 DEF StateFunctions
<1>3. CaptureShape(c)'
  <2>1. shown[c] \subseteq ItemIds
    BY DEF ClientShape, CaptureShape
  <2>2. QED BY <1>1, <2>1 DEF CaptureShape, ItemIds
<1>4. ClientShape(c)'
  BY <1>3 DEF ClientShape
<1>5. QED BY <1>1, <1>2, <1>4, QuietKeeps

\* Nothing is reported.
LEMMA NothingReported ==
    ASSUME UnknownItemsInvariant, UNCHANGED <<items, prior, audits>>
    PROVE  ReportedRows'
BY DEF UnknownItemsInvariant, ReportedRows, Reported, ItemIds

-----------------------------------------------------------------------------
(* Capture and review, as far as they only read.                            *)

\* The till's lookups.
LEMMA CaptureKeeps ==
    ASSUME UnknownItemsInvariant, NEW c \in Clients,
           PosCapture(c) \/ CaptureLookup(c) \/ CaptureDedup(c)
    PROVE  UnknownItemsInvariant'
<1>1. UNCHANGED <<stored, settles, shown>> /\ ReportedRows'
  BY NothingReported DEF PosCapture, CaptureLookup, CaptureDedup, stored
<1>2. CASE Done(c)
  BY <1>1, <1>2, DoneKeeps
<1>3. ASSUME NEW a \in {"lookup", "dedup", "insert"}, NEW j,
             j.store \in Stores, j.ident \in Identifiers,
             at' = [at EXCEPT ![c] = a], job' = [job EXCEPT ![c] = j],
             UNCHANGED <<locked, held>>
      PROVE  UnknownItemsInvariant'
  <2>1. a \in Steps /\ locked[c] \in Nat
    BY SameFunctions DEF Steps
  <2>2. /\ locked' = [locked EXCEPT ![c] = locked[c]]
        /\ held' = [held EXCEPT ![c] = held[c]]
    BY <1>3, SameFunctions
  <2>3. at'[c] = a
    BY <1>3 DEF UnknownItemsInvariant, StateFunctions
  <2>4. (RequestShape(c) /\ ReconcileShape(c) /\ ReportShape(c))'
    BY <2>3 DEF RequestShape, ReconcileShape, ReportShape
  <2>5. QED BY <1>1, <1>3, <2>1, <2>2, <2>4, MoveKeeps
<1>4. CASE PosCapture(c)
  <2>1. PICK ident \in Identifiers :
          job' = [job EXCEPT ![c] = [kind |-> "capture", store |-> Scope[c], ident |-> ident]]
    BY <1>4 DEF PosCapture
  <2>2. Scope[c] \in Stores
    BY <1>4, UnknownItemsAssumption DEF PosCapture
  <2>3. QED BY <1>3, <1>4, <2>1, <2>2 DEF PosCapture
<1>5. ASSUME CaptureLookup(c) \/ CaptureDedup(c), ~Done(c) PROVE UnknownItemsInvariant'
  <2>1. /\ at[c] \in {"lookup", "dedup"} /\ UNCHANGED <<job, locked, held>>
        /\ \E a \in {"dedup", "insert"} : at' = [at EXCEPT ![c] = a]
    BY <1>5 DEF CaptureLookup, CaptureDedup, GoTo
  <2>2. job[c].store \in Stores /\ job[c].ident \in Identifiers
    BY <2>1 DEF UnknownItemsInvariant, ClientShape, CaptureShape
  <2>3. job' = [job EXCEPT ![c] = job[c]]
    BY <2>1, SameFunctions
  <2>4. QED BY <1>3, <2>1, <2>2, <2>3
<1>6. QED BY <1>2, <1>4, <1>5

\* The review queue shows rows that exist.
LEMMA ListKeeps ==
    ASSUME UnknownItemsInvariant, NEW c \in Clients, List(c)
    PROVE  UnknownItemsInvariant'
<1> USE DEF UnknownItemsInvariant
<1>1. PICK rows \in SUBSET ItemIds : shown' = [shown EXCEPT ![c] = rows]
  BY DEF List, ReviewQueue
<1>2. UNCHANGED <<stored, items, settles, at, job, locked, held>> /\ ReportedRows'
  BY NothingReported DEF List, stored
<1>3. /\ shown'[c] = rows /\ \A d \in Clients \ {c} : shown'[d] = shown[d]
      /\ shown' \in [Clients -> SUBSET Nat]
  BY <1>1 DEF StateFunctions, ItemIds
<1>4. StateFunctions'
  BY <1>2, <1>3 DEF StateFunctions, stored
<1>5. ClientShape(c)'
  <2>1. ClientShape(c)
    OBVIOUS
  <2>2. CaptureShape(c)'
    BY <1>2, <1>3, <2>1 DEF ClientShape, CaptureShape, ItemIds
  <2>3. RequestShape(c)' /\ ReconcileShape(c)' /\ ReportShape(c)'
    BY <1>2, <2>1 DEF ClientShape, RequestShape, ReconcileShape, ReportShape, ItemIds,
       NewAlias, stored
  <2>4. QED BY <2>2, <2>3 DEF ClientShape
<1>6. QED BY <1>2, <1>3, <1>4, <1>5, QuietKeeps

\* A bulk dismissal between its rows: a conflict's prior state is read after
\* the row was found settled, and a settled row stays settled.
LEMMA BulkKeeps ==
    ASSUME UnknownItemsInvariant, NEW c \in Clients,
           BulkDismiss(c) \/ BulkPrior(c) \/ BulkEnd(c)
    PROVE  UnknownItemsInvariant'
<1> USE DEF UnknownItemsInvariant
<1>1. UNCHANGED <<stored, items, settles, shown, audits>>
  BY DEF BulkDismiss, BulkPrior, BulkEnd, stored
<1>2. ReportedRows'
  <2>1. CASE BulkPrior(c)
    <3>1. items[job[c].last].status # "pending"
      BY <2>1 DEF BulkPrior, ClientShape, CaptureShape
    <3>2. QED BY <1>1, <2>1, <3>1 DEF BulkPrior, ReportedRows, Reported, ItemIds
  <2>2. CASE ~BulkPrior(c)
    BY <1>1, <2>2, NothingReported DEF BulkDismiss, BulkEnd
  <2>3. QED BY <2>1, <2>2
<1>3. CASE BulkEnd(c)
  BY <1>1, <1>2, <1>3, DoneKeeps DEF BulkEnd
<1>4. CASE BulkDismiss(c) \/ BulkPrior(c)
  <2>1. PICK ids : /\ ids \subseteq ItemIds
                   /\ job' = [job EXCEPT ![c] = [kind |-> "bulk", ids |-> ids]]
    <3>1. CASE BulkDismiss(c)
      BY <3>1 DEF BulkDismiss, ClientShape, CaptureShape
    <3>2. CASE BulkPrior(c)
      BY <3>2 DEF BulkPrior, ClientShape, CaptureShape
    <3>3. QED BY <1>4, <3>1, <3>2
  <2>2. /\ at' = [at EXCEPT ![c] = "bulk"] /\ "bulk" \in Steps
        /\ locked' = [locked EXCEPT ![c] = locked[c]] /\ locked[c] \in Nat
        /\ held' = [held EXCEPT ![c] = held[c]]
    BY <1>4, SameFunctions DEF BulkDismiss, BulkPrior, Steps
  <2>3. at'[c] = "bulk"
    BY <2>2 DEF StateFunctions
  <2>4. (RequestShape(c) /\ ReconcileShape(c) /\ ReportShape(c))'
    BY <2>3 DEF RequestShape, ReconcileShape, ReportShape
  <2> DEFINE j == [kind |-> "bulk", ids |-> ids]
  <2>5. j.ids = ids /\ job' = [job EXCEPT ![c] = j]
    BY <2>1
  <2> HIDE DEF j
  <2>6. QED BY <1>1, <1>2, <2>1, <2>2, <2>4, <2>5, MoveKeeps
<1>5. QED BY <1>3, <1>4

-----------------------------------------------------------------------------
(* Reconciliation, up to the commit.                                        *)

\* A request names a row that was shown; its lock comes later.
LEMMA BeginKeeps ==
    ASSUME UnknownItemsInvariant, NEW c \in Clients,
           Link(c) \/ CreateProduct(c) \/ Reopen(c)
    PROVE  UnknownItemsInvariant'
<1> USE DEF UnknownItemsInvariant
<1>1. PICK j : /\ Begin(c, j)
               /\ j.item \in ItemIds /\ j.kind \in {"linked", "created", "reopen"}
               /\ j.kind = "linked" => j.product \in Products \cup {0}
               /\ j.kind = "created" => j.product = Cardinality(Products) + j.item
  <2>1. shown[c] \subseteq ItemIds
    BY DEF ClientShape, CaptureShape
  <2>2. CASE Link(c)
    <3>1. PICK i \in shown[c], p \in Products \cup {0} :
            Begin(c, [kind |-> "linked", item |-> i, product |-> p])
      BY <2>2 DEF Link
    <3>2. QED BY <2>1, <3>1
  <2>3. CASE CreateProduct(c)
    <3>1. PICK i \in shown[c] :
            Begin(c, [kind |-> "created", item |-> i, product |-> Cardinality(Products) + i])
      BY <2>3 DEF CreateProduct
    <3>2. QED BY <2>1, <3>1
  <2>4. CASE Reopen(c)
    <3>1. PICK i \in shown[c] : Begin(c, [kind |-> "reopen", item |-> i])
      BY <2>4 DEF Reopen
    <3>2. QED BY <2>1, <3>1
  <2>5. QED BY <2>2, <2>3, <2>4
<1>2. /\ UNCHANGED <<stored, items, settles, shown, audits, prior, locked, held>>
      /\ at' = [at EXCEPT ![c] = "lock"] /\ job' = [job EXCEPT ![c] = j]
      /\ "lock" \in Steps
  BY <1>1 DEF Begin, stored, Steps
<1>3. at'[c] = "lock" /\ job'[c] = j
  BY <1>2 DEF StateFunctions
<1>4. (RequestShape(c) /\ ReconcileShape(c) /\ ReportShape(c))'
  BY <1>1, <1>2, <1>3 DEF RequestShape, ReconcileShape, ReportShape, ItemIds
<1>5. /\ locked' = [locked EXCEPT ![c] = locked[c]] /\ locked[c] \in Nat
      /\ held' = [held EXCEPT ![c] = held[c]]
  BY <1>2, SameFunctions
<1>6. QED BY <1>2, <1>4, <1>5, NothingReported, MoveKeeps

\* An answer or a refusal.
LEMMA RefusalKeeps ==
    ASSUME UnknownItemsInvariant, NEW c \in Clients, Answer(c) \/ Refuse(c),
           UNCHANGED <<stored, settles, prior, shown>>
    PROVE  UnknownItemsInvariant'
<1>1. Done(c) /\ UNCHANGED <<items, prior>>
  BY DEF Answer, Refuse, stored
<1>2. ReportedRows'
  <2>1. Reported(<<"rejected", 0>>)
    BY DEF Reported
  <2>2. CASE Answer(c)
    BY <1>1, <2>2, NothingReported DEF Answer
  <2>3. CASE Refuse(c)
    BY <1>1, <2>1, <2>3, EnqueueKeeps DEF Refuse
  <2>4. QED BY <2>2, <2>3
<1>3. QED BY <1>1, <1>2, DoneKeeps

\* SELECT ... FOR UPDATE of a link, a creation or a reopening.
LEMMA LockKeeps ==
    ASSUME UnknownItemsInvariant, NEW c \in Clients, LockPending(c) \/ LockDismissed(c)
    PROVE  UnknownItemsInvariant'
<1> USE DEF UnknownItemsInvariant
<1> DEFINE i == job[c].item
<1>1. /\ UNCHANGED <<stored, items, settles, prior, shown>> /\ at[c] = "lock"
      /\ Unlocked(c, i)
  BY DEF LockPending, LockDismissed, stored
<1>2. CASE Answer(c) \/ Refuse(c)
  BY <1>1, <1>2, RefusalKeeps
<1>3. RequestShape(c) /\ i \in ItemIds /\ i \in Nat /\ items[i] \in UnknownItemRow
  <2>1. RequestShape(c)
    BY DEF ClientShape
  <2>2. i \in ItemIds
    BY <1>1, <2>1 DEF RequestShape
  <2>3. QED BY <2>1, <2>2, ElementOfSeq DEF TypeOK, ItemIds
<1>4. ASSUME NEW a \in {"target", "alias", "sibling"}, Lock(c, i, a),
             a \in {"target", "alias"} => /\ items[i].status = "pending"
                                          /\ job[c].kind \in {"linked", "created"},
             a = "alias" => job[c].kind = "created",
             a = "sibling" => items[i].status = "dismissed" /\ job[c].kind = "reopen"
      PROVE  UnknownItemsInvariant'
  <2>1. /\ at' = [at EXCEPT ![c] = a] /\ locked' = [locked EXCEPT ![c] = i] /\ a \in Steps
        /\ job' = [job EXCEPT ![c] = job[c]] /\ held' = [held EXCEPT ![c] = held[c]]
    BY <1>4, SameFunctions DEF Lock, Steps
  <2>2. at'[c] = a /\ locked'[c] = i /\ job'[c] = job[c]
    BY <1>3, <2>1, StepSets
  <2>3. (RequestShape(c) /\ ReconcileShape(c) /\ ReportShape(c))'
    BY <1>1, <1>3, <1>4, <2>2 DEF RequestShape, ReconcileShape, ReportShape, ItemIds
  <2>4. ReportedRows'
    BY <1>1, <1>4, NothingReported DEF Lock
  <2> HIDE DEF i
  <2>5. QED BY <1>1, <1>3, <1>4, <2>1, <2>3, <2>4, MoveKeeps
<1>5. ASSUME LockPending(c), ~(Answer(c) \/ Refuse(c)) PROVE UnknownItemsInvariant'
  <2>1. /\ items[i].status = "pending" /\ job[c].kind \in {"linked", "created"}
        /\ Lock(c, i, IF job[c].kind = "linked" THEN "target" ELSE "alias")
    BY <1>5 DEF LockPending
  <2>2. CASE job[c].kind = "linked"
    BY <1>4, <2>1, <2>2
  <2>3. CASE job[c].kind = "created"
    BY <1>4, <2>1, <2>3
  <2>4. QED BY <2>1, <2>2, <2>3
<1>6. ASSUME LockDismissed(c), ~(Answer(c) \/ Refuse(c)) PROVE UnknownItemsInvariant'
  <2>1. /\ items[i].status \notin {"resolved", "pending"} /\ job[c].kind = "reopen"
        /\ Lock(c, i, "sibling")
    BY <1>6 DEF LockDismissed
  <2>2. items[i].status = "dismissed"
    BY <1>3, <2>1 DEF UnknownItemRow, Statuses
  <2>3. QED BY <1>4, <2>1, <2>2
<1>7. QED BY <1>2, <1>5, <1>6

\* The product check, and the INSERT of the alias.
LEMMA AliasKeeps ==
    ASSUME UnknownItemsInvariant, NEW c \in Clients, CheckTarget(c) \/ InsertAlias(c)
    PROVE  UnknownItemsInvariant'
<1> USE DEF UnknownItemsInvariant
<1>1. UNCHANGED <<stored, items, settles, prior, shown>> /\ at[c] \in {"target", "alias"}
  BY DEF CheckTarget, InsertAlias, stored
<1>2. CASE Answer(c) \/ Refuse(c)
  BY <1>1, <1>2, RefusalKeeps
<1>3. RequestShape(c) /\ ReconcileShape(c) /\ ReportShape(c)
  BY DEF ClientShape
<1>4. 0 \notin products
  <2> SUFFICES ASSUME 0 \in products PROVE FALSE
    OBVIOUS
  <2>1. 0 \notin Products
    BY UnknownItemsAssumption
  <2>2. PICK i \in ItemIds : items[i].action = "created" /\ items[i].product = 0
    BY <2>1 DEF CreatedRows
  <2>3. 0 = Cardinality(Products) + i
    BY <2>2 DEF CreatedRows
  <2>4. QED BY <2>3, UnknownItemsAssumption DEF ItemIds
<1>5. ASSUME CheckTarget(c), ~(Answer(c) \/ Refuse(c)) PROVE UnknownItemsInvariant'
  <2>1. /\ job[c].product \in products /\ at' = [at EXCEPT ![c] = "alias"]
        /\ UNCHANGED <<job, locked, held, audits>> /\ "alias" \in Steps /\ at[c] = "target"
    BY <1>5 DEF CheckTarget, GoTo, Steps
  <2>2. /\ job' = [job EXCEPT ![c] = job[c]] /\ held' = [held EXCEPT ![c] = held[c]]
        /\ locked' = [locked EXCEPT ![c] = locked[c]] /\ locked[c] \in Nat
    BY <2>1, SameFunctions
  <2>3. at'[c] = "alias"
    BY <2>1 DEF StateFunctions
  <2>4. job[c].kind = "linked" => job[c].product \in Products
    BY <1>3, <1>4, <2>1 DEF RequestShape
  <2>5. (RequestShape(c) /\ ReconcileShape(c) /\ ReportShape(c))'
    BY <1>1, <1>3, <2>1, <2>3, <2>4 DEF RequestShape, ReconcileShape, ReportShape, ItemIds
  <2>6. QED BY <1>1, <2>1, <2>2, <2>5, NothingReported, MoveKeeps
<1>6. ASSUME InsertAlias(c), ~(Answer(c) \/ Refuse(c)) PROVE UnknownItemsInvariant'
  <2>1. /\ at' = [at EXCEPT ![c] = "settle"] /\ held' = [held EXCEPT ![c] = NewAlias(c)]
        /\ UNCHANGED <<job, locked, audits>> /\ "settle" \in Steps /\ at[c] = "alias"
    BY <1>6 DEF InsertAlias, Steps
  <2>2. /\ job' = [job EXCEPT ![c] = job[c]]
        /\ locked' = [locked EXCEPT ![c] = locked[c]] /\ locked[c] \in Nat
    BY <2>1, SameFunctions
  <2>3. at'[c] = "settle" /\ held'[c] = NewAlias(c)
    BY <2>1 DEF StateFunctions
  <2>4. NewAlias(c)' = NewAlias(c)
    BY <1>1, <2>1 DEF NewAlias
  <2>5. (RequestShape(c) /\ ReconcileShape(c) /\ ReportShape(c))'
    BY <1>1, <1>3, <2>1, <2>3, <2>4 DEF RequestShape, ReconcileShape, ReportShape, ItemIds
  <2>6. QED BY <1>1, <2>1, <2>2, <2>5, NothingReported, MoveKeeps
<1>7. QED BY <1>2, <1>5, <1>6

\* The audit records of an accepted request, a reopening's lookup of a
\* sibling, and a request that dies.
LEMMA AuditKeeps ==
    ASSUME UnknownItemsInvariant, NEW c \in Clients,
           AcceptedAudit(c) \/ ReopenSibling(c) \/ ReopenAudit(c) \/ Crash(c)
    PROVE  UnknownItemsInvariant'
<1> USE DEF UnknownItemsInvariant
<1>1. UNCHANGED <<stored, items, settles, prior, shown>>
  BY DEF AcceptedAudit, ReopenSibling, ReopenAudit, Crash, stored
<1>2. ReportShape(c)
  BY DEF ClientShape
<1>3. CASE AcceptedAudit(c)
  <2>1. Done(c) /\ Enqueue(<<job[c].kind, job[c].item>>) /\ at[c] = "accepted"
    BY <1>3 DEF AcceptedAudit
  <2>2. Reported(<<job[c].kind, job[c].item>>)
    BY <1>2, <2>1 DEF ReportShape, Reported
  <2>3. QED BY <1>1, <2>1, <2>2, EnqueueKeeps, DoneKeeps
<1>4. CASE Crash(c)
  BY <1>1, <1>4, NothingReported, DoneKeeps DEF Crash
<1>5. CASE ReopenSibling(c)
  <2>1. CASE Done(c)
    BY <1>1, <1>5, <2>1, NothingReported, DoneKeeps DEF ReopenSibling
  <2>2. CASE ~Done(c)
    <3>1. /\ at' = [at EXCEPT ![c] = "fresh"] /\ "fresh" \in Steps /\ at[c] = "sibling"
          /\ UNCHANGED <<job, locked, held, audits>>
      BY <1>5, <2>2 DEF ReopenSibling, GoTo, Steps
    <3>2. /\ job' = [job EXCEPT ![c] = job[c]] /\ held' = [held EXCEPT ![c] = held[c]]
          /\ locked' = [locked EXCEPT ![c] = locked[c]] /\ locked[c] \in Nat
      BY <3>1, SameFunctions
    <3>3. at'[c] = "fresh"
      BY <3>1 DEF StateFunctions
    <3>4. (RequestShape(c) /\ ReconcileShape(c) /\ ReportShape(c))'
      BY <1>1, <1>2, <3>1, <3>3 DEF RequestShape, ReconcileShape, ReportShape, ItemIds
    <3>5. QED BY <1>1, <3>1, <3>2, <3>4, NothingReported, MoveKeeps
  <2>3. QED BY <2>1, <2>2
<1>6. CASE ReopenAudit(c)
  <2> DEFINE j == [kind |-> "captured", item |-> Len(items)]
  <2>1. /\ at' = [at EXCEPT ![c] = "accepted"] /\ "accepted" \in Steps
        /\ at[c] = "reopened" /\ job' = [job EXCEPT ![c] = j]
        /\ UNCHANGED <<locked, held>> /\ Enqueue(<<"reopened", job[c].item>>)
    BY <1>6 DEF ReopenAudit, Steps
  <2>2. /\ held' = [held EXCEPT ![c] = held[c]]
        /\ locked' = [locked EXCEPT ![c] = locked[c]] /\ locked[c] \in Nat
    BY <2>1, SameFunctions
  <2>3. at'[c] = "accepted" /\ job'[c] = j
    BY <2>1 DEF StateFunctions
  <2>4. job[c].item \in ItemIds /\ items[job[c].item].status = "dismissed"
    BY <1>2, <2>1 DEF ReportShape
  <2>5. Reported(<<"reopened", job[c].item>>)
    BY <2>4 DEF Reported
  <2>6. Len(items) \in ItemIds
    BY <2>4, LenProperties DEF ItemIds, TypeOK
  <2>7. (RequestShape(c) /\ ReconcileShape(c) /\ ReportShape(c))'
    BY <1>1, <2>3, <2>6 DEF RequestShape, ReconcileShape, ReportShape, ItemIds
  <2> HIDE DEF j
  <2>8. ReportedRows'
    BY <1>1, <2>1, <2>5, EnqueueKeeps
  <2>9. QED BY <1>1, <2>1, <2>2, <2>7, <2>8, MoveKeeps
<1>7. QED BY <1>3, <1>4, <1>5, <1>6

-----------------------------------------------------------------------------
(* Steps that write rows.                                                   *)

\* Such a step keeps what the other clients know of their rows, and what was
\* reported before.
LEMMA RowStepKeeps ==
    ASSUME UnknownItemsInvariant, NEW c \in Clients,
           TypeOK', StateFunctions', RowsEvolve(c), ClientShape(c)',
           \A d \in Clients \ {c} :
             /\ at'[d] = at[d] /\ job'[d] = job[d] /\ locked'[d] = locked[d]
             /\ held'[d] = held[d] /\ shown'[d] = shown[d],
           locked'[c] \in {0, locked[c]},
           SettledByOne', Unsettled', Answerable', CreatedRows',
           prior' = prior, \A e \in audits' \ audits : Reported(e)'
    PROVE  UnknownItemsInvariant'
<1> USE DEF UnknownItemsInvariant
<1>1. OneLocker'
  BY DEF OneLocker
<1>2. \A d \in Clients : ClientShape(d)'
  BY OthersKeep DEF TypeOK
<1>3. ReportedRows'
  <2>1. Len(items) \in Nat /\ Len(items') \in Nat
    BY LenProperties DEF TypeOK
  <2>2. ItemIds \subseteq ItemIds'
    BY <2>1 DEF ItemIds, RowsEvolve
  <2>3. \A i \in ItemIds : items[i].status # "pending" => items'[i] = items[i]
    BY DEF RowsEvolve
  <2>4. ASSUME NEW e \in audits PROVE Reported(e)'
    <3>1. Reported(e)
      BY DEF ReportedRows
    <3>2. QED BY <2>2, <2>3, <3>1 DEF Reported
  <2>5. QED BY <2>4 DEF ReportedRows
<1>4. QED BY <1>1, <1>2, <1>3

\* A pending row is appended, by a till or by a reopening.
LEMMA AppendKeeps ==
    ASSUME UnknownItemsInvariant, NEW c \in Clients,
           NEW store \in Stores, NEW ident \in Identifiers,
           items' = Append(items, PendingRow(store, ident)), Len(items) < MaxItems,
           UNCHANGED <<aliases, products, retired, audits, settles, prior, shown>>,
           NEW a \in {"idle", "reopened"}, NEW j, NEW h,
           at' = [at EXCEPT ![c] = a], job' = [job EXCEPT ![c] = j],
           locked' = [locked EXCEPT ![c] = 0], held' = [held EXCEPT ![c] = h],
           a = "reopened" => /\ j.kind = "reopen" /\ j.item \in ItemIds
                             /\ items[j.item].status = "dismissed"
    PROVE  UnknownItemsInvariant'
<1> USE UnknownItemsAssumption DEF UnknownItemsInvariant
<1> DEFINE row == PendingRow(store, ident)
<1>1. row \in UnknownItemRow /\ row.status = "pending" /\ row.action # "created"
  BY DEF PendingRow, UnknownItemRow, Statuses
<1>2. items \in Seq(UnknownItemRow) /\ Len(items) \in Nat
  BY LenProperties DEF TypeOK
<1> HIDE DEF row
<1>3. /\ items' \in Seq(UnknownItemRow) /\ Len(items') = Len(items) + 1
      /\ \A i \in ItemIds : items'[i] = items[i]
      /\ items'[Len(items) + 1] = row
  BY <1>1, <1>2, AppendProperties DEF ItemIds, row
<1>4. ItemIds' = ItemIds \cup {Len(items) + 1}
  BY <1>2, <1>3 DEF ItemIds
<1>5. a \in Steps
  BY DEF Steps
<1>6. /\ at'[c] = a /\ job'[c] = j /\ locked'[c] = 0 /\ held'[c] = h
      /\ \A d \in Clients \ {c} :
           /\ at'[d] = at[d] /\ job'[d] = job[d] /\ locked'[d] = locked[d]
           /\ held'[d] = held[d]
      /\ at' \in [Clients -> Steps] /\ locked' \in [Clients -> Nat]
      /\ job' = [d \in Clients |-> job'[d]] /\ held' = [d \in Clients |-> held'[d]]
  BY <1>5, StepSets
<1>7. TypeOK'
  BY <1>2, <1>3, <1>6 DEF TypeOK
<1>8. StateFunctions'
  BY <1>2, <1>3, <1>6 DEF StateFunctions
<1>9. ClientShape(c)'
  <2>1. shown[c] \subseteq ItemIds
    BY DEF ClientShape, CaptureShape
  <2>2. CaptureShape(c)'
    BY <1>4, <1>6, <2>1 DEF CaptureShape
  <2>3. (RequestShape(c) /\ ReconcileShape(c) /\ ReportShape(c))'
    BY <1>3, <1>4, <1>6 DEF RequestShape, ReconcileShape, ReportShape
  <2>4. QED BY <2>2, <2>3 DEF ClientShape
<1>10. SettledByOne' /\ Unsettled'
  <2>1. settles[Len(items) + 1] = 0
    BY <1>2 DEF Unsettled
  <2>2. SettledByOne'
    BY ZenonT(40), <1>1, <1>3, <1>4, <2>1 DEF SettledByOne
  <2>3. Unsettled'
    BY <1>2, <1>3 DEF Unsettled
  <2>4. QED BY <2>2, <2>3
<1>11. ASSUME NEW i \in ItemIds', items'[i].status = "resolved" \/ items'[i].action = "created"
       PROVE  i \in ItemIds /\ items'[i] = items[i]
  <2>1. i # Len(items) + 1
    BY <1>1, <1>3, <1>11
  <2>2. QED BY <1>3, <1>4, <2>1
<1>12. Answerable'
  <2> SUFFICES ASSUME NEW i \in ItemIds', items'[i].status = "resolved"
               PROVE  /\ items'[i].product \in products
                      /\ \E n \in 1..Len(aliases) :
                           /\ aliases[n].ident = items'[i].ident
                           /\ aliases[n].store = items'[i].store
                           /\ aliases[n].product = items'[i].product
    BY DEF Answerable
  <2>1. i \in ItemIds /\ items'[i] = items[i]
    BY <1>11
  <2>2. QED BY <2>1 DEF Answerable
<1>13. CreatedRows'
  <2>1. ASSUME NEW i \in ItemIds', items'[i].action = "created"
        PROVE  items'[i].status = "resolved" /\ items'[i].product = Cardinality(Products) + i
    <3>1. i \in ItemIds /\ items'[i] = items[i]
      BY <1>11, <2>1
    <3>2. QED BY <2>1, <3>1 DEF CreatedRows
  <2>2. ASSUME NEW p \in products \ Products
        PROVE  \E i \in ItemIds' : items'[i].action = "created" /\ items'[i].product = p
    <3>1. PICK i \in ItemIds : items[i].action = "created" /\ items[i].product = p
      BY <2>2 DEF CreatedRows
    <3>2. i \in ItemIds' /\ items'[i] = items[i]
      BY <1>3, <1>4
    <3>3. QED BY <3>1, <3>2
  <2>3. QED BY <2>1, <2>2 DEF CreatedRows
<1>14. RowsEvolve(c)
  <2>1. Len(items') >= Len(items)
    BY <1>2, <1>3
  <2>2. QED BY <1>3, <2>1 DEF RowsEvolve
<1>15. QED
  BY <1>6, <1>7, <1>8, <1>9, <1>10, <1>12, <1>13, <1>14, RowStepKeeps

\* The two INSERTs of a pending row.
LEMMA InsertKeeps ==
    ASSUME UnknownItemsInvariant, NEW c \in Clients, CaptureInsert(c) \/ ReopenInsert(c)
    PROVE  UnknownItemsInvariant'
<1> USE DEF UnknownItemsInvariant
<1>1. CASE CaptureInsert(c)
  <2>1. job[c].store \in Stores /\ job[c].ident \in Identifiers
    BY <1>1 DEF CaptureInsert, ClientShape, CaptureShape
  <2>2. QED BY <1>1, <2>1, AppendKeeps DEF CaptureInsert, Done
<1>2. CASE ReopenInsert(c)
  <2>1. /\ job[c].kind = "reopen" /\ job[c].item \in ItemIds
        /\ items[job[c].item].status = "dismissed"
    BY <1>2 DEF ReopenInsert, ClientShape, ReportShape
  <2>2. items[job[c].item] \in UnknownItemRow
    BY <2>1, ElementOfSeq DEF TypeOK, ItemIds
  <2>3. items[job[c].item].store \in Stores /\ items[job[c].item].ident \in Identifiers
    BY <2>2 DEF UnknownItemRow
  <2>4. job' = [job EXCEPT ![c] = job[c]] /\ held' = [held EXCEPT ![c] = held[c]]
    BY <1>2, SameFunctions DEF ReopenInsert
  <2>5. QED BY <1>2, <2>1, <2>3, <2>4, AppendKeeps DEF ReopenInsert
<1>3. QED BY <1>1, <1>2

\* One row becomes settled.
LEMMA SettledRow ==
    ASSUME UnknownItemsInvariant, NEW i \in ItemIds, NEW row \in UnknownItemRow,
           items[i].status = "pending", row.status # "pending",
           items' = [items EXCEPT ![i] = row], settles' = [settles EXCEPT ![i] = @ + 1]
    PROVE  /\ items' \in Seq(UnknownItemRow) /\ Len(items') = Len(items)
           /\ Len(items) \in Nat /\ ItemIds' = ItemIds
           /\ items'[i] = row /\ \A n \in ItemIds \ {i} : items'[n] = items[n]
           /\ settles' \in [1..MaxItems -> Nat]
           /\ SettledByOne' /\ Unsettled'
<1> USE DEF UnknownItemsInvariant
<1>1. items \in Seq(UnknownItemRow) /\ Len(items) \in Nat /\ i \in 1..Len(items)
  BY LenProperties DEF TypeOK, ItemIds
<1>2. /\ items' \in Seq(UnknownItemRow) /\ Len(items') = Len(items)
      /\ items'[i] = row /\ \A n \in ItemIds \ {i} : items'[n] = items[n]
  BY <1>1, ExceptSeq DEF ItemIds
<1>3. i \in 1..MaxItems /\ settles[i] = 0
  BY <1>1, UnknownItemsAssumption DEF SettledByOne, StateFunctions
<1>4. /\ settles' \in [1..MaxItems -> Nat] /\ settles'[i] = 1
      /\ \A n \in 1..MaxItems : n # i => settles'[n] = settles[n]
  BY <1>3 DEF StateFunctions
<1>5. ItemIds' = ItemIds /\ ItemIds \subseteq 1..MaxItems
  BY <1>1, <1>2, UnknownItemsAssumption DEF ItemIds, StateFunctions
<1>6. SettledByOne'
  BY <1>2, <1>4, <1>5 DEF SettledByOne
<1>7. Unsettled'
  BY <1>1, <1>2, <1>4 DEF Unsettled
<1>8. QED BY <1>1, <1>2, <1>4, <1>5, <1>6, <1>7

\* A pending row that nobody holds is dismissed.
LEMMA DismissRowKeeps ==
    ASSUME UnknownItemsInvariant, NEW c \in Clients, NEW i \in ItemIds,
           Unlocked(c, i), Dismissable(i), DismissRow(i), Enqueue(<<"dismissed", i>>),
           UNCHANGED <<aliases, products, retired, prior, shown, at, locked, held>>,
           at[c] \in {"idle", "bulk"}, NEW j, job' = [job EXCEPT ![c] = j],
           at[c] = "bulk" => j.ids \subseteq ItemIds
    PROVE  UnknownItemsInvariant'
<1> USE DEF UnknownItemsInvariant
<1> DEFINE row == [items[i] EXCEPT !.status = "dismissed", !.action = "dismissed"]
<1>1. items[i] \in UnknownItemRow
  BY ElementOfSeq DEF TypeOK, ItemIds
<1>2. /\ row \in UnknownItemRow /\ row.status = "dismissed" /\ row.action = "dismissed"
      /\ row.ident = items[i].ident /\ row.store = items[i].store
  BY <1>1 DEF UnknownItemRow, Statuses
<1>3. items' = [items EXCEPT ![i] = row] /\ settles' = [settles EXCEPT ![i] = @ + 1]
  BY <1>1 DEF DismissRow, TypeOK
<1> HIDE DEF row
<1>4. /\ items' \in Seq(UnknownItemRow) /\ Len(items') = Len(items)
      /\ Len(items) \in Nat /\ ItemIds' = ItemIds
      /\ items'[i] = row /\ \A n \in ItemIds \ {i} : items'[n] = items[n]
      /\ settles' \in [1..MaxItems -> Nat]
      /\ SettledByOne' /\ Unsettled'
  BY <1>2, <1>3, SettledRow DEF Dismissable
<1>5. /\ at' = [at EXCEPT ![c] = at[c]] /\ at[c] \in Steps /\ locked[c] \in Nat
      /\ locked' = [locked EXCEPT ![c] = locked[c]] /\ held' = [held EXCEPT ![c] = held[c]]
  BY SameFunctions
<1>6. /\ job'[c] = j /\ \A d \in Clients \ {c} : job'[d] = job[d]
      /\ job' = [d \in Clients |-> job'[d]]
  <2>1. job = [d \in Clients |-> job[d]]
    BY DEF StateFunctions
  <2>2. QED BY <2>1
<1>7. TypeOK' /\ StateFunctions'
  BY <1>4, <1>6 DEF TypeOK, StateFunctions
<1>8. RowsEvolve(c)
  BY <1>2, <1>4 DEF RowsEvolve, Dismissable
<1>9. ClientShape(c)'
  <2>1. shown[c] \subseteq ItemIds
    BY DEF ClientShape, CaptureShape
  <2>2. QED BY <1>4, <1>6, <2>1 DEF ClientShape, CaptureShape, RequestShape,
            ReconcileShape, ReportShape
<1>10. Answerable'
  BY SMTT(30), <1>2, <1>4 DEF Answerable
<1>11. CreatedRows'
  <2>1. items[i].action # "created"
    BY DEF CreatedRows, Dismissable
  <2>2. QED BY <1>2, <1>4, <2>1 DEF CreatedRows
<1>12. \A e \in audits' \ audits : Reported(e)'
  <2>1. audits' \ audits \subseteq {<<"dismissed", i>>}
    BY DEF Enqueue
  <2>2. Reported(<<"dismissed", i>>)'
    BY <1>2, <1>4 DEF Reported
  <2>3. QED BY <2>1, <2>2
<1>13. QED
  BY <1>4, <1>6, <1>7, <1>8, <1>9, <1>10, <1>11, <1>12, RowStepKeeps

\* Dismissals, one by one and in bulk.
LEMMA DismissKeeps ==
    ASSUME UnknownItemsInvariant, NEW c \in Clients, Dismiss(c) \/ BulkNext(c)
    PROVE  UnknownItemsInvariant'
<1> USE DEF UnknownItemsInvariant
<1>1. CASE Dismiss(c)
  <2>1. PICK i \in shown[c] :
          /\ Unlocked(c, i)
          /\ IF Dismissable(i)
             THEN DismissRow(i) /\ Enqueue(<<"dismissed", i>>)
             ELSE UNCHANGED <<items, settles, audits, faults>>
    BY <1>1 DEF Dismiss
  <2>2. /\ i \in ItemIds /\ at[c] = "idle" /\ job' = [job EXCEPT ![c] = job[c]]
        /\ UNCHANGED <<aliases, products, retired, prior, shown, at, job, locked, held>>
    BY <1>1, SameFunctions DEF Dismiss, ClientShape, CaptureShape
  <2>3. CASE Dismissable(i)
    BY <2>1, <2>2, <2>3, DismissRowKeeps
  <2>4. CASE ~Dismissable(i)
    <3>1. UNCHANGED <<stored, settles>> /\ UNCHANGED <<items, prior, audits>>
      BY <2>1, <2>2, <2>4 DEF stored
    <3>2. StateFunctions'
      BY <2>2, <3>1 DEF StateFunctions, stored
    <3>3. ClientShape(c)'
      BY <2>2, <3>1 DEF ClientShape, CaptureShape, RequestShape, ReconcileShape,
         ReportShape, ItemIds
    <3>4. QED BY <2>2, <3>1, <3>2, <3>3, NothingReported, QuietKeeps
  <2>5. QED BY <2>3, <2>4
<1>2. CASE BulkNext(c)
  <2>1. job[c].ids \subseteq ItemIds /\ at[c] = "bulk"
    BY <1>2 DEF BulkNext, ClientShape, CaptureShape
  <2>2. PICK i \in job[c].ids :
          /\ Unlocked(c, i)
          /\ IF Dismissable(i)
             THEN /\ DismissRow(i)
                  /\ Enqueue(<<"dismissed", i>>)
                  /\ job' = [job EXCEPT ![c] = [kind |-> "bulk", ids |-> job[c].ids \ {i}]]
                  /\ UNCHANGED at
             ELSE /\ at' = [at EXCEPT ![c] = "prior"]
                  /\ job' = [job EXCEPT ![c] = [kind |-> "bulk", ids |-> job[c].ids \ {i},
                                                last |-> i]]
                  /\ UNCHANGED <<items, settles, audits, faults>>
    BY <1>2 DEF BulkNext
  <2>3. UNCHANGED <<aliases, products, retired, prior, shown, locked, held>>
    BY <1>2 DEF BulkNext
  <2>4. CASE Dismissable(i)
    <3> DEFINE j == [kind |-> "bulk", ids |-> job[c].ids \ {i}]
    <3>1. j.ids \subseteq ItemIds /\ job' = [job EXCEPT ![c] = j] /\ i \in ItemIds
      BY <2>1, <2>2, <2>4
    <3> HIDE DEF j
    <3>2. QED BY <2>1, <2>2, <2>3, <2>4, <3>1, DismissRowKeeps
  <2>5. CASE ~Dismissable(i)
    <3> DEFINE j == [kind |-> "bulk", ids |-> job[c].ids \ {i}, last |-> i]
    <3>1. /\ j.ids \subseteq ItemIds /\ j.last \in ItemIds /\ job' = [job EXCEPT ![c] = j]
          /\ items[j.last].status # "pending" /\ at' = [at EXCEPT ![c] = "prior"]
          /\ UNCHANGED <<stored, settles, items, audits>>
      BY <2>1, <2>2, <2>3, <2>5 DEF Dismissable, stored
    <3> HIDE DEF j
    <3>2. /\ locked' = [locked EXCEPT ![c] = locked[c]] /\ locked[c] \in Nat
          /\ held' = [held EXCEPT ![c] = held[c]] /\ "prior" \in Steps
      BY <2>3, SameFunctions DEF Steps
    <3>3. at'[c] = "prior"
      BY <3>1 DEF StateFunctions
    <3>4. (RequestShape(c) /\ ReconcileShape(c) /\ ReportShape(c))'
      BY <3>3 DEF RequestShape, ReconcileShape, ReportShape
    <3>5. QED BY <2>3, <3>1, <3>2, <3>4, NothingReported, MoveKeeps
  <2>6. QED BY <2>4, <2>5
<1>3. QED BY <1>1, <1>2

\* The commit of a link or a creation: row, alias and product together.
LEMMA SettleKeeps ==
    ASSUME UnknownItemsInvariant, NEW c \in Clients, Settle(c)
    PROVE  UnknownItemsInvariant'
<1> USE UnknownItemsAssumption DEF UnknownItemsInvariant
<1> DEFINE i == job[c].item
           p == job[c].product
           kind == job[c].kind
           row == [items[i] EXCEPT !.status = "resolved", !.action = kind, !.product = p]
           new == held[c]
<1>1. RequestShape(c) /\ ReconcileShape(c) /\ at[c] = "settle"
  BY DEF ClientShape, Settle
<1>2. /\ i \in ItemIds /\ kind \in {"linked", "created"} /\ locked[c] = i
      /\ items[i].status = "pending" /\ new = NewAlias(c)
      /\ kind = "linked" => p \in Products
      /\ kind = "created" => p = Cardinality(Products) + i
  BY <1>1 DEF RequestShape, ReconcileShape
<1>3. i \in Nat /\ p \in Nat /\ items[i] \in UnknownItemRow
  <2>1. i \in Nat /\ items[i] \in UnknownItemRow
    BY <1>2, ElementOfSeq DEF TypeOK, ItemIds
  <2>2. \A x \in Products : x \in Nat
    OBVIOUS
  <2>3. p \in Nat
    BY <1>2, <2>1, <2>2
  <2>4. QED BY <2>1, <2>3
<1>4. /\ row \in UnknownItemRow /\ row.status = "resolved" /\ row.action = kind
      /\ row.product = p /\ row.ident = items[i].ident /\ row.store = items[i].store
  BY <1>2, <1>3 DEF UnknownItemRow, Statuses
<1>5. /\ new \in ProductAliasRow /\ new.ident = row.ident /\ new.store = row.store
      /\ new.product = p
  BY <1>2, <1>3, <1>4 DEF NewAlias, ProductAliasRow, UnknownItemRow
<1>6. /\ items' = [items EXCEPT ![i] = row] /\ settles' = [settles EXCEPT ![i] = @ + 1]
      /\ aliases' = Append(aliases, new) /\ products' = products \cup {p}
      /\ at' = [at EXCEPT ![c] = "accepted"] /\ locked' = [locked EXCEPT ![c] = 0]
      /\ held' = [held EXCEPT ![c] = None] /\ UNCHANGED job
      /\ UNCHANGED <<retired, audits, prior, faults, shown>>
  BY <1>2 DEF Settle, TypeOK
<1>7. job' = [job EXCEPT ![c] = job[c]] /\ "accepted" \in Steps
  BY <1>6, SameFunctions DEF Steps
<1>8. /\ at'[c] = "accepted" /\ job'[c] = job[c] /\ locked'[c] = 0
      /\ \A d \in Clients \ {c} :
           /\ at'[d] = at[d] /\ job'[d] = job[d] /\ locked'[d] = locked[d]
           /\ held'[d] = held[d]
      /\ at' \in [Clients -> Steps] /\ locked' \in [Clients -> Nat]
      /\ job' = [d \in Clients |-> job'[d]] /\ held' = [d \in Clients |-> held'[d]]
  BY <1>6, <1>7, StepSets
<1> HIDE DEF row, new
<1>9. /\ items' \in Seq(UnknownItemRow) /\ Len(items') = Len(items)
      /\ Len(items) \in Nat /\ ItemIds' = ItemIds
      /\ items'[i] = row /\ \A n \in ItemIds \ {i} : items'[n] = items[n]
      /\ settles' \in [1..MaxItems -> Nat]
      /\ SettledByOne' /\ Unsettled'
  BY <1>2, <1>4, <1>6, SettledRow
<1>10. /\ aliases' \in Seq(ProductAliasRow) /\ Len(aliases') = Len(aliases) + 1
       /\ Len(aliases) \in Nat
       /\ \A n \in 1..Len(aliases) : aliases'[n] = aliases[n]
       /\ aliases'[Len(aliases) + 1] = new
  BY <1>5, <1>6, AppendProperties, LenProperties DEF TypeOK
<1> HIDE DEF i, p, kind
<1>11. TypeOK'
  BY <1>6, <1>8, <1>9, <1>10 DEF TypeOK
<1>12. StateFunctions'
  BY <1>6, <1>8, <1>9 DEF StateFunctions
<1>13. RowsEvolve(c)
  <2>1. Unlocked(c, i)
    BY <1>2, <1>3 DEF Unlocked, OneLocker, ItemIds
  <2>2. QED BY <1>2, <1>4, <1>9, <2>1 DEF RowsEvolve
<1>14. ClientShape(c)'
  <2>1. shown[c] \subseteq ItemIds
    BY DEF ClientShape, CaptureShape
  <2>2. CaptureShape(c)' /\ RequestShape(c)' /\ ReconcileShape(c)'
    BY <1>6, <1>8, <1>9, <2>1 DEF CaptureShape, RequestShape, ReconcileShape
  <2>3. ReportShape(c)'
    BY <1>2, <1>4, <1>8, <1>9 DEF ReportShape, i, kind
  <2>4. QED BY <2>2, <2>3 DEF ClientShape
<1>15. Answerable'
  <2> SUFFICES ASSUME NEW n \in ItemIds, items'[n].status = "resolved"
               PROVE  /\ items'[n].product \in products'
                      /\ \E m \in 1..Len(aliases') :
                           /\ aliases'[m].ident = items'[n].ident
                           /\ aliases'[m].store = items'[n].store
                           /\ aliases'[m].product = items'[n].product
    BY <1>9 DEF Answerable
  <2>1. CASE n = i
    <3>1. Len(aliases) + 1 \in 1..Len(aliases')
      BY <1>10
    <3>2. /\ aliases'[Len(aliases) + 1].ident = items'[n].ident
          /\ aliases'[Len(aliases) + 1].store = items'[n].store
          /\ aliases'[Len(aliases) + 1].product = items'[n].product
      BY <1>4, <1>5, <1>9, <1>10, <2>1
    <3>3. items'[n].product \in products'
      BY <1>4, <1>6, <1>9, <2>1
    <3>4. QED BY <3>1, <3>2, <3>3
  <2>2. CASE n # i
    <3>1. items'[n] = items[n]
      BY <1>9, <2>2
    <3>2. PICK m \in 1..Len(aliases) : /\ aliases[m].ident = items[n].ident
                                       /\ aliases[m].store = items[n].store
                                       /\ aliases[m].product = items[n].product
      BY <3>1 DEF Answerable
    <3>3. m \in 1..Len(aliases') /\ aliases'[m] = aliases[m]
      BY <1>10
    <3>4. items[n].product \in products
      BY <3>1 DEF Answerable
    <3>5. items'[n].product \in products'
      BY <1>6, <3>1, <3>4
    <3>6. /\ aliases'[m].ident = items'[n].ident
          /\ aliases'[m].store = items'[n].store
          /\ aliases'[m].product = items'[n].product
      BY <3>1, <3>2, <3>3
    <3>7. QED BY <3>3, <3>5, <3>6
  <2>3. QED BY <2>1, <2>2
<1>16. CreatedRows'
  <2>1. items[i].action # "created"
    BY <1>2 DEF CreatedRows
  <2>2. \A n \in ItemIds : items'[n].action = "created" =>
          items'[n].status = "resolved" /\ items'[n].product = Cardinality(Products) + n
    BY SMTT(30), <1>2, <1>4, <1>9 DEF CreatedRows
  <2>3. \A q \in products' \ Products :
          \E n \in ItemIds : items'[n].action = "created" /\ items'[n].product = q
    <3> SUFFICES ASSUME NEW q \in products' \ Products
                 PROVE  \E n \in ItemIds : items'[n].action = "created" /\ items'[n].product = q
      OBVIOUS
    <3>1. CASE q = p
      <4>1. kind = "created"
        BY <1>2, <3>1
      <4>2. QED BY <1>2, <1>4, <1>9, <3>1, <4>1
    <3>2. CASE q # p
      <4>1. PICK n \in ItemIds : items[n].action = "created" /\ items[n].product = q
        BY <1>6, <3>2 DEF CreatedRows
      <4>2. QED BY <1>9, <2>1, <4>1
    <3>3. QED BY <3>1, <3>2
  <2>4. QED BY <1>9, <2>2, <2>3 DEF CreatedRows
<1>17. QED
  BY <1>6, <1>8, <1>9, <1>11, <1>12, <1>13, <1>14, <1>15, <1>16, RowStepKeeps

\* The rest of the catalogue: an alias by hand, a product retired.
LEMMA CatalogueKeeps ==
    ASSUME UnknownItemsInvariant, CreateAlias \/ RetireProduct
    PROVE  UnknownItemsInvariant'
<1> USE UnknownItemsAssumption DEF UnknownItemsInvariant
<1>1. UNCHANGED <<items, products, audits, settles, prior, faults, shown, at, job,
                  locked, held>>
  BY DEF CreateAlias, RetireProduct
<1>2. retired' \subseteq products
  BY DEF CreateAlias, RetireProduct, TypeOK, StateFunctions
<1>3. /\ aliases' \in Seq(ProductAliasRow) /\ Len(aliases') >= Len(aliases)
      /\ Len(aliases) \in Nat /\ Len(aliases') \in Nat
      /\ \A n \in 1..Len(aliases) : aliases'[n] = aliases[n]
  <2>1. aliases \in Seq(ProductAliasRow) /\ Len(aliases) \in Nat
    BY LenProperties DEF TypeOK
  <2>2. CASE RetireProduct
    BY <2>1, <2>2 DEF RetireProduct
  <2>3. CASE CreateAlias
    <3>1. PICK ident \in Identifiers, store \in Stores \cup {None}, p \in products :
            aliases' = Append(aliases, [ident |-> ident, store |-> store, product |-> p])
      BY <2>3 DEF CreateAlias
    <3>2. p \in Nat
      <4>1. CASE p \in Products
        BY <4>1
      <4>2. CASE p \notin Products
        <5>1. PICK n \in ItemIds : items[n].action = "created" /\ items[n].product = p
          BY <4>2 DEF CreatedRows
        <5>2. p = Cardinality(Products) + n /\ n \in Nat
          BY <5>1 DEF CreatedRows, ItemIds
        <5>3. QED BY <5>2
      <4>3. QED BY <4>1, <4>2
    <3> DEFINE new == [ident |-> ident, store |-> store, product |-> p]
    <3>3. new \in ProductAliasRow
      BY <3>2 DEF ProductAliasRow
    <3> HIDE DEF new
    <3>4. QED BY <2>1, <3>1, <3>3, AppendProperties DEF new
  <2>4. QED BY <2>2, <2>3
<1>4. TypeOK' /\ StateFunctions'
  BY <1>1, <1>2, <1>3 DEF TypeOK, StateFunctions
<1>5. \A c \in Clients : ClientShape(c)'
  BY <1>1 DEF ClientShape, CaptureShape, RequestShape, ReconcileShape, ReportShape,
     ItemIds, NewAlias
<1>6. OneLocker' /\ SettledByOne' /\ Unsettled' /\ CreatedRows'
  BY <1>1 DEF OneLocker, SettledByOne, Unsettled, CreatedRows, ItemIds
<1>7. Answerable'
  <2> SUFFICES ASSUME NEW n \in ItemIds, items[n].status = "resolved"
               PROVE  /\ items[n].product \in products
                      /\ \E m \in 1..Len(aliases') :
                           /\ aliases'[m].ident = items[n].ident
                           /\ aliases'[m].store = items[n].store
                           /\ aliases'[m].product = items[n].product
    BY <1>1 DEF Answerable, ItemIds
  <2>1. PICK m \in 1..Len(aliases) : /\ aliases[m].ident = items[n].ident
                                     /\ aliases[m].store = items[n].store
                                     /\ aliases[m].product = items[n].product
    BY DEF Answerable
  <2>2. m \in 1..Len(aliases') /\ aliases'[m] = aliases[m]
    BY <1>3
  <2>3. QED BY <2>1, <2>2 DEF Answerable
<1>8. ReportedRows'
  BY <1>1, NothingReported
<1>9. QED BY <1>4, <1>5, <1>6, <1>7, <1>8

-----------------------------------------------------------------------------
(* The invariant and the properties.                                        *)

\* The empty tables satisfy the invariant.
LEMMA InitUnknownItems == Init => UnknownItemsInvariant
<1> SUFFICES ASSUME Init PROVE UnknownItemsInvariant
  OBVIOUS
<1> USE UnknownItemsAssumption DEF Init
<1>1. Len(items) = 0 /\ ItemIds = {}
  BY DEF ItemIds
<1>2. TypeOK /\ StateFunctions
  BY <1>1 DEF TypeOK, StateFunctions, Steps
<1>3. \A c \in Clients : ClientShape(c)
  BY DEF ClientShape, CaptureShape, RequestShape, ReconcileShape, ReportShape
<1>4. OneLocker /\ SettledByOne /\ Unsettled /\ Answerable /\ CreatedRows /\ ReportedRows
  BY <1>1 DEF OneLocker, SettledByOne, Unsettled, Answerable, CreatedRows, ReportedRows
<1>5. QED BY <1>2, <1>3, <1>4 DEF UnknownItemsInvariant

\* Every step keeps the invariant.
LEMMA NextUnknownItems == UnknownItemsInvariant /\ [Next]_vars => UnknownItemsInvariant'
<1> SUFFICES ASSUME UnknownItemsInvariant, [Next]_vars PROVE UnknownItemsInvariant'
  OBVIOUS
<1>1. CASE UNCHANGED vars
  <2> USE <1>1 DEF vars, UnknownItemsInvariant
  <2>1. TypeOK' /\ StateFunctions' /\ ReportedRows'
    BY NothingReported DEF TypeOK, StateFunctions
  <2>2. \A c \in Clients : ClientShape(c)'
    BY DEF ClientShape, CaptureShape, RequestShape, ReconcileShape, ReportShape,
       ItemIds, NewAlias
  <2>3. OneLocker' /\ SettledByOne' /\ Unsettled' /\ CreatedRows' /\ Answerable'
    BY DEF OneLocker, SettledByOne, Unsettled, CreatedRows, Answerable, ItemIds
  <2>4. QED BY <2>1, <2>2, <2>3
<1>2. ASSUME NEW c \in Clients, Capture(c) PROVE UnknownItemsInvariant'
  BY <1>2, CaptureKeeps, InsertKeeps DEF Capture
<1>3. ASSUME NEW c \in Clients, Review(c) PROVE UnknownItemsInvariant'
  BY <1>3, ListKeeps, DismissKeeps, BulkKeeps DEF Review
<1>4. ASSUME NEW c \in Clients, Reconcile(c) PROVE UnknownItemsInvariant'
  BY <1>4, BeginKeeps, LockKeeps, AliasKeeps, SettleKeeps, InsertKeeps, AuditKeeps
     DEF Reconcile
<1>5. ASSUME NEW c \in Clients, Crash(c) PROVE UnknownItemsInvariant'
  BY <1>5, AuditKeeps
<1>6. QED BY <1>1, <1>2, <1>3, <1>4, <1>5, CatalogueKeeps DEF Next

\* The inductive invariant holds in every reachable state.
THEOREM UnknownItemsInvariantHolds == Spec => []UnknownItemsInvariant
<1>1. QED BY InitUnknownItems, NextUnknownItems, PTL DEF Spec

\* However dismissals, links, creations and bulk dismissals of one row
\* overlap, exactly one of them is told that it settled the row.
THEOREM SettledByOneHolds == Spec => []SettledByOne
<1>1. UnknownItemsInvariant => SettledByOne
  BY DEF UnknownItemsInvariant
<1>2. QED BY <1>1, UnknownItemsInvariantHolds, PTL

\* The identifier of a resolved row answers at the row's store with the
\* product the row names, and no product exists that no row accounts for.
THEOREM ResolvedIsAnswerableHolds == Spec => []ResolvedIsAnswerable
<1>1. UnknownItemsInvariant => ResolvedIsAnswerable
  <2> SUFFICES ASSUME UnknownItemsInvariant PROVE ResolvedIsAnswerable
    OBVIOUS
  <2> USE UnknownItemsAssumption DEF UnknownItemsInvariant
  <2>1. ASSUME NEW i \in ItemIds, items[i].status = "resolved"
        PROVE  /\ items[i].product \in products
               /\ \E a \in AliasSet : /\ a.ident = items[i].ident
                                      /\ a.store = items[i].store
                                      /\ a.product = items[i].product
    <3>1. PICK n \in 1..Len(aliases) : /\ aliases[n].ident = items[i].ident
                                       /\ aliases[n].store = items[i].store
                                       /\ aliases[n].product = items[i].product
      BY <2>1 DEF Answerable
    <3>2. aliases[n] \in AliasSet
      BY LenProperties DEF AliasSet, ToSet, TypeOK
    <3>3. QED BY <2>1, <3>1, <3>2 DEF Answerable
  <2>2. ASSUME NEW p \in products \ Products
        PROVE  Cardinality({i \in ItemIds : items[i].action = "created"
                                              /\ items[i].product = p}) = 1
    <3> DEFINE of == {i \in ItemIds : items[i].action = "created" /\ items[i].product = p}
    <3>1. PICK n \in ItemIds : items[n].action = "created" /\ items[n].product = p
      BY <2>2 DEF CreatedRows
    <3>2. \A m \in of : m = n
      BY <3>1 DEF CreatedRows, ItemIds
    <3>3. of = {n}
      BY <3>1, <3>2
    <3>4. QED BY <3>3, FS_Singleton
  <2>3. QED BY <2>1, <2>2 DEF ResolvedIsAnswerable
<1>2. QED BY <1>1, UnknownItemsInvariantHolds, PTL

\* An audit record names a row that was settled that way, and a conflict's
\* prior state, read in a second transaction, is a settled one.
THEOREM ReportsAreTrueHolds == Spec => []ReportsAreTrue
<1>1. UnknownItemsInvariant => ReportsAreTrue
  BY DEF UnknownItemsInvariant, ReportedRows, Reported, ReportsAreTrue
<1>2. QED BY <1>1, UnknownItemsInvariantHolds, PTL

-----------------------------------------------------------------------------
(* The catalogue a till reads down.                                          *)

\* The least number of a set is Min's.
LEMMA MinProperties ==
    ASSUME NEW S \in SUBSET Nat, S # {}
    PROVE  Min(S) \in S /\ \A x \in S : Min(S) <= x
<1>1. \E x \in S : \A y \in S : x <= y
  BY LeastNatural
<1> QED  BY <1>1 DEF Min

\* The greatest number of a set that has a bound is Max's.
LEMMA MaxProperties ==
    ASSUME NEW n \in Nat, NEW S \in SUBSET Nat, S # {}, \A x \in S : x <= n
    PROVE  Max(S) \in S /\ \A x \in S : x <= Max(S)
<1> DEFINE T == {n - x : x \in S}
<1>0. \A x \in S : x \in Nat /\ n - x \in Nat
  OBVIOUS
<1>1. T \subseteq Nat /\ T # {}
  BY <1>0
<1>2. PICK t \in T : \A y \in T : t <= y
  <2> HIDE DEF T
  <2> QED  BY <1>1, LeastNatural
<1>3. PICK m \in S : t = n - m
  BY <1>2
<1>4. \A x \in S : n - m <= n - x
  BY <1>2, <1>3
<1>5. \A x \in S : x \in Nat
  OBVIOUS
<1>6. \A x \in S : m >= x
  BY <1>3, <1>4, <1>5
<1>7. \E y \in S : \A x \in S : y >= x
  BY <1>6
<1>8. Max(S) \in S /\ \A x \in S : Max(S) >= x
  BY <1>7 DEF Max
<1> QED  BY <1>5, <1>8

\* Of numbers with at most k smaller ones among them, a smaller one has no more.
Rank(S, p) == Cardinality({q \in S : q < p})

LEMMA RankIsMonotone ==
    ASSUME NEW S \in SUBSET Nat, IsFiniteSet(S), NEW p \in S, NEW q \in S, p <= q
    PROVE  Rank(S, p) \in Nat /\ Rank(S, q) \in Nat /\ Rank(S, p) <= Rank(S, q)
<1> DEFINE A == {x \in S : x < p}
           B == {x \in S : x < q}
<1>1. A \subseteq B /\ B \subseteq S
  <2>1. \A x \in S : x \in Nat
    OBVIOUS
  <2>2. \A x \in S : x < p => x < q
    BY <2>1
  <2> QED  BY <2>2
<1>2. IsFiniteSet(B)
  BY <1>1, FS_Subset
<1>3. IsFiniteSet(A) /\ Cardinality(A) <= Cardinality(B)
  BY <1>1, <1>2, FS_Subset
<1>4. Cardinality(A) \in Nat /\ Cardinality(B) \in Nat
  BY <1>2, <1>3, FS_CardinalityType
<1> QED  BY <1>3, <1>4 DEF Rank

\* The first of them has none.
LEMMA FirstRank ==
    ASSUME NEW S \in SUBSET Nat, S # {}
    PROVE  \E p \in S : Rank(S, p) = 0
<1>1. PICK p \in S : \A y \in S : p <= y
  BY LeastNatural
<1>2. {q \in S : q < p} = {}
  <2>1. \A x \in S : x \in Nat
    OBVIOUS
  <2>2. \A x \in S : ~(x < p)
    BY <1>1, <2>1
  <2> QED  BY <2>2
<1>3. Cardinality({}) = 0
  BY FS_EmptySet
<1> QED  BY <1>2, <1>3 DEF Rank

\* The products are numbers, and finitely many.
LEMMA ShelfNumbers ==
    IsFiniteSet(Shelf) /\ 1 \in Shelf /\ \A p \in Shelf : p \in Nat /\ p > 0
<1> DEFINE n == Cardinality(Shelf)
<1>1. IsFiniteSet(Shelf) /\ Shelf # {} /\ Shelf = 1 .. n
  BY ReadDownAssumption
<1>2. n \in Nat
  BY <1>1, FS_CardinalityType
<1> HIDE DEF n
<1>3. 1 \in 1 .. n
  BY <1>1, <1>2
<1>4. \A p \in 1 .. n : p \in Nat /\ p > 0
  BY <1>2
<1> QED  BY <1>1, <1>3, <1>4

\* A cursor before what has been removed of the log is beyond its horizon.
LEMMA HorizonMeans ==
    ASSUME LogHolds, NEW since \in Nat, since < pruned
    PROVE  BeyondHorizon(since)
<1>1. \A r \in log : r.seq \in Nat /\ pruned < r.seq
  BY DEF LogHolds, ChangeLogRow
<1>2. log # {} /\ pruned \in Nat
  BY DEF LogHolds
<1>3. Seqs(log) \in SUBSET Nat /\ Seqs(log) # {}
  BY <1>1, <1>2 DEF Seqs
<1>4. Min(Seqs(log)) \in Seqs(log)
  BY <1>3, MinProperties
<1>5. PICK m \in log : Min(Seqs(log)) = m.seq
  BY <1>4 DEF Seqs
<1> QED  BY <1>1, <1>2, <1>5 DEF BeyondHorizon

\* The log's head is a sequence.
LEMMA HeadIsSequence == LogHolds => LogHead \in Nat
<1> SUFFICES ASSUME LogHolds PROVE LogHead \in Nat
  OBVIOUS
<1>1. \A r \in log : r.seq \in Nat /\ r.seq <= drawn
  BY DEF LogHolds, ChangeLogRow
<1>2. CASE log = {}
  BY <1>2 DEF LogHead
<1>3. CASE log # {}
  <2>1. Seqs(log) \in SUBSET Nat /\ Seqs(log) # {} /\ \A x \in Seqs(log) : x <= drawn
    BY <1>1, <1>3 DEF Seqs
  <2>2. drawn \in Nat
    BY DEF LogHolds
  <2>3. Max(Seqs(log)) \in Nat
    BY <2>1, <2>2, MaxProperties
  <2> QED  BY <1>3, <2>3 DEF LogHead
<1> QED  BY <1>2, <1>3

\* Nothing is sold or staged, announced or logged at the start.
LEMMA ReadDownStarts == ReadDownInit => ReadDownInvariant
<1> SUFFICES ASSUME ReadDownInit PROVE ReadDownInvariant
  OBVIOUS
<1>1. CatalogueHolds
  BY DEF ReadDownInit, CatalogueHolds
<1>2. LogHolds
  BY FS_EmptySet DEF ReadDownInit, LogHolds
<1>3. PendHolds
  BY DEF ReadDownInit, PendHolds
<1>4. CursorsHold
  BY DEF ReadDownInit, CursorsHold
<1>5. SnapshotHolds /\ DeltaHolds /\ TillHolds
  BY DEF ReadDownInit, SnapshotHolds, DeltaHolds, TillHolds
<1> QED  BY <1>1, <1>2, <1>3, <1>4, <1>5 DEF ReadDownInvariant


-----------------------------------------------------------------------------
(* The writers.                                                              *)

\* A product whose rows stay is sold as before.
LEMMA RowsDecide ==
    ASSUME NEW p, base'[p] = base[p], over'[p] = over[p]
    PROVE  (Sellable(p)' <=> Sellable(p)) /\ Row(p)' = Row(p)
BY DEF Sellable, Row, Resolved

\* What a till holds of a product stays right while it is sold as before.
SoldAsBefore(p) == (Sellable(p)' <=> Sellable(p)) /\ (Sellable(p) => Row(p)' = Row(p))

\* A writer's step: the log may grow, and a product that is sold differently is
\* announced by a new row of it, at a sequence that the till has not passed
\* unless the product is noted as missed.
WriterStep ==
    /\ UNCHANGED till
    /\ log \subseteq log' /\ pruned' = pruned
    /\ missed \subseteq missed'
    /\ \A p \in Shelf : \/ SoldAsBefore(p)
                        \/ p \in missed'
                        \/ \E r \in log' \ log : /\ r.mine /\ r.product = p
                                                 /\ r.seq \in Nat /\ ~Passed(p, r.seq)

\* What was held of a product agrees, is announced after a cursor that a passed
\* sequence is measured by, or the product is missed.
LEMMA WriterKeepsHeld ==
    ASSUME WriterStep, NEW p \in Shelf \ missed', NEW kept, NEW c \in Nat,
           \A n \in Nat : ~Passed(p, n) => c < n,
           Agrees(p, kept)
    PROVE  Agrees(p, kept)' \/ AnnouncedSince(p, c)'
<1>1. CASE SoldAsBefore(p)
  BY <1>1 DEF SoldAsBefore, Agrees
<1>2. CASE \E r \in log' \ log : r.mine /\ r.product = p /\ r.seq \in Nat /\ ~Passed(p, r.seq)
  BY <1>2 DEF AnnouncedSince
<1> QED  BY <1>1, <1>2 DEF WriterStep

\* Such a step does not break what the till has been told.
LEMMA WriterKeepsTill ==
    ASSUME ReadDownInvariant, WriterStep
    PROVE  CursorsHold' /\ SnapshotHolds' /\ DeltaHolds' /\ TillHolds'
<1> USE DEF ReadDownInvariant
<1>1. /\ mirror' = mirror /\ cursor' = cursor /\ unread' = unread
      /\ stmt' = stmt /\ page' = page /\ pruned' = pruned
      /\ \A p : p \notin missed' => p \notin missed
  BY DEF WriterStep, till
<1>2. \A p, c : AnnouncedSince(p, c) => AnnouncedSince(p, c)'
  BY DEF WriterStep, AnnouncedSince
<1>3. CursorsHold'
  BY <1>1 DEF CursorsHold
<1>4. SnapshotHolds'
  <2> SUFFICES ASSUME stmt \in {"snapshotHead", "snapshotRows"}  PROVE SnapshotHolds'
    BY <1>1 DEF SnapshotHolds
  <2>1. /\ page.after \in Nat
        /\ DOMAIN page.staged \subseteq {p \in Shelf : p <= page.after}
        /\ page.first = Null => page.after = 0 /\ stmt = "snapshotHead"
        /\ page.first # Null => page.first \in Nat
        /\ stmt = "snapshotRows" => page.head \in Nat
        /\ \A p \in Shelf \ missed : p <= page.after =>
               Agrees(p, page.staged) \/ AnnouncedSince(p, page.first)
    BY DEF SnapshotHolds
  <2>2. ASSUME NEW p \in Shelf \ missed', p <= page.after
        PROVE  Agrees(p, page.staged)' \/ AnnouncedSince(p, page.first)'
    <3>1. page.first \in Nat
      BY <2>1, <2>2, ShelfNumbers
    <3>2. \A n \in Nat : ~Passed(p, n) => page.first < n
      BY <2>2, <3>1 DEF Passed
    <3>3. CASE AnnouncedSince(p, page.first)
      BY <1>1, <1>2, <3>3
    <3>4. CASE Agrees(p, page.staged)
      BY <1>1, <3>1, <3>2, <3>4, WriterKeepsHeld
    <3> QED  BY <1>1, <2>1, <2>2, <3>3, <3>4
  <2> QED  BY <1>1, <2>1, <2>2 DEF SnapshotHolds
<1>5. DeltaHolds'
  <2>1. stmt \in {"deltaChanges", "deltaRows"} => page.head \in Nat
    BY DEF DeltaHolds
  <2>2. NextCursor' = NextCursor /\ Named' = Named
    BY <1>1 DEF NextCursor, Named
  <2>3. ASSUME stmt = "deltaRows"
        PROVE  page.rows \subseteq ChangeLogRow /\ NextCursor \in Nat
    BY <2>3 DEF DeltaHolds
  <2>4. ASSUME stmt = "deltaRows", NEW p \in Shelf \ (unread \cup missed')
        PROVE  Shown(p)' \/ p \in Named \/ LeftOut(p)'
    <3>1. Shown(p) \/ p \in Named \/ LeftOut(p)
      BY <1>1, <2>4 DEF DeltaHolds
    <3>2. LeftOut(p) => LeftOut(p)'
      BY <1>2, <2>2 DEF LeftOut
    <3>3. ASSUME Shown(p)  PROVE Shown(p)' \/ LeftOut(p)'
      <4>1. \A n \in Nat : ~Passed(p, n) => NextCursor < n
        BY <2>3, <2>4 DEF Passed
      <4>2. Agrees(p, mirror)' \/ AnnouncedSince(p, NextCursor)'
        BY <1>1, <2>2, <2>3, <2>4, <3>3, <4>1, WriterKeepsHeld DEF Shown
      <4> QED  BY <1>1, <2>2, <4>2 DEF Shown, LeftOut
    <3> QED  BY <3>1, <3>2, <3>3
  <2> QED  BY <1>1, <2>1, <2>2, <2>3, <2>4 DEF DeltaHolds
<1>6. TillHolds'
  <2> SUFFICES ASSUME cursor # Null, stmt # "deltaRows", NEW p \in Shelf \ (unread \cup missed')
               PROVE  \/ Shown(p)'
                      \/ Announced(p)'
                      \/ stmt \in {"idle", "deltaHorizon"} /\ cursor < pruned
    BY <1>1 DEF TillHolds
  <2>1. \/ Shown(p)
        \/ Announced(p)
        \/ stmt \in {"idle", "deltaHorizon"} /\ cursor < pruned
    BY <1>1 DEF TillHolds
  <2>2. Announced(p) => Announced(p)'
    BY <1>1, <1>2 DEF Announced
  <2>3. ASSUME Shown(p)  PROVE Shown(p)' \/ Announced(p)'
    <3>1. cursor \in Nat /\ stmt \in {"idle", "deltaHorizon", "deltaHead", "deltaChanges"}
      BY DEF CursorsHold
    <3>2. \A n \in Nat : ~Passed(p, n) => cursor < n
      BY <3>1 DEF Passed
    <3>3. Agrees(p, mirror)' \/ AnnouncedSince(p, cursor)'
      BY <1>1, <2>3, <3>1, <3>2, WriterKeepsHeld DEF Shown
    <3> QED  BY <1>1, <3>3 DEF Shown, Announced
  <2> QED  BY <2>1, <2>2, <2>3
<1> QED  BY <1>3, <1>4, <1>5, <1>6

\* A step that touches no row that is committed is such a step.
LEMMA QuietWriter ==
    ASSUME base' = base, over' = over, log' = log, pruned' = pruned, missed' = missed,
           UNCHANGED till
    PROVE  WriterStep
<1>1. \A p \in Shelf : SoldAsBefore(p)
  BY RowsDecide DEF SoldAsBefore
<1> QED  BY <1>1 DEF WriterStep

\* Drawing a number changes nothing that is committed.
LEMMA DrawKeeps ==
    ASSUME ReadDownInvariant, NEW w \in Writers,
           NEW part \in {"base", "over", "other"}, NEW p \in Shelf, NEW value, NEW logged,
           Draw(w, part, p, value, logged),
           part = "base" => value \in BaseRows,
           part = "over" => value \in OverrideRows \cup {Null} /\ base[p] # Null,
           ~logged => part = "base" /\ base[p] = Null /\ ~BaseSellable(value)
    PROVE  ReadDownInvariant'
<1> USE DEF ReadDownInvariant
<1> DEFINE new == [part |-> part, p |-> p, value |-> value, seq |-> IF logged THEN drawn + 1 ELSE 0]
<1>1. /\ base' = base /\ over' = over /\ log' = log /\ pruned' = pruned /\ missed' = missed
      /\ UNCHANGED till
      /\ drawn' = drawn + 1 /\ drawn \in Nat /\ pruned \in Nat /\ pend[w] = Null /\ Free(part, p)
      /\ pend' = [pend EXCEPT ![w] = new]
  BY DEF Draw, LogHolds
<1>2. CatalogueHolds' /\ LogHolds'
  BY <1>1 DEF CatalogueHolds, LogHolds, ChangeLogRow
<1>3. /\ pend' = [v \in Writers |-> pend'[v]] /\ pend'[w] = new
      /\ \A v \in Writers \ {w} : pend'[v] = pend[v]
  BY <1>1 DEF PendHolds
<1>4. \A r \in log : r.seq \in Nat /\ r.seq <= drawn
  BY DEF LogHolds, ChangeLogRow
<1>5. /\ new.part = part /\ new.p = p /\ new.value = value
      /\ new.seq = IF logged THEN drawn + 1 ELSE 0
  OBVIOUS
<1> HIDE DEF new
<1>6. ASSUME NEW CONSTANT e, e = new  PROVE ChangeHolds(e)'
  <2>1. pruned <= drawn
    BY DEF LogHolds, ChangeLogRow
  <2>2. new.seq # 0 => pruned < new.seq /\ \A r \in log : r.seq # new.seq
    BY <1>1, <1>4, <1>5, <2>1
  <2>3. new.seq \in Nat /\ new.seq <= drawn'
    BY <1>1, <1>5
  <2>4. new.seq = 0 => ~logged
    BY <1>1, <1>5
  <2>5. /\ e.part = part /\ e.p = p /\ e.value = value
        /\ e.seq # 0 => pruned < e.seq /\ \A r \in log : r.seq # e.seq
        /\ e.seq \in Nat /\ e.seq <= drawn'
        /\ e.seq = 0 => ~logged
    BY <1>5, <1>6, <2>2, <2>3, <2>4
  <2> QED  BY <1>1, <2>5 DEF ChangeHolds, BaseSellable
<1>7. \A e : ChangeHolds(e) => ChangeHolds(e)'
  BY <1>1 DEF ChangeHolds, BaseSellable
<1>8. PendHolds'
  <2>1. \A v \in Writers : pend'[v] # Null => \E e : e = pend'[v] /\ ChangeHolds(e)'
    BY <1>3, <1>6, <1>7 DEF PendHolds
  <2>2. ASSUME NEW v \in Writers \ {w}, pend[v] # Null
        PROVE  /\ pend[v].seq = new.seq => pend[v].seq = 0 /\ new.seq = 0
               /\ <<pend[v].part, pend[v].p>> # <<new.part, new.p>>
    <3>1. pend[v].seq \in Nat /\ pend[v].seq <= drawn
      BY <2>2 DEF PendHolds, ChangeHolds
    <3>2. pend[v].seq = new.seq => pend[v].seq = 0 /\ new.seq = 0
      BY <1>1, <1>5, <3>1
    <3> QED  BY <1>1, <1>5, <2>2, <3>2 DEF Free
  <2>3. \A v, u \in Writers : pend'[v] # Null /\ pend'[u] # Null /\ v # u =>
           /\ pend'[v].seq = pend'[u].seq => pend'[v].seq = 0
           /\ <<pend'[v].part, pend'[v].p>> # <<pend'[u].part, pend'[u].p>>
    BY <1>3, <2>2 DEF PendHolds
  <2> QED  BY <1>3, <2>1, <2>3 DEF PendHolds
<1> QED  BY <1>1, <1>2, <1>8, QuietWriter, WriterKeepsTill

\* The changes of a product, of this store's override, of another's.
LEMMA EditKeeps ==
    ASSUME ReadDownInvariant, NEW w \in Writers,
           EditProduct(w) \/ EditOverride(w) \/ EditElsewhere(w)
    PROVE  ReadDownInvariant'
<1>1. ASSUME NEW p \in Shelf, NEW row \in BaseRows,
             Draw(w, "base", p, row, Logged(base[p], row))
      PROVE  ReadDownInvariant'
  BY <1>1, DrawKeeps DEF Logged
<1>2. ASSUME NEW p \in Shelf, NEW row \in OverrideRows \cup {Null}, base[p] # Null,
             Draw(w, "over", p, row, TRUE)
      PROVE  ReadDownInvariant'
  BY <1>2, DrawKeeps
<1>3. ASSUME EditElsewhere(w)  PROVE ReadDownInvariant'
  BY <1>3, DrawKeeps, ShelfNumbers DEF EditElsewhere
<1> QED  BY <1>1, <1>2, <1>3 DEF EditProduct, EditOverride

\* A change that is given up.
LEMMA RollBackKeeps ==
    ASSUME ReadDownInvariant, NEW w \in Writers, RollBack(w)
    PROVE  ReadDownInvariant'
<1> USE DEF ReadDownInvariant
<1>1. /\ base' = base /\ over' = over /\ log' = log /\ pruned' = pruned /\ missed' = missed
      /\ UNCHANGED till
      /\ drawn' = drawn /\ pend' = [pend EXCEPT ![w] = Null]
  BY DEF RollBack
<1>2. CatalogueHolds' /\ LogHolds'
  BY <1>1 DEF CatalogueHolds, LogHolds
<1>3. PendHolds'
  <2>1. /\ pend' = [v \in Writers |-> pend'[v]]
        /\ \A v \in Writers : pend'[v] # Null => pend'[v] = pend[v]
    BY <1>1 DEF PendHolds
  <2>2. \A e : ChangeHolds(e) => ChangeHolds(e)'
    BY <1>1 DEF ChangeHolds, BaseSellable
  <2> QED  BY <2>1, <2>2 DEF PendHolds
<1> QED  BY <1>1, <1>2, <1>3, QuietWriter, WriterKeepsTill

\* The INSERT that the trigger does not log changes nothing that is sold.
LEMMA UnloggedInsert ==
    ASSUME CatalogueHolds, NEW p \in Shelf, base[p] = Null, NEW row \in BaseRows,
           ~BaseSellable(row), base'[p] = row, over'[p] = over[p]
    PROVE  SoldAsBefore(p)
<1>1. ~Sellable(p)
  BY DEF Sellable
<1>2. over'[p] = Null
  BY DEF CatalogueHolds
<1>3. Resolved(p)' = [price |-> row.price, active |-> row.active, retired |-> row.retired]
  <2>1. Resolved(p)' = [price |-> Coalesce(Null, row.price),
                        active |-> Coalesce(Null, row.active), retired |-> row.retired]
    BY <1>2 DEF Resolved, Coalesce
  <2> QED  BY <2>1 DEF Coalesce
<1>4. ~Sellable(p)'
  BY <1>3 DEF Sellable, BaseSellable
<1> QED  BY <1>1, <1>4 DEF SoldAsBefore

\* A change that is committed, perhaps after a later one.
LEMMA CommitKeeps ==
    ASSUME ReadDownInvariant, NEW w \in Writers, CommitEdit(w)
    PROVE  ReadDownInvariant'
<1> USE DEF ReadDownInvariant
<1> DEFINE e == pend[w]
           row == [seq |-> e.seq, mine |-> e.part # "other", product |-> e.p]
<1>1. /\ base' = IF e.part = "base" THEN [base EXCEPT ![e.p] = e.value] ELSE base
      /\ over' = IF e.part = "over" THEN [over EXCEPT ![e.p] = e.value] ELSE over
      /\ log' = IF e.seq = 0 THEN log ELSE log \cup {row}
      /\ missed' = missed \cup {p \in {e.p} : /\ e.seq # 0 /\ e.part # "other"
                                               /\ Passed(p, e.seq)}
      /\ UNCHANGED till /\ pruned' = pruned /\ drawn' = drawn
      /\ pend' = [pend EXCEPT ![w] = Null]
  BY DEF CommitEdit
<1>2. ChangeHolds(e)
  BY DEF CommitEdit, PendHolds
<1>3. row.seq = e.seq /\ row.mine = (e.part # "other") /\ row.product = e.p
  OBVIOUS
<1>0. row \in ChangeLogRow \/ e.seq = 0
  BY <1>2 DEF ChangeLogRow, ChangeHolds
<1>4. \A v \in Writers \ {w} : pend[v] # Null =>
           /\ pend[v].seq = e.seq => pend[v].seq = 0
           /\ <<pend[v].part, pend[v].p>> # <<e.part, e.p>>
  BY DEF PendHolds, CommitEdit
<1> HIDE DEF e, row
<1>5. CatalogueHolds'
  <2>1. base' \in [Shelf -> BaseRows \cup {Null}]
    BY <1>1, <1>2 DEF CatalogueHolds, ChangeHolds
  <2>2. over' \in [Shelf -> OverrideRows \cup {Null}]
    BY <1>1, <1>2 DEF CatalogueHolds, ChangeHolds
  <2>3. Null \notin BaseRows
    BY ReadDownAssumption
  <2>4. ASSUME NEW p \in Shelf, base'[p] = Null  PROVE over'[p] = Null
    <3>1. base[p] = Null
      BY <1>1, <1>2, <2>3, <2>4 DEF CatalogueHolds, ChangeHolds
    <3>2. over[p] = Null
      BY <3>1 DEF CatalogueHolds
    <3>3. e.part = "over" => e.p # p
      BY <1>2, <3>1 DEF ChangeHolds
    <3> QED  BY <1>1, <3>2, <3>3 DEF CatalogueHolds
  <2> QED  BY <2>1, <2>2, <2>4 DEF CatalogueHolds
<1>6. LogHolds'
  <2>1. CASE e.seq = 0
    BY <1>1, <2>1 DEF LogHolds
  <2>2. CASE e.seq # 0
    <3>1. log' = log \cup {row} /\ row \in ChangeLogRow
      BY <1>0, <1>1, <2>2
    <3>2. IsFiniteSet(log')
      BY <3>1, FS_AddElement DEF LogHolds
    <3>3. \A r \in log : r.seq # row.seq
      BY <1>2, <1>3, <2>2 DEF ChangeHolds
    <3>4. row.seq \in Nat /\ pruned < row.seq /\ row.seq <= drawn
      BY <1>2, <1>3, <2>2 DEF ChangeHolds
    <3>5. \A r, s \in log' : r.seq = s.seq => r = s
      BY <3>1, <3>3 DEF LogHolds
    <3>6. \A r \in log' : pruned < r.seq /\ r.seq <= drawn
      BY <3>1, <3>4 DEF LogHolds
    <3> QED  BY <1>1, <3>1, <3>2, <3>5, <3>6 DEF LogHolds
  <2> QED  BY <2>1, <2>2
<1>7. /\ pend' = [v \in Writers |-> pend'[v]]
      /\ \A v \in Writers : pend'[v] # Null => v # w /\ pend'[v] = pend[v]
  BY <1>1 DEF PendHolds
<1>8. PendHolds'
  <2>1. ASSUME NEW v \in Writers \ {w}, pend[v] # Null, NEW CONSTANT f, f = pend[v]
        PROVE  ChangeHolds(f)'
    <3>1. ChangeHolds(f)
      BY <2>1 DEF PendHolds
    <3>2. /\ f.seq = e.seq => f.seq = 0
          /\ ~(f.part = e.part /\ f.p = e.p)
      BY <1>4, <2>1
    <3>3. f.seq # 0 => pruned < f.seq /\ \A r \in log' : r.seq # f.seq
      BY <1>1, <1>3, <3>1, <3>2 DEF ChangeHolds
    <3>4. f.part = "over" => base'[f.p] # Null
      BY <1>1, <1>2, <3>1, ReadDownAssumption DEF ChangeHolds, CatalogueHolds
    <3>5. f.seq = 0 => base'[f.p] = Null
      BY <1>1, <1>2, <3>1, <3>2 DEF ChangeHolds, CatalogueHolds
    <3> QED  BY <1>1, <3>1, <3>3, <3>4, <3>5 DEF ChangeHolds, BaseSellable
  <2>2. \A v \in Writers : pend'[v] # Null => \E f : f = pend'[v] /\ ChangeHolds(f)'
    BY <1>7, <2>1
  <2>3. \A u, v \in Writers : pend'[u] # Null /\ pend'[v] # Null /\ u # v =>
           /\ pend'[u].seq = pend'[v].seq => pend'[u].seq = 0
           /\ <<pend'[u].part, pend'[u].p>> # <<pend'[v].part, pend'[v].p>>
    BY <1>7 DEF PendHolds
  <2> QED  BY <1>7, <2>2, <2>3 DEF PendHolds
<1>9. WriterStep
  <2>1. ASSUME NEW p \in Shelf
        PROVE  \/ SoldAsBefore(p)
               \/ p \in missed'
               \/ \E r \in log' \ log : /\ r.mine /\ r.product = p
                                        /\ r.seq \in Nat /\ ~Passed(p, r.seq)
    <3>1. CASE p # e.p \/ e.part = "other"
      <4>1. base'[p] = base[p] /\ over'[p] = over[p]
        BY <1>1, <3>1 DEF CatalogueHolds
      <4> QED  BY <4>1, RowsDecide DEF SoldAsBefore
    <3>2. CASE p = e.p /\ e.part # "other" /\ e.seq = 0
      <4>1. e.part = "base" /\ base[p] = Null /\ ~BaseSellable(e.value) /\ e.value \in BaseRows
        BY <1>2, <3>2 DEF ChangeHolds
      <4>2. base'[p] = e.value /\ over'[p] = over[p]
        BY <1>1, <3>2, <4>1 DEF CatalogueHolds
      <4> QED  BY <4>1, <4>2, UnloggedInsert
    <3>3. CASE p = e.p /\ e.part # "other" /\ e.seq # 0
      <4>1. row \in log' /\ row.mine /\ row.product = p /\ row.seq = e.seq
        BY <1>1, <1>3, <3>3
      <4>2. row \notin log /\ row.seq \in Nat
        BY <1>2, <1>3, <3>3 DEF ChangeHolds
      <4>3. Passed(p, e.seq) => p \in missed'
        BY <1>1, <3>3
      <4> QED  BY <4>1, <4>2, <4>3
    <3> QED  BY <3>1, <3>2, <3>3
  <2>2. log \subseteq log' /\ missed \subseteq missed'
    BY <1>1
  <2> QED  BY <1>1, <2>1, <2>2 DEF WriterStep
<1> QED  BY <1>5, <1>6, <1>8, <1>9, WriterKeepsTill

\* The oldest change is removed: a cursor that had not passed it is now before
\* what was removed.
LEMMA PruneKeeps ==
    ASSUME ReadDownInvariant, Prune
    PROVE  ReadDownInvariant'
<1> USE DEF ReadDownInvariant
<1> DEFINE low == Min(Seqs(log))
<1>1. /\ base' = base /\ over' = over /\ UNCHANGED till /\ drawn' = drawn /\ pend' = pend
      /\ missed' = missed /\ pruned' = low
      /\ \A w \in Writers : pend[w] # Null /\ pend[w].seq # 0 => low < pend[w].seq
      /\ log' = {r \in log : r.seq > low} /\ stmt = "idle" /\ Cardinality(log) > 1
  BY DEF Prune
<1>2. \A r \in log : r.seq \in Nat /\ pruned < r.seq
  BY DEF LogHolds, ChangeLogRow
<1>3. PICK m \in log : low = m.seq /\ \A r \in log : m.seq <= r.seq
  <2>1. log # {}
    BY <1>1, FS_EmptySet
  <2>2. Seqs(log) \in SUBSET Nat /\ Seqs(log) # {}
    BY <1>2, <2>1 DEF Seqs
  <2>3. low \in Seqs(log) /\ \A x \in Seqs(log) : low <= x
    BY <2>2, MinProperties
  <2> HIDE DEF low
  <2> QED  BY <2>3 DEF Seqs
<1> HIDE DEF low
<1>4. log' # {}
  <2>1. ASSUME log' = {}  PROVE FALSE
    <3>1. \A r \in log : r.seq = m.seq
      BY <1>1, <1>2, <1>3, <2>1
    <3>2. log = {m}
      BY <3>1 DEF LogHolds
    <3>3. Cardinality(log) = 1
      BY <3>2, FS_Singleton
    <3> QED  BY <1>1, <3>3
  <2> QED  BY <2>1
<1>0. pruned \in Nat /\ low \in Nat /\ pruned < low
  BY <1>2, <1>3 DEF LogHolds
<1>5. LogHolds'
  <2>1. log' \subseteq log
    BY <1>1
  <2>2. IsFiniteSet(log')
    BY <2>1, FS_Subset DEF LogHolds
  <2> QED  BY <1>0, <1>1, <1>4, <2>1, <2>2 DEF LogHolds
<1>6. CatalogueHolds' /\ PendHolds'
  <2>1. \A e : ChangeHolds(e) /\ (e.seq # 0 => low < e.seq) => ChangeHolds(e)'
    BY <1>1 DEF ChangeHolds, BaseSellable
  <2> QED  BY <1>1, <2>1 DEF CatalogueHolds, PendHolds
<1>7. /\ mirror' = mirror /\ cursor' = cursor /\ unread' = unread
      /\ stmt' = stmt /\ page' = page
  BY <1>1 DEF till
<1>8. CursorsHold' /\ SnapshotHolds' /\ DeltaHolds'
  BY <1>1, <1>7 DEF CursorsHold, SnapshotHolds, DeltaHolds
<1>9. TillHolds'
  <2> SUFFICES ASSUME cursor # Null, NEW p \in Shelf \ (unread \cup missed)
               PROVE  Shown(p)' \/ Announced(p)' \/ cursor < low
    BY <1>1, <1>7 DEF TillHolds
  <2>1. cursor \in Nat
    BY DEF CursorsHold
  <2>2. CASE Shown(p)
    <3>1. SoldAsBefore(p)
      BY <1>1, RowsDecide DEF SoldAsBefore
    <3> QED  BY <1>7, <2>2, <3>1 DEF Shown, Agrees, SoldAsBefore
  <2>3. CASE cursor < pruned
    BY <1>0, <2>1, <2>3
  <2>4. CASE Announced(p)
    <3>1. PICK r \in log : r.mine /\ r.product = p /\ r.seq > cursor
      BY <2>4 DEF Announced, AnnouncedSince
    <3>2. CASE r \in log'
      BY <1>7, <3>1, <3>2 DEF Announced, AnnouncedSince
    <3>3. CASE r \notin log'
      BY <1>0, <1>1, <1>2, <1>3, <2>1, <3>1, <3>3
    <3> QED  BY <3>2, <3>3
  <2> QED  BY <1>1, <2>2, <2>3, <2>4 DEF TillHolds
<1> QED  BY <1>5, <1>6, <1>8, <1>9

-----------------------------------------------------------------------------
(* The pages of a snapshot.                                                  *)

\* A step of the till leaves the catalogue alone.
LEMMA CatalogueStands ==
    ASSUME ReadDownInvariant, UNCHANGED catalogue
    PROVE  /\ CatalogueHolds' /\ LogHolds' /\ PendHolds'
           /\ pruned' = pruned
           /\ \A p, c : AnnouncedSince(p, c)' <=> AnnouncedSince(p, c)
           /\ \A p, kept : Agrees(p, kept)' <=> Agrees(p, kept)
<1> USE DEF ReadDownInvariant
<1>1. /\ base' = base /\ over' = over /\ log' = log /\ pruned' = pruned
      /\ drawn' = drawn /\ pend' = pend
  BY DEF catalogue
<1>2. CatalogueHolds' /\ LogHolds'
  BY <1>1 DEF CatalogueHolds, LogHolds
<1>3. PendHolds'
  <2>1. \A e : ChangeHolds(e) => ChangeHolds(e)'
    BY <1>1 DEF ChangeHolds, BaseSellable
  <2> QED  BY <1>1, <2>1 DEF PendHolds
<1>6. \A p, c : AnnouncedSince(p, c)' <=> AnnouncedSince(p, c)
  BY <1>1 DEF AnnouncedSince
<1>7. \A p : (Sellable(p)' <=> Sellable(p)) /\ Row(p)' = Row(p)
  BY <1>1, RowsDecide
<1>8. \A p, kept : Agrees(p, kept)' <=> Agrees(p, kept)
  BY <1>7 DEF Agrees
<1> QED  BY <1>1, <1>2, <1>3, <1>6, <1>8

\* A page sends the sellable products up to its token; without a token, all
\* that its query fetched.
LEMMA PageCovers ==
    ASSUME NEW after \in Nat, NEW fetched, fetched = Fetched(after),
           NEW emitted, emitted = Emitted(fetched)
    PROVE  /\ fetched \subseteq Remaining(after)
           /\ emitted \subseteq {p \in fetched : Sellable(p)}
           /\ NextToken(fetched, emitted) # Null =>
                /\ NextToken(fetched, emitted) \in emitted
                /\ \A p \in emitted : p <= NextToken(fetched, emitted)
                /\ \A p \in Remaining(after) :
                      Sellable(p) /\ p <= NextToken(fetched, emitted) => p \in emitted
           /\ NextToken(fetched, emitted) = Null =>
                \A p \in fetched : Sellable(p) => p \in emitted
<1> DEFINE R == Remaining(after)
           some == {p \in fetched : Sellable(p)}
           token == NextToken(fetched, emitted)
<1>1. R \subseteq Shelf /\ R \in SUBSET Nat /\ IsFiniteSet(R)
  <2>1. R \subseteq Shelf
    BY DEF Remaining
  <2> HIDE DEF R
  <2> QED  BY <2>1, ShelfNumbers, FS_Subset
<1>2. Limit \in Nat /\ Limit > 0
  BY ReadDownAssumption
<1>3. fetched = {p \in R : Rank(R, p) < Limit + 1}
  BY DEF Fetched, Rank
<1>4. some \in SUBSET Nat /\ IsFiniteSet(some) /\ some \subseteq R /\ some \subseteq fetched
  <2>1. some \subseteq R /\ some \subseteq fetched
    BY <1>3
  <2> HIDE DEF some, R
  <2> QED  BY <1>1, <2>1, FS_Subset
<1>5. emitted = {p \in some : Rank(some, p) < Limit}
  BY DEF Emitted, Rank
<1>6. \A p \in R, q \in fetched : p <= q => p \in fetched
  <2> SUFFICES ASSUME NEW p \in R, NEW q \in fetched, p <= q  PROVE p \in fetched
    OBVIOUS
  <2>1. q \in R /\ Rank(R, q) < Limit + 1
    BY <1>3
  <2> HIDE DEF R
  <2>2. Rank(R, p) \in Nat /\ Rank(R, q) \in Nat /\ Rank(R, p) <= Rank(R, q)
    BY <1>1, <2>1, RankIsMonotone
  <2> QED  BY <1>2, <1>3, <2>1, <2>2
<1> HIDE DEF R
<1>7. \A p \in some, q \in emitted : p <= q => p \in emitted
  <2> SUFFICES ASSUME NEW p \in some, NEW q \in emitted, p <= q  PROVE p \in emitted
    OBVIOUS
  <2>1. q \in some /\ Rank(some, q) < Limit
    BY <1>5
  <2> HIDE DEF some
  <2>2. Rank(some, p) \in Nat /\ Rank(some, q) \in Nat /\ Rank(some, p) <= Rank(some, q)
    BY <1>4, <2>1, RankIsMonotone
  <2> QED  BY <1>2, <1>5, <2>1, <2>2
<1>8. emitted = {} => some = {}
  <2> SUFFICES ASSUME some # {}  PROVE emitted # {}
    OBVIOUS
  <2> HIDE DEF some
  <2>1. \E p \in some : Rank(some, p) = 0
    BY <1>4, FirstRank
  <2> QED  BY <1>2, <1>5, <2>1
<1>9. emitted # {} => Max(emitted) \in emitted /\ \A x \in emitted : x <= Max(emitted)
  <2> DEFINE n == Cardinality(Shelf)
  <2>1. Shelf = 1 .. n /\ IsFiniteSet(Shelf)
    BY ReadDownAssumption
  <2>2. n \in Nat
    BY <2>1, FS_CardinalityType
  <2>3. emitted \subseteq Shelf /\ emitted \in SUBSET Nat
    BY <1>1, <1>4, <1>5
  <2> HIDE DEF n
  <2>4. \A x \in emitted : x <= n
    BY <2>1, <2>2, <2>3
  <2> QED  BY <2>2, <2>3, <2>4, MaxProperties
<1>10. Null \notin Nat
  BY ReadDownAssumption
<1>11. CASE emitted # {} /\ \E p \in fetched : p > Max(emitted)
  <2>1. token = Max(emitted) /\ token # Null
    BY <1>1, <1>4, <1>5, <1>9, <1>10, <1>11 DEF NextToken
  <2>2. PICK f \in fetched : f > token
    BY <1>11, <2>1
  <2>3. ASSUME NEW p \in R, Sellable(p), p <= token  PROVE p \in emitted
    <3>1. p \in fetched
      BY <1>1, <1>3, <1>4, <1>5, <1>6, <1>9, <1>11, <2>1, <2>3
    <3> QED  BY <1>7, <1>9, <1>11, <2>1, <2>3, <3>1
  <2> QED  BY <1>3, <1>5, <1>9, <1>11, <2>1, <2>3 DEF R
<1>12. CASE ~(emitted # {} /\ \E p \in fetched : p > Max(emitted))
  <2>1. token = Null
    BY <1>12 DEF NextToken
  <2>2. ASSUME NEW p \in fetched, Sellable(p)  PROVE p \in emitted
    <3>1. emitted # {}
      BY <1>8, <2>2
    <3>2. p \in Nat /\ Max(emitted) \in Nat
      BY <1>1, <1>3, <1>4, <1>5, <1>9, <3>1
    <3>3. p <= Max(emitted)
      BY <1>12, <3>1, <3>2
    <3> QED  BY <1>7, <1>9, <2>2, <3>1, <3>3
  <2> QED  BY <1>3, <1>5, <2>1, <2>2 DEF R
<1> QED  BY <1>11, <1>12

\* The fields of a page.
LEMMA PageFields ==
    ASSUME NEW a, NEW s, NEW f, NEW h, NEW r
    PROVE  /\ Page(a, s, f, h, r).after = a /\ Page(a, s, f, h, r).staged = s
           /\ Page(a, s, f, h, r).first = f /\ Page(a, s, f, h, r).head = h
           /\ Page(a, s, f, h, r).rows = r
BY DEF Page

\* A snapshot is begun with nothing staged.
LEMMA GetSnapshotKeeps ==
    ASSUME ReadDownInvariant, GetSnapshot
    PROVE  ReadDownInvariant'
<1>1. /\ stmt' = "snapshotHead" /\ page' = NoPage /\ cursor = Null /\ cursor' = Null
      /\ mirror' = mirror /\ UNCHANGED catalogue
  BY DEF GetSnapshot, Serve
<1>2. CatalogueHolds' /\ LogHolds' /\ PendHolds'
  BY <1>1, CatalogueStands
<1>3. page'.after = 0 /\ page'.staged = <<>> /\ page'.first = Null
  BY <1>1, PageFields DEF NoPage
<1>4. CursorsHold' /\ DeltaHolds' /\ TillHolds'
  BY <1>1 DEF ReadDownInvariant, CursorsHold, DeltaHolds, TillHolds
<1>5. SnapshotHolds'
  <2>1. \A p \in Shelf : ~(p <= 0)
    BY ShelfNumbers
  <2> QED  BY <1>1, <1>3, <2>1 DEF SnapshotHolds
<1> QED  BY <1>2, <1>4, <1>5 DEF ReadDownInvariant

\* A page of it starts with the log's head.
LEMMA SnapshotHeadKeeps ==
    ASSUME ReadDownInvariant, SnapshotHead
    PROVE  ReadDownInvariant'
<1> USE DEF ReadDownInvariant
<1> DEFINE first == IF page.first = Null THEN LogHead ELSE page.first
<1>1. /\ stmt = "snapshotHead" /\ stmt' = "snapshotRows"
      /\ page' = Page(page.after, page.staged, first, LogHead, {})
      /\ cursor = Null /\ cursor' = Null /\ mirror' = mirror /\ missed' = missed
      /\ UNCHANGED catalogue
  BY DEF SnapshotHead, Serve, CursorsHold
<1>2. /\ CatalogueHolds' /\ LogHolds' /\ PendHolds'
      /\ pruned' = pruned
      /\ \A p, c : AnnouncedSince(p, c)' <=> AnnouncedSince(p, c)
      /\ \A p, kept : Agrees(p, kept)' <=> Agrees(p, kept)
  BY <1>1, CatalogueStands
<1>3. /\ page'.after = page.after /\ page'.staged = page.staged /\ page'.first = first
      /\ page'.head = LogHead
  BY <1>1, PageFields
<1>4. CursorsHold' /\ DeltaHolds' /\ TillHolds'
  BY <1>1 DEF CursorsHold, DeltaHolds, TillHolds
<1>5. first \in Nat /\ LogHead \in Nat /\ Null \notin Nat
  BY <1>1, HeadIsSequence, ReadDownAssumption DEF SnapshotHolds
<1>6. /\ page.after \in Nat
      /\ DOMAIN page.staged \subseteq {p \in Shelf : p <= page.after}
      /\ \A p \in Shelf \ missed : p <= page.after =>
             Agrees(p, page.staged) \/ AnnouncedSince(p, first)
  <2>1. /\ page.after \in Nat
        /\ DOMAIN page.staged \subseteq {p \in Shelf : p <= page.after}
        /\ page.first = Null => page.after = 0
        /\ \A p \in Shelf \ missed : p <= page.after =>
               Agrees(p, page.staged) \/ AnnouncedSince(p, page.first)
    BY <1>1 DEF SnapshotHolds
  <2> QED  BY <2>1, ShelfNumbers
<1> HIDE DEF first
<1>7. SnapshotHolds'
  BY <1>1, <1>2, <1>3, <1>5, <1>6 DEF SnapshotHolds
<1> QED  BY <1>2, <1>4, <1>7

\* Its rows extend what is staged, or complete the till's catalogue.
LEMMA SnapshotRowsKeeps ==
    ASSUME ReadDownInvariant, SnapshotRows
    PROVE  ReadDownInvariant'
<1> USE DEF ReadDownInvariant
<1> DEFINE fetched == Fetched(page.after)
           emitted == Emitted(fetched)
           staged == Upserted(emitted, page.staged)
           token == NextToken(fetched, emitted)
<1>1. /\ stmt = "snapshotRows" /\ UNCHANGED catalogue
      /\ IF token = Null
         THEN /\ mirror' = staged
              /\ \E kept \in {page.first, page.head} :
                     /\ cursor' = kept
                     /\ missed' = missed \cup
                            {p \in Shelf : p <= page.after /\ ChangedSince(p, page.first, kept)}
              /\ unread' = Remaining(page.after) \ fetched
              /\ stmt' = "idle" /\ page' = NoPage
         ELSE /\ stmt' = "snapshotHead" /\ page' = Page(token, staged, page.first, 0, {})
              /\ UNCHANGED <<mirror, cursor, unread, missed>>
  BY DEF SnapshotRows, Serve
<1>2. /\ page.after \in Nat
      /\ DOMAIN page.staged \subseteq {p \in Shelf : p <= page.after}
      /\ page.first # Null /\ page.first \in Nat /\ page.head \in Nat /\ cursor = Null
      /\ \A p \in Shelf \ missed : p <= page.after =>
             Agrees(p, page.staged) \/ AnnouncedSince(p, page.first)
  BY <1>1 DEF SnapshotHolds, CursorsHold
<1>3. /\ CatalogueHolds' /\ LogHolds' /\ PendHolds'
      /\ \A p, c : AnnouncedSince(p, c)' <=> AnnouncedSince(p, c)
      /\ \A p, kept : Agrees(p, kept)' <=> Agrees(p, kept)
  BY <1>1, CatalogueStands
<1>4. /\ fetched \subseteq Remaining(page.after)
      /\ emitted \subseteq {p \in fetched : Sellable(p)}
      /\ token # Null =>
           /\ token \in emitted
           /\ \A p \in emitted : p <= token
           /\ \A p \in Remaining(page.after) : Sellable(p) /\ p <= token => p \in emitted
      /\ token = Null => \A p \in fetched : Sellable(p) => p \in emitted
  BY <1>2, PageCovers
<1>5. /\ DOMAIN staged = emitted \cup DOMAIN page.staged
      /\ \A p \in emitted : staged[p] = Row(p)
      /\ \A p \in DOMAIN page.staged : p \notin emitted => staged[p] = page.staged[p]
  BY DEF Upserted
<1> HIDE DEF fetched, emitted, staged, token
<1>6. /\ \A p \in Remaining(page.after) : p \in Shelf /\ p > page.after /\ p \in Nat
      /\ \A p \in Shelf : p > page.after /\ Sellable(p) => p \in Remaining(page.after)
  BY ShelfNumbers DEF Remaining, Sellable
<1>7. \A p \in Shelf : p <= page.after => (Agrees(p, page.staged) => Agrees(p, staged))
  BY <1>2, <1>4, <1>5, <1>6, ShelfNumbers DEF Agrees
<1>8. \A p \in Shelf : p > page.after /\ (Sellable(p) => p \in emitted) => Agrees(p, staged)
  <2> SUFFICES ASSUME NEW p \in Shelf, p > page.after, Sellable(p) => p \in emitted
               PROVE  Agrees(p, staged)
    OBVIOUS
  <2>1. p \notin DOMAIN page.staged
    BY <1>2, ShelfNumbers
  <2> QED  BY <1>4, <1>5, <2>1 DEF Agrees
<1>9. DOMAIN staged \subseteq Shelf
  BY <1>2, <1>4, <1>5, <1>6
<1>10. CASE token = Null
  <2>0. PICK kept \in {page.first, page.head} :
            /\ cursor' = kept
            /\ missed' = missed \cup
                   {p \in Shelf : p <= page.after /\ ChangedSince(p, page.first, kept)}
    BY <1>1, <1>10
  <2>1. CursorsHold'
    BY <1>1, <1>2, <1>9, <1>10, <2>0 DEF CursorsHold
  <2>2. SnapshotHolds' /\ DeltaHolds'
    BY <1>1, <1>10 DEF SnapshotHolds, DeltaHolds
  <2>3. ASSUME NEW p \in Shelf, p \notin unread', p \notin missed'
        PROVE  Agrees(p, staged) \/ AnnouncedSince(p, kept)
    <3>1. CASE p <= page.after
      <4>1. p \notin missed /\ ~ChangedSince(p, page.first, kept)
        BY <2>0, <2>3, <3>1
      <4>2. CASE Agrees(p, page.staged)
        BY <1>7, <3>1, <4>2
      <4>3. CASE AnnouncedSince(p, page.first)
        <5>1. PICK r \in log : r.mine /\ r.product = p /\ r.seq > page.first
          BY <4>3 DEF AnnouncedSince
        <5>2. ~(r.seq <= kept)
          BY <4>1, <5>1 DEF ChangedSince
        <5>3. r.seq \in Nat /\ kept \in Nat
          BY <1>2 DEF LogHolds, ChangeLogRow
        <5> QED  BY <5>1, <5>2, <5>3 DEF AnnouncedSince
      <4> QED  BY <1>2, <3>1, <4>1, <4>2, <4>3
    <3>2. CASE ~(p <= page.after)
      <4>1. p > page.after
        BY <1>2, <3>2, ShelfNumbers
      <4>2. Sellable(p) => p \in fetched
        BY <1>1, <1>6, <1>10, <2>3, <4>1
      <4> QED  BY <1>4, <1>8, <1>10, <4>1, <4>2
    <3> QED  BY <3>1, <3>2
  <2>4. TillHolds'
    BY <1>1, <1>3, <1>10, <2>0, <2>3 DEF TillHolds, Shown, Announced
  <2> QED  BY <1>3, <2>1, <2>2, <2>4
<1>11. CASE token # Null
  <2>1. /\ page'.after = token /\ page'.staged = staged /\ page'.first = page.first
        /\ stmt' = "snapshotHead" /\ cursor' = Null /\ mirror' = mirror /\ missed' = missed
    BY <1>1, <1>2, <1>11, PageFields
  <2>2. token \in Nat /\ token > page.after
    BY <1>4, <1>6, <1>11
  <2>3. CursorsHold' /\ DeltaHolds' /\ TillHolds'
    BY <1>1, <2>1 DEF CursorsHold, DeltaHolds, TillHolds
  <2>4. ASSUME NEW p \in Shelf \ missed, p <= token
        PROVE  Agrees(p, staged) \/ AnnouncedSince(p, page.first)
    <3>1. CASE p <= page.after
      BY <1>2, <1>7, <3>1
    <3>2. CASE ~(p <= page.after)
      <4>1. p > page.after
        BY <1>2, <3>2, ShelfNumbers
      <4> QED  BY <1>4, <1>6, <1>8, <1>11, <2>4, <4>1
    <3> QED  BY <3>1, <3>2
  <2>5. DOMAIN staged \subseteq {p \in Shelf : p <= token}
    <3>1. \A p \in emitted : p \in Shelf /\ p <= token
      BY <1>4, <1>6, <1>11
    <3>2. \A p \in DOMAIN page.staged : p \in Shelf /\ p <= token
      BY <1>2, <2>2, ShelfNumbers
    <3> QED  BY <1>5, <3>1, <3>2
  <2>6. SnapshotHolds'
    BY <1>2, <1>3, <2>1, <2>2, <2>4, <2>5 DEF SnapshotHolds
  <2> QED  BY <1>3, <2>3, <2>6
<1> QED  BY <1>10, <1>11

-----------------------------------------------------------------------------
(* The deltas.                                                               *)

\* A request for them.
LEMMA GetDeltasKeeps ==
    ASSUME ReadDownInvariant, GetDeltas
    PROVE  ReadDownInvariant'
<1> USE DEF ReadDownInvariant
<1>1. /\ stmt = "idle" /\ stmt' = "deltaHorizon" /\ cursor # Null /\ cursor' = cursor
      /\ mirror' = mirror /\ unread' = unread /\ missed' = missed
      /\ UNCHANGED catalogue
  BY DEF GetDeltas, Serve
<1>2. /\ CatalogueHolds' /\ LogHolds' /\ PendHolds'
      /\ pruned' = pruned
      /\ \A p, c : AnnouncedSince(p, c)' <=> AnnouncedSince(p, c)
      /\ \A p, kept : Agrees(p, kept)' <=> Agrees(p, kept)
  BY <1>1, CatalogueStands
<1>3. CursorsHold' /\ SnapshotHolds' /\ DeltaHolds'
  BY <1>1, <1>2 DEF CursorsHold, SnapshotHolds, DeltaHolds
<1>4. TillHolds'
  BY <1>1, <1>2 DEF TillHolds, Shown, Announced
<1> QED  BY <1>2, <1>3, <1>4

\* The horizon sends the till back to a snapshot, or the log has what it misses.
LEMMA DeltaHorizonKeeps ==
    ASSUME ReadDownInvariant, DeltaHorizon
    PROVE  ReadDownInvariant'
<1> USE DEF ReadDownInvariant
<1>1. /\ stmt = "deltaHorizon" /\ mirror' = mirror /\ unread' = unread /\ missed' = missed
      /\ UNCHANGED catalogue
      /\ \/ BeyondHorizon(cursor) /\ cursor' = Null /\ stmt' = "idle"
         \/ ~BeyondHorizon(cursor) /\ cursor' = cursor /\ stmt' = "deltaHead"
  BY DEF DeltaHorizon, Serve
<1>2. /\ CatalogueHolds' /\ LogHolds' /\ PendHolds'
      /\ pruned' = pruned
      /\ \A p, c : AnnouncedSince(p, c)' <=> AnnouncedSince(p, c)
      /\ \A p, kept : Agrees(p, kept)' <=> Agrees(p, kept)
  BY <1>1, CatalogueStands
<1>3. CursorsHold' /\ SnapshotHolds' /\ DeltaHolds'
  BY <1>1, <1>2 DEF CursorsHold, SnapshotHolds, DeltaHolds
<1>4. TillHolds'
  <2>1. cursor < pruned => BeyondHorizon(cursor)
    BY <1>1, HorizonMeans DEF CursorsHold
  <2> QED  BY <1>1, <1>2, <2>1 DEF TillHolds, Shown, Announced
<1> QED  BY <1>2, <1>3, <1>4

\* The head is read first.
LEMMA DeltaHeadKeeps ==
    ASSUME ReadDownInvariant, DeltaHead
    PROVE  ReadDownInvariant'
<1> USE DEF ReadDownInvariant
<1> DEFINE head == IF log = {} THEN cursor ELSE LogHead
<1>1. /\ stmt = "deltaHead" /\ mirror' = mirror /\ unread' = unread /\ missed' = missed
      /\ UNCHANGED catalogue
      /\ cursor' = cursor /\ stmt' = "deltaChanges"
      /\ page' = Page(0, <<>>, Null, head, {})
  BY DEF DeltaHead, Serve
<1>2. /\ CatalogueHolds' /\ LogHolds' /\ PendHolds'
      /\ pruned' = pruned
      /\ \A p, c : AnnouncedSince(p, c)' <=> AnnouncedSince(p, c)
      /\ \A p, kept : Agrees(p, kept)' <=> Agrees(p, kept)
  BY <1>1, CatalogueStands
<1>3. head \in Nat
  BY <1>1, HeadIsSequence DEF CursorsHold
<1>4. page'.head = head
  BY <1>1, PageFields
<1> HIDE DEF head
<1>5. CursorsHold' /\ SnapshotHolds' /\ DeltaHolds'
  BY <1>1, <1>2, <1>3, <1>4 DEF CursorsHold, SnapshotHolds, DeltaHolds
<1>6. TillHolds'
  BY <1>1, <1>2 DEF TillHolds, Shown, Announced
<1> QED  BY <1>2, <1>5, <1>6

\* The page takes the products whose newest changes come first: what it leaves
\* out of an announced product is later than all it takes.
LEMMA ChangesCover ==
    ASSUME LogHolds, NEW since \in Nat, NEW p, AnnouncedSince(p, since)
    PROVE  \/ \E q \in Changes(since) : q.product = p
           \/ /\ Changes(since) # {}
              /\ \E r \in log : r.mine /\ r.product = p /\ \A q \in Changes(since) : q.seq < r.seq
<1> DEFINE rows == {r \in log : r.mine /\ r.seq > since}
           newest == {r \in rows : \A q \in rows : q.product = r.product => q.seq <= r.seq}
           before(r) == {q \in newest : q.seq < r.seq}
           mine == {r \in rows : r.product = p}
<1>1. Changes(since) = {r \in newest : Cardinality(before(r)) < Limit}
  BY DEF Changes
<1>2. /\ \A r \in log : r.seq \in Nat /\ r.seq <= drawn
      /\ drawn \in Nat
      /\ \A r, s \in log : r.seq = s.seq => r = s
  BY DEF LogHolds, ChangeLogRow
<1>3. mine # {}
  BY DEF AnnouncedSince
<1>4. PICK n \in mine : \A q \in mine : q.seq <= n.seq
  <2>1. Seqs(mine) \in SUBSET Nat /\ Seqs(mine) # {} /\ \A x \in Seqs(mine) : x <= drawn
    BY <1>2, <1>3 DEF Seqs
  <2> HIDE DEF mine
  <2>2. Max(Seqs(mine)) \in Seqs(mine) /\ \A x \in Seqs(mine) : x <= Max(Seqs(mine))
    BY <1>2, <2>1, MaxProperties
  <2> QED  BY <2>2 DEF Seqs
<1>5. n \in newest /\ n \in log /\ n.mine /\ n.product = p
  BY <1>4
<1>6. newest \subseteq log /\ IsFiniteSet(newest)
  <2>1. newest \subseteq log
    OBVIOUS
  <2> HIDE DEF newest
  <2> QED  BY <2>1, FS_Subset DEF LogHolds
<1> HIDE DEF newest
<1>7. \A r, s \in newest : r.seq <= s.seq =>
        /\ Cardinality(before(r)) \in Nat /\ Cardinality(before(s)) \in Nat
        /\ Cardinality(before(r)) <= Cardinality(before(s))
  <2> SUFFICES ASSUME NEW r \in newest, NEW s \in newest, r.seq <= s.seq
               PROVE  /\ Cardinality(before(r)) \in Nat /\ Cardinality(before(s)) \in Nat
                      /\ Cardinality(before(r)) <= Cardinality(before(s))
    OBVIOUS
  <2>1. before(r) \subseteq before(s) /\ before(s) \subseteq newest
    BY <1>2, <1>6
  <2> HIDE DEF before
  <2>2. IsFiniteSet(before(s))
    BY <1>6, <2>1, FS_Subset
  <2>3. IsFiniteSet(before(r)) /\ Cardinality(before(r)) <= Cardinality(before(s))
    BY <2>1, <2>2, FS_Subset
  <2> QED  BY <2>2, <2>3, FS_CardinalityType
<1>8. Limit \in Nat /\ Limit > 0
  BY ReadDownAssumption
<1>9. Changes(since) # {}
  <2>1. Seqs(newest) \in SUBSET Nat /\ Seqs(newest) # {}
    BY <1>2, <1>5, <1>6 DEF Seqs
  <2>2. PICK x \in Seqs(newest) : \A y \in Seqs(newest) : x <= y
    BY <2>1, LeastNatural
  <2>3. PICK m \in newest : \A q \in newest : m.seq <= q.seq
    BY <2>2 DEF Seqs
  <2>4. before(m) = {}
    BY <1>2, <1>6, <2>3
  <2>5. Cardinality(before(m)) = 0
    BY <2>4, FS_EmptySet
  <2> QED  BY <1>1, <1>8, <2>5
<1>10. CASE n \in Changes(since)
  BY <1>5, <1>10
<1>11. CASE n \notin Changes(since)
  <2>1. ASSUME NEW q \in Changes(since)  PROVE q.seq < n.seq
    <3>1. q \in newest /\ Cardinality(before(q)) < Limit /\ ~(Cardinality(before(n)) < Limit)
      BY <1>1, <1>5, <1>11
    <3> HIDE DEF before
    <3>2. ~(n.seq <= q.seq)
      BY <1>5, <1>7, <1>8, <3>1
    <3> QED  BY <1>2, <1>5, <1>6, <3>1, <3>2
  <2> QED  BY <1>5, <1>9, <2>1
<1> QED  BY <1>10, <1>11

\* Then the changes after the till's cursor.
LEMMA DeltaChangesKeeps ==
    ASSUME ReadDownInvariant, DeltaChanges
    PROVE  ReadDownInvariant'
<1> USE DEF ReadDownInvariant
<1>1. /\ stmt = "deltaChanges" /\ mirror' = mirror /\ unread' = unread /\ missed' = missed
      /\ UNCHANGED catalogue
      /\ cursor' = cursor /\ stmt' = "deltaRows"
      /\ page' = Page(0, <<>>, Null, page.head, Changes(cursor))
  BY DEF DeltaChanges, Serve
<1>2. /\ CatalogueHolds' /\ LogHolds' /\ PendHolds'
      /\ pruned' = pruned
      /\ \A p, c : AnnouncedSince(p, c)' <=> AnnouncedSince(p, c)
      /\ \A p, kept : Agrees(p, kept)' <=> Agrees(p, kept)
  BY <1>1, CatalogueStands
<1> DEFINE rows == Changes(cursor)
           next == IF rows = {} THEN page.head ELSE Max(Seqs(rows))
<1>3. page'.head = page.head /\ page'.rows = rows
  BY <1>1, PageFields
<1>4. CursorsHold' /\ SnapshotHolds' /\ TillHolds'
  BY <1>1, <1>2 DEF CursorsHold, SnapshotHolds, TillHolds
<1>5. cursor \in Nat /\ page.head \in Nat
  BY <1>1 DEF CursorsHold, DeltaHolds
<1>6. rows \subseteq log
  BY DEF Changes
<1> HIDE DEF rows
<1>7. rows # {} => Max(Seqs(rows)) \in Seqs(rows)
  <2> SUFFICES ASSUME rows # {}  PROVE Max(Seqs(rows)) \in Seqs(rows)
    OBVIOUS
  <2>1. /\ Seqs(rows) \in SUBSET Nat /\ Seqs(rows) # {}
        /\ \A x \in Seqs(rows) : x <= drawn
    BY <1>6 DEF Seqs, LogHolds, ChangeLogRow
  <2>2. drawn \in Nat
    BY DEF LogHolds
  <2> QED  BY <2>1, <2>2, MaxProperties
<1>8. NextCursor' = next
  BY <1>3 DEF NextCursor
<1>9. next \in Nat /\ (rows # {} => \E q \in rows : next = q.seq)
  BY <1>5, <1>6, <1>7 DEF Seqs, LogHolds, ChangeLogRow
<1> HIDE DEF next
<1>10. ASSUME NEW p \in Shelf, AnnouncedSince(p, cursor)
       PROVE  p \in Named' \/ AnnouncedSince(p, next)
  <2>1. CASE \E q \in rows : q.product = p
    BY <1>3, <2>1 DEF Named
  <2>2. CASE /\ rows # {}
             /\ \E r \in log : r.mine /\ r.product = p /\ \A q \in rows : q.seq < r.seq
    <3>1. PICK r \in log : r.mine /\ r.product = p /\ \A q \in rows : q.seq < r.seq
      BY <2>2
    <3>2. next < r.seq /\ r.seq \in Nat
      BY <1>9, <2>2, <3>1 DEF LogHolds, ChangeLogRow
    <3> QED  BY <1>9, <3>1, <3>2 DEF AnnouncedSince
  <2> QED  BY <1>5, <1>10, <2>1, <2>2, ChangesCover DEF rows
<1>11. \A p \in Shelf \ (unread \cup missed) : Shown(p)' \/ p \in Named' \/ LeftOut(p)'
  <2> SUFFICES ASSUME NEW p \in Shelf \ (unread \cup missed)
               PROVE  Shown(p)' \/ p \in Named' \/ LeftOut(p)'
    OBVIOUS
  <2>1. Shown(p) \/ AnnouncedSince(p, cursor)
    BY <1>1 DEF TillHolds, CursorsHold, Announced
  <2>2. Shown(p) => Shown(p)'
    BY <1>1, <1>2 DEF Shown
  <2>3. AnnouncedSince(p, next) => LeftOut(p)'
    BY <1>2, <1>8 DEF LeftOut
  <2> QED  BY <1>10, <2>1, <2>2, <2>3
<1>12. DeltaHolds'
  <2>1. page'.rows \subseteq ChangeLogRow /\ NextCursor' \in Nat
    BY <1>3, <1>6, <1>8, <1>9 DEF LogHolds
  <2> QED  BY <1>1, <1>3, <1>5, <1>11, <2>1 DEF DeltaHolds
<1> QED  BY <1>2, <1>4, <1>12

\* Their products are held as they are now, and the cursor passes no change that
\* was left out.
LEMMA DeltaRowsKeeps ==
    ASSUME ReadDownInvariant, DeltaRows
    PROVE  ReadDownInvariant'
<1> USE DEF ReadDownInvariant
<1>1. /\ stmt = "deltaRows" /\ mirror' = Applied(Named)
      /\ unread' = unread \ Named /\ missed' = missed \ Named
      /\ UNCHANGED catalogue /\ stmt' = "idle"
      /\ cursor' = NextCursor
  BY DEF DeltaRows, Serve, Named
<1>2. /\ CatalogueHolds' /\ LogHolds' /\ PendHolds'
      /\ pruned' = pruned
      /\ \A p, c : AnnouncedSince(p, c)' <=> AnnouncedSince(p, c)
      /\ \A p, kept : Agrees(p, kept)' <=> Agrees(p, kept)
  BY <1>1, CatalogueStands
<1>3. /\ page.rows \subseteq ChangeLogRow /\ NextCursor \in Nat
      /\ \A p \in Shelf \ (unread \cup missed) : Shown(p) \/ p \in Named \/ LeftOut(p)
  BY <1>1 DEF DeltaHolds
<1>6. Named \subseteq Shelf
  BY <1>3 DEF Named, ChangeLogRow
<1>7. /\ DOMAIN mirror' = {p \in Named : Sellable(p)} \cup (DOMAIN mirror \ Named)
      /\ \A p \in Named : Sellable(p) => mirror'[p] = Row(p)
      /\ \A p \in DOMAIN mirror \ Named : mirror'[p] = mirror[p]
  BY <1>1 DEF Applied, Upserted
<1>8. CursorsHold' /\ SnapshotHolds' /\ DeltaHolds'
  <2>1. DOMAIN mirror' \subseteq Shelf
    BY <1>6, <1>7 DEF CursorsHold
  <2> QED  BY <1>1, <1>3, <2>1 DEF CursorsHold, SnapshotHolds, DeltaHolds
<1>9. TillHolds'
  <2> SUFFICES ASSUME NEW p \in Shelf, p \notin unread', p \notin missed'
               PROVE  Agrees(p, mirror') \/ AnnouncedSince(p, cursor')
    BY <1>1, <1>2 DEF TillHolds, Shown, Announced
  <2>1. CASE p \in Named
    BY <1>7, <2>1 DEF Agrees
  <2>2. CASE p \notin Named
    <3>1. Shown(p) \/ LeftOut(p)
      BY <1>1, <1>3, <2>2
    <3>2. CASE Shown(p)
      BY <1>7, <2>2, <3>2 DEF Shown, Agrees
    <3>3. CASE LeftOut(p)
      BY <1>1, <3>3 DEF LeftOut
    <3> QED  BY <3>1, <3>2, <3>3
  <2> QED  BY <2>1, <2>2
<1> QED  BY <1>2, <1>8, <1>9

-----------------------------------------------------------------------------

\* The inductive invariant, for any number of writers that commit in any order
\* and a till that keeps either cursor: what the till shows is what is sold, or
\* has a change at a sequence the till will ask about, or the log has removed that
\* change and the till will be told to start over, or the product is one the last
\* snapshot ended before or one that changed at a sequence the till was past
\* (getSnapshot, getDeltas, catalog_change_log).
THEOREM ReadDownInvariantHolds == ReadDownSpec => []ReadDownInvariant
<1>1. ReadDownInit => ReadDownInvariant
  BY ReadDownStarts
<1>2. ReadDownInvariant /\ [ReadDownNext]_readDownVars => ReadDownInvariant'
  <2> SUFFICES ASSUME ReadDownInvariant, [ReadDownNext]_readDownVars
               PROVE  ReadDownInvariant'
    OBVIOUS
  <2>1. ASSUME NEW w \in Writers, Write(w)  PROVE ReadDownInvariant'
    BY <2>1, EditKeeps, CommitKeeps, RollBackKeeps DEF Write
  <2>2. CASE Prune
    BY <2>2, PruneKeeps
  <2>3. CASE Till
    BY <2>3, GetSnapshotKeeps, SnapshotHeadKeeps, SnapshotRowsKeeps, GetDeltasKeeps,
       DeltaHorizonKeeps, DeltaHeadKeeps, DeltaChangesKeeps, DeltaRowsKeeps DEF Till
  <2>4. CASE UNCHANGED readDownVars
    <3>1. UNCHANGED catalogue /\ UNCHANGED till /\ missed' = missed
      BY <2>4 DEF readDownVars, catalogue, till
    <3>2. CatalogueHolds' /\ LogHolds' /\ PendHolds'
      BY <3>1, CatalogueStands
    <3>3. WriterStep
      BY <3>1, QuietWriter DEF catalogue
    <3> QED  BY <3>2, <3>3, WriterKeepsTill DEF ReadDownInvariant
  <2> QED  BY <2>1, <2>2, <2>3, <2>4 DEF ReadDownNext
<1> QED  BY <1>1, <1>2, PTL DEF ReadDownSpec

\* Nothing a till holds is stale and unannounced, but for the two causes that the
\* property names, however many products there are, however long the pages,
\* whoever writes the catalogue and however its log is pruned (getSnapshot,
\* getDeltas).
THEOREM StaleIsAnnouncedHolds == ReadDownSpec => []StaleIsAnnounced
<1>1. ReadDownInvariant => StaleIsAnnounced
  <2> SUFFICES ASSUME ReadDownInvariant  PROVE StaleIsAnnounced
    OBVIOUS
  <2>1. ReadDownTypeOK
    BY DEF ReadDownInvariant, ReadDownTypeOK, CatalogueHolds, LogHolds, CursorsHold
  <2>2. ASSUME stmt = "idle", cursor # Null, NEW p \in Shelf \ (unread \cup missed)
        PROVE  Shown(p) \/ Announced(p) \/ BeyondHorizon(cursor)
    <3>1. cursor < pruned => BeyondHorizon(cursor)
      BY <2>2, HorizonMeans DEF ReadDownInvariant, CursorsHold
    <3> QED  BY <2>2, <3>1 DEF ReadDownInvariant, TillHolds
  <2> QED  BY <2>1, <2>2 DEF StaleIsAnnounced
<1> QED  BY <1>1, ReadDownInvariantHolds, PTL
=============================================================================
