------------------------------ MODULE SaleSync ------------------------------
(***************************************************************************)
(* The server-side sync status of a captured sale.  Three writers move it, *)
(* each in its own READ COMMITTED transaction: the sale-processing job     *)
(* (SaleProcessingProcessor.process), the quarantine of a failed sync      *)
(* (SaleSyncDeadletterProducer.quarantine) and the operator's repair       *)
(* (SaleSyncOpsReadModelService.repairSaleSync).  Jobs are delivered at    *)
(* least once and a stalled job may run twice at the same time.            *)
(*                                                                         *)
(* A transaction writes under row locks and publishes at its commit; a     *)
(* statement that meets a locked row waits and then re-evaluates its WHERE *)
(* on the committed row.  There are two locks per sale: the sales row, and *)
(* the open entry of the sale in sale_sync_deadletters (the row, or the    *)
(* slot of the partial-unique index while an INSERT is in flight).         *)
(***************************************************************************)
EXTENDS Naturals

CONSTANTS
    Sales,          \* sale ids
    Txns,           \* concurrent database transactions
    NoTxn,          \* no lock holder
    NoSale,
    JobAttempts,    \* DEFAULT_JOB_OPTIONS.attempts
    MaxRows         \* bound: deadletter rows ever written per sale

ASSUME SyncAssumption ==
    /\ NoTxn \notin Txns
    /\ NoSale \notin Sales
    /\ JobAttempts \in Nat \ {0}
    /\ MaxRows \in Nat

VARIABLES
    status,         \* sales.sync_status, or "none" before the capture
    processed,      \* sales.processed_at IS NOT NULL
    postings,       \* erpnext.posting.requested events emitted for the sale
    attemptsLeft,   \* deliveries left of the sale-processing job, 0: no job
    openRow,        \* classification of the open deadletter row, or "none"
    resolved,       \* resolved deadletter rows
    rows,           \* deadletter rows ever written
    repairs,        \* repairs answered with success
    saleLock,       \* [Sales -> transaction]
    rowLock,        \* [Sales -> transaction]
    txn             \* [Txns -> running transaction]

saleVars == <<status, processed, postings, attemptsLeft>>
letterVars == <<openRow, resolved, rows, repairs>>
vars == <<saleVars, letterVars, saleLock, rowLock, txn>>

Statuses == {"captured", "synced", "failed-retryable", "failed-needs-repair"}
Classifications == {"retryable", "needs-repair"}
Steps == {"idle", "advance", "resolve", "requeue", "commit"}

NoTransaction == [op |-> "none", sale |-> NoSale, class |-> "none", step |-> "idle"]

Transactions ==
    {NoTransaction} \cup
    [op : {"process", "quarantine", "repair"}, sale : Sales,
     class : Classifications \cup {"none"}, step : Steps]

Init ==
    /\ status = [s \in Sales |-> "none"]
    /\ processed = [s \in Sales |-> FALSE]
    /\ postings = [s \in Sales |-> 0]
    /\ attemptsLeft = [s \in Sales |-> 0]
    /\ openRow = [s \in Sales |-> "none"]
    /\ resolved = [s \in Sales |-> 0]
    /\ rows = [s \in Sales |-> 0]
    /\ repairs = [s \in Sales |-> 0]
    /\ saleLock = [s \in Sales |-> NoTxn]
    /\ rowLock = [s \in Sales |-> NoTxn]
    /\ txn = [t \in Txns |-> NoTransaction]

Free(lock, s) == lock[s] = NoTxn

Begin(t, o, s, c, st) ==
    /\ txn[t] = NoTransaction
    /\ txn' = [txn EXCEPT ![t] = [op |-> o, sale |-> s, class |-> c, step |-> st]]

GoTo(t, st) == txn' = [txn EXCEPT ![t].step = st]

\* The end of a transaction, COMMIT or ROLLBACK, frees its locks.
End(t) ==
    /\ txn' = [txn EXCEPT ![t] = NoTransaction]
    /\ saleLock' = [s \in Sales |-> IF saleLock[s] = t THEN NoTxn ELSE saleLock[s]]
    /\ rowLock' = [s \in Sales |-> IF rowLock[s] = t THEN NoTxn ELSE rowLock[s]]

-----------------------------------------------------------------------------
(* Capture and the sale-processing job.                                    *)

\* captureSale commits the sale with its sale.captured event, from which the
\* outbox creates the sale's job under a deterministic job id.
CaptureSale(s) ==
    /\ status[s] = "none"
    /\ status' = [status EXCEPT ![s] = "captured"]
    /\ attemptsLeft' = [attemptsLeft EXCEPT ![s] = JobAttempts]
    /\ UNCHANGED <<processed, postings, letterVars, saleLock, rowLock, txn>>

\* Variant of ProcessUpdate: the UPDATE has no processed_at IS NULL guard.
ProcessUpdateUnguarded(t, s) ==
    /\ attemptsLeft[s] > 0
    /\ Free(saleLock, s)
    /\ Begin(t, "process", s, "none", "commit")
    /\ saleLock' = [saleLock EXCEPT ![s] = t]
    /\ UNCHANGED <<saleVars, letterVars, rowLock>>

\* The UPDATE of process(), guarded by processed_at IS NULL.
ProcessUpdate(t, s) ==
    /\ attemptsLeft[s] > 0
    /\ Free(saleLock, s)
    /\ ~processed[s]
    /\ Begin(t, "process", s, "none", "commit")
    /\ saleLock' = [saleLock EXCEPT ![s] = t]
    /\ UNCHANGED <<saleVars, letterVars, rowLock>>

\* The run of a job whose sale is processed already writes nothing and
\* completes the job.
ProcessConverges(s) ==
    /\ attemptsLeft[s] > 0
    /\ Free(saleLock, s)
    /\ processed[s]
    /\ attemptsLeft' = [attemptsLeft EXCEPT ![s] = 0]
    /\ UNCHANGED <<status, processed, postings, letterVars, saleLock, rowLock, txn>>

\* processed_at, sync_status and the posting event commit together.  The job
\* is acknowledged afterwards: it completes, or the worker dies first and the
\* stalled job is delivered again.
ProcessCommit(t) ==
    LET s == txn[t].sale IN
    /\ txn[t].op = "process"
    /\ status' = [status EXCEPT ![s] = "synced"]
    /\ processed' = [processed EXCEPT ![s] = TRUE]
    /\ postings' = [postings EXCEPT ![s] = @ + 1]
    /\ \E left \in {0, attemptsLeft[s]} :
         attemptsLeft' = [attemptsLeft EXCEPT ![s] = left]
    /\ End(t)
    /\ UNCHANGED letterVars

\* The run fails: ROLLBACK, and BullMQ has one delivery less to make.
ProcessFails(t) ==
    LET s == txn[t].sale IN
    /\ txn[t].op = "process"
    /\ attemptsLeft' = [attemptsLeft EXCEPT ![s] = IF @ > 0 THEN @ - 1 ELSE 0]
    /\ End(t)
    /\ UNCHANGED <<status, processed, postings, letterVars>>

-----------------------------------------------------------------------------
(* Quarantine.                                                             *)

SyncFailureConditions ==
    {"auth_invalid", "forbidden", "reconnect_auth_failure",
     "validation_failure", "transient"}

\* The status column of the classifier's table.
FailureStatus(condition) ==
    IF condition = "validation_failure" THEN "failed-needs-repair"
    ELSE "failed-retryable"

classificationForFailureStatus(st) ==
    IF st = "failed-needs-repair" THEN "needs-repair" ELSE "retryable"

classifySyncFailure(condition) ==
    classificationForFailureStatus(FailureStatus(condition))

statusOfClassification(c) ==
    IF c = "needs-repair" THEN "failed-needs-repair" ELSE "failed-retryable"

\* The INSERT ... ON CONFLICT (sale_id) WHERE resolved_at IS NULL DO NOTHING
\* writes a row when the sale has no open one.
InsertDeadletter(t, s, condition) ==
    /\ status[s] # "none"
    /\ Free(rowLock, s)
    /\ openRow[s] = "none"
    /\ rows[s] < MaxRows
    /\ Begin(t, "quarantine", s, classifySyncFailure(condition), "advance")
    /\ rowLock' = [rowLock EXCEPT ![s] = t]
    /\ UNCHANGED <<saleVars, letterVars, saleLock>>

\* An open row exists: whatever the condition, no row and no status change;
\* the first classification stands.
InsertConflicts(s) ==
    /\ status[s] # "none"
    /\ Free(rowLock, s)
    /\ openRow[s] # "none"
    /\ UNCHANGED vars

\* Variant of AdvanceStatus: a synced sale is advanced too.
AdvanceStatusUnguarded(t) ==
    LET s == txn[t].sale IN
    /\ txn[t].step = "advance"
    /\ Free(saleLock, s)
    /\ saleLock' = [saleLock EXCEPT ![s] = t]
    /\ GoTo(t, "commit")
    /\ UNCHANGED <<saleVars, letterVars, rowLock>>

\* advanceStatus: the UPDATE ... WHERE sync_status <> 'synced' locks the sale
\* unless it is synced.
AdvanceStatus(t) ==
    LET s == txn[t].sale IN
    /\ txn[t].step = "advance"
    /\ Free(saleLock, s)
    /\ saleLock' = IF status[s] = "synced" THEN saleLock
                   ELSE [saleLock EXCEPT ![s] = t]
    /\ GoTo(t, "commit")
    /\ UNCHANGED <<saleVars, letterVars, rowLock>>

QuarantineCommit(t) ==
    LET s == txn[t].sale
        c == txn[t].class IN
    /\ txn[t].op = "quarantine"
    /\ txn[t].step = "commit"
    /\ openRow' = [openRow EXCEPT ![s] = c]
    /\ rows' = [rows EXCEPT ![s] = @ + 1]
    /\ status' = IF saleLock[s] = t
                 THEN [status EXCEPT ![s] = statusOfClassification(c)]
                 ELSE status
    /\ End(t)
    /\ UNCHANGED <<processed, postings, attemptsLeft, resolved, repairs>>

-----------------------------------------------------------------------------
(* Repair.                                                                 *)

\* readSaleStatusRow takes no lock; any other status is a 409 without effect.
RepairRead(t, s) ==
    /\ status[s] = "failed-needs-repair"
    /\ Begin(t, "repair", s, "none", "resolve")
    /\ UNCHANGED <<saleVars, letterVars, saleLock, rowLock>>

\* Variant of RepairResolve: no resolved_at IS NULL in the UPDATE.
RepairResolveAgain(t) ==
    LET s == txn[t].sale IN
    /\ txn[t].step = "resolve"
    /\ Free(rowLock, s)
    /\ openRow[s] = "needs-repair" \/ resolved[s] > 0
    /\ rowLock' = [rowLock EXCEPT ![s] = t]
    /\ GoTo(t, "requeue")
    /\ UNCHANGED <<saleVars, letterVars, saleLock>>

\* The UPDATE of the open needs-repair row.
RepairResolve(t) ==
    LET s == txn[t].sale IN
    /\ txn[t].step = "resolve"
    /\ Free(rowLock, s)
    /\ openRow[s] = "needs-repair"
    /\ rowLock' = [rowLock EXCEPT ![s] = t]
    /\ GoTo(t, "requeue")
    /\ UNCHANGED <<saleVars, letterVars, saleLock>>

\* It matched no row: RepairConflictError.
RepairConflicts(t) ==
    LET s == txn[t].sale IN
    /\ txn[t].step = "resolve"
    /\ Free(rowLock, s)
    /\ openRow[s] # "needs-repair"
    /\ End(t)
    /\ UNCHANGED <<saleVars, letterVars>>

\* UPDATE sales ... WHERE id = $1, whatever the status is by now.
RepairRequeue(t) ==
    LET s == txn[t].sale IN
    /\ txn[t].step = "requeue"
    /\ Free(saleLock, s)
    /\ saleLock' = [saleLock EXCEPT ![s] = t]
    /\ GoTo(t, "commit")
    /\ UNCHANGED <<saleVars, letterVars, rowLock>>

RepairCommit(t) ==
    LET s == txn[t].sale IN
    /\ txn[t].op = "repair"
    /\ txn[t].step = "commit"
    /\ openRow' = [openRow EXCEPT ![s] = "none"]
    /\ resolved' = [resolved EXCEPT ![s] = @ + 1]
    /\ repairs' = [repairs EXCEPT ![s] = @ + 1]
    /\ status' = [status EXCEPT ![s] = "failed-retryable"]
    /\ End(t)
    /\ UNCHANGED <<processed, postings, attemptsLeft, rows>>

\* A quarantine or repair fails on a statement or at its commit.
Abort(t) ==
    /\ txn[t].op \in {"quarantine", "repair"}
    /\ End(t)
    /\ UNCHANGED <<saleVars, letterVars>>

-----------------------------------------------------------------------------
Process(t) ==
    ProcessCommit(t) \/ \E s \in Sales : ProcessUpdate(t, s)

Quarantine(t) ==
    \/ \E s \in Sales, condition \in SyncFailureConditions :
         InsertDeadletter(t, s, condition)
    \/ AdvanceStatus(t)
    \/ QuarantineCommit(t)

Repair(t) ==
    \/ \E s \in Sales : RepairRead(t, s)
    \/ RepairResolve(t)
    \/ RepairConflicts(t)
    \/ RepairRequeue(t)
    \/ RepairCommit(t)

Next ==
    \/ \E s \in Sales :
        \/ CaptureSale(s)
        \/ ProcessConverges(s)
        \/ InsertConflicts(s)
    \/ \E t \in Txns :
        Process(t) \/ ProcessFails(t) \/ Quarantine(t) \/ Repair(t) \/ Abort(t)

Spec == Init /\ [][Next]_vars

-----------------------------------------------------------------------------
(* Properties.                                                             *)

\* Every variable has its type.
TypeOK ==
    /\ status \in [Sales -> Statuses \cup {"none"}]
    /\ processed \in [Sales -> BOOLEAN]
    /\ postings \in [Sales -> Nat]
    /\ attemptsLeft \in [Sales -> 0..JobAttempts]
    /\ openRow \in [Sales -> Classifications \cup {"none"}]
    /\ resolved \in [Sales -> Nat]
    /\ rows \in [Sales -> 0..MaxRows]
    /\ repairs \in [Sales -> Nat]
    /\ saleLock \in [Sales -> Txns \cup {NoTxn}]
    /\ rowLock \in [Sales -> Txns \cup {NoTxn}]
    /\ txn \in [Txns -> Transactions]

\* However often a job is delivered and however its runs overlap, a sale asks
\* for one ERPNext posting, exactly when it is processed; and a sale that
\* reads synced is processed.
PostedOnce ==
    \A s \in Sales :
        /\ postings[s] = IF processed[s] THEN 1 ELSE 0
        /\ status[s] = "synced" => processed[s]

\* The producer's comment on advanceStatus: a re-delivery must not "drift
\* status away from the open row's recorded classification".  A sale with an
\* open row reads as that row says unless a job has synced it, and a sale
\* that reads needs-repair has the open row that its repair needs.
StatusMatchesOpenRow ==
    \A s \in Sales :
        /\ openRow[s] # "none" =>
             status[s] \in {"synced", statusOfClassification(openRow[s])}
        /\ status[s] = "failed-needs-repair" => openRow[s] = "needs-repair"

\* Rows are never lost, and of two concurrent repairs only one resolves a
\* row: each row written is open or resolved, by exactly one repair.
EveryRowAccounted ==
    \A s \in Sales :
        /\ rows[s] = resolved[s] + (IF openRow[s] = "none" THEN 0 ELSE 1)
        /\ repairs[s] = resolved[s]

\* A quarantine never clobbers a sale that a concurrent job has synced, and
\* only a quarantine makes a sale need repair.
QuarantineNeverClobbers ==
    [][\A s \in Sales :
         /\ rows'[s] > rows[s] /\ status[s] = "synced" => status'[s] = "synced"
         /\ status'[s] = "failed-needs-repair" /\ status[s] # "failed-needs-repair"
              => rows'[s] > rows[s]]_vars

\* Whoever holds a lock on the sales row waits for nothing any more, and the
\* open row is locked by a transaction on that sale past its first statement:
\* the transactions of a sale cannot deadlock.
LockOrder ==
    \A s \in Sales :
        /\ saleLock[s] # NoTxn =>
             txn[saleLock[s]].sale = s /\ txn[saleLock[s]].step = "commit"
        /\ rowLock[s] # NoTxn =>
             /\ txn[rowLock[s]].sale = s
             /\ txn[rowLock[s]].op \in {"quarantine", "repair"}
             /\ txn[rowLock[s]].step \in {"advance", "requeue", "commit"}

\* What a transaction has locked and read when it is at a step.
TxnShape ==
    \A t \in Txns :
        LET s == txn[t].sale IN
        /\ txn[t].op = "none" => txn[t] = NoTransaction
        /\ txn[t].op = "process" =>
             /\ txn[t].step = "commit"
             /\ saleLock[s] = t
             /\ ~processed[s]
        /\ txn[t].op = "quarantine" =>
             /\ txn[t].class \in Classifications
             /\ txn[t].step \in {"advance", "commit"}
             /\ rowLock[s] = t
             /\ openRow[s] = "none"
             /\ rows[s] < MaxRows
             /\ txn[t].step = "commit" =>
                  (saleLock[s] # t <=> status[s] = "synced")
        /\ txn[t].op = "repair" =>
             /\ txn[t].step \in {"resolve", "requeue", "commit"}
             /\ txn[t].step # "resolve" => rowLock[s] = t /\ openRow[s] = "needs-repair"
             /\ txn[t].step = "commit" => saleLock[s] = t
        /\ txn[t].op # "none" => status[s] # "none"

\* A job exists only for a captured sale.
JobHasSale == \A s \in Sales : attemptsLeft[s] > 0 => status[s] # "none"

\* The inductive invariant of the safety proofs.
SyncInvariant ==
    /\ TypeOK
    /\ PostedOnce
    /\ StatusMatchesOpenRow
    /\ EveryRowAccounted
    /\ LockOrder
    /\ TxnShape
    /\ JobHasSale
=============================================================================
