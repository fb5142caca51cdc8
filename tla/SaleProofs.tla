----------------------------- MODULE SaleProofs -----------------------------
(***************************************************************************)
(* Proofs that the safety properties of SaleSync and SaleCapture hold for  *)
(* every number of sales, tills, receipts, transactions, job attempts and  *)
(* deadletter rows.  SyncInvariant adds to the properties what a           *)
(* transaction has locked and read at each step (TxnShape): the guards     *)
(* that the code evaluates in one statement and relies on in a later one.  *)
(* CaptureInvariant does the same for the tills' requests; the tills'      *)
(* system implements SaleSync.                                             *)
(***************************************************************************)
EXTENDS SaleCapture, FiniteSetTheorems, TLAPS

(* One lemma per action: it preserves the invariant, conjunct by conjunct.  *)

\* A capture starts a sale without rows, locks or postings.
LEMMA CaptureSaleKeeps ==
    ASSUME SyncInvariant, NEW s \in Sales, CaptureSale(s)
    PROVE  SyncInvariant'
<1> USE SyncAssumption DEF SyncInvariant, TypeOK, Transactions,
       NoTransaction, Statuses, Classifications, Steps
<1>1. TypeOK'
  BY DEF CaptureSale, saleVars, letterVars
<1>2. PostedOnce'
  BY DEF CaptureSale, saleVars, letterVars, PostedOnce, TxnShape
<1>3. StatusMatchesOpenRow'
  BY DEF CaptureSale, saleVars, letterVars, StatusMatchesOpenRow, TxnShape,
         LockOrder, statusOfClassification
<1>4. EveryRowAccounted'
  BY DEF CaptureSale, saleVars, letterVars, EveryRowAccounted, TxnShape
<1>5. LockOrder'
  BY DEF CaptureSale, saleVars, letterVars, LockOrder, TxnShape
<1>6. TxnShape'
  BY DEF CaptureSale, saleVars, letterVars, TxnShape, JobHasSale,
         LockOrder, StatusMatchesOpenRow, statusOfClassification
<1>7. JobHasSale'
  BY DEF CaptureSale, saleVars, letterVars, JobHasSale, TxnShape
<1>8. QED BY <1>1, <1>2, <1>3, <1>4, <1>5, <1>6, <1>7

\* A repeated job run only completes its job.
LEMMA ProcessConvergesKeeps ==
    ASSUME SyncInvariant, NEW s \in Sales, ProcessConverges(s)
    PROVE  SyncInvariant'
<1> USE SyncAssumption DEF SyncInvariant, TypeOK, Transactions,
       NoTransaction, Statuses, Classifications, Steps
<1>1. TypeOK'
  BY DEF ProcessConverges, Free, letterVars
<1>2. PostedOnce'
  BY DEF ProcessConverges, Free, letterVars, PostedOnce, TxnShape
<1>3. StatusMatchesOpenRow'
  BY DEF ProcessConverges, Free, letterVars, StatusMatchesOpenRow,
         TxnShape, LockOrder, statusOfClassification
<1>4. EveryRowAccounted'
  BY DEF ProcessConverges, Free, letterVars, EveryRowAccounted, TxnShape
<1>5. LockOrder'
  BY DEF ProcessConverges, Free, letterVars, LockOrder, TxnShape
<1>6. TxnShape'
  BY DEF ProcessConverges, Free, letterVars, TxnShape, JobHasSale,
         LockOrder, StatusMatchesOpenRow, statusOfClassification
<1>7. JobHasSale'
  BY DEF ProcessConverges, Free, letterVars, JobHasSale, TxnShape
<1>8. QED BY <1>1, <1>2, <1>3, <1>4, <1>5, <1>6, <1>7

\* A quarantine that meets an open row writes no row and no status.
LEMMA InsertConflictsKeeps ==
    ASSUME SyncInvariant, NEW s \in Sales, InsertConflicts(s)
    PROVE  SyncInvariant'
BY DEF InsertConflicts, vars, saleVars, letterVars, SyncInvariant, TypeOK,
       PostedOnce, StatusMatchesOpenRow, EveryRowAccounted, LockOrder,
       TxnShape, JobHasSale

\* The guarded UPDATE locks a sale that nobody else has locked.
LEMMA ProcessUpdateKeeps ==
    ASSUME SyncInvariant, NEW t \in Txns, NEW s \in Sales, ProcessUpdate(t, s)
    PROVE  SyncInvariant'
<1> USE SyncAssumption DEF SyncInvariant, TypeOK, Transactions,
       NoTransaction, Statuses, Classifications, Steps
<1>1. TypeOK'
  BY DEF ProcessUpdate, Begin, Free, saleVars, letterVars
<1>2. PostedOnce'
  BY DEF ProcessUpdate, Begin, Free, saleVars, letterVars, PostedOnce,
         TxnShape
<1>3. StatusMatchesOpenRow'
  BY DEF ProcessUpdate, Begin, Free, saleVars, letterVars,
         StatusMatchesOpenRow, TxnShape, LockOrder, statusOfClassification
<1>4. EveryRowAccounted'
  BY DEF ProcessUpdate, Begin, Free, saleVars, letterVars,
         EveryRowAccounted, TxnShape
<1>5. LockOrder'
  BY DEF ProcessUpdate, Begin, Free, saleVars, letterVars, LockOrder,
         TxnShape
<1>6. TxnShape'
  BY DEF ProcessUpdate, Begin, Free, saleVars, letterVars, TxnShape,
         JobHasSale, LockOrder, StatusMatchesOpenRow,
         statusOfClassification
<1>7. JobHasSale'
  BY DEF ProcessUpdate, Begin, Free, saleVars, letterVars, JobHasSale,
         TxnShape
<1>8. QED BY <1>1, <1>2, <1>3, <1>4, <1>5, <1>6, <1>7

\* The first commit of a job asks for the one posting.
LEMMA ProcessCommitKeeps ==
    ASSUME SyncInvariant, NEW t \in Txns, ProcessCommit(t)
    PROVE  SyncInvariant'
<1> USE SyncAssumption DEF SyncInvariant, TypeOK, Transactions,
       NoTransaction, Statuses, Classifications, Steps
<1>1. TypeOK'
  BY DEF ProcessCommit, End, letterVars, TxnShape
<1>2. PostedOnce'
  BY DEF ProcessCommit, End, letterVars, PostedOnce, TxnShape
<1>3. StatusMatchesOpenRow'
  BY DEF ProcessCommit, End, letterVars, StatusMatchesOpenRow, TxnShape,
         LockOrder, statusOfClassification
<1>4. EveryRowAccounted'
  BY DEF ProcessCommit, End, letterVars, EveryRowAccounted, TxnShape
<1>5. LockOrder'
  BY DEF ProcessCommit, End, letterVars, LockOrder, TxnShape
<1>6. TxnShape'
  BY DEF ProcessCommit, End, letterVars, TxnShape, JobHasSale, LockOrder,
         StatusMatchesOpenRow, statusOfClassification
<1>7. JobHasSale'
  BY DEF ProcessCommit, End, letterVars, JobHasSale, TxnShape
<1>8. QED BY <1>1, <1>2, <1>3, <1>4, <1>5, <1>6, <1>7

\* A failed run leaves the sale as it was.
LEMMA ProcessFailsKeeps ==
    ASSUME SyncInvariant, NEW t \in Txns, ProcessFails(t)
    PROVE  SyncInvariant'
<1> USE SyncAssumption DEF SyncInvariant, TypeOK, Transactions,
       NoTransaction, Statuses, Classifications, Steps
<1>1. TypeOK'
  BY DEF ProcessFails, End, letterVars, TxnShape
<1>2. PostedOnce'
  BY DEF ProcessFails, End, letterVars, PostedOnce, TxnShape
<1>3. StatusMatchesOpenRow'
  BY DEF ProcessFails, End, letterVars, StatusMatchesOpenRow, TxnShape,
         LockOrder, statusOfClassification
<1>4. EveryRowAccounted'
  BY DEF ProcessFails, End, letterVars, EveryRowAccounted, TxnShape
<1>5. LockOrder'
  BY DEF ProcessFails, End, letterVars, LockOrder, TxnShape
<1>6. TxnShape'
  BY DEF ProcessFails, End, letterVars, TxnShape, JobHasSale, LockOrder,
         StatusMatchesOpenRow, statusOfClassification
<1>7. JobHasSale'
  BY DEF ProcessFails, End, letterVars, JobHasSale, TxnShape
<1>8. QED BY <1>1, <1>2, <1>3, <1>4, <1>5, <1>6, <1>7

\* The INSERT takes the free slot of the open row.
LEMMA InsertDeadletterKeeps ==
    ASSUME SyncInvariant, NEW t \in Txns, NEW s \in Sales, NEW condition \in SyncFailureConditions, InsertDeadletter(t, s, condition)
    PROVE  SyncInvariant'
<1> USE SyncAssumption DEF SyncInvariant, TypeOK, Transactions,
       NoTransaction, Statuses, Classifications, Steps
<1>1. TypeOK'
  BY DEF InsertDeadletter, Begin, Free, saleVars, letterVars,
         classifySyncFailure, classificationForFailureStatus
<1>2. PostedOnce'
  BY DEF InsertDeadletter, Begin, Free, saleVars, letterVars, PostedOnce,
         TxnShape, classifySyncFailure, classificationForFailureStatus
<1>3. StatusMatchesOpenRow'
  BY DEF InsertDeadletter, Begin, Free, saleVars, letterVars,
         StatusMatchesOpenRow, TxnShape, LockOrder, statusOfClassification,
         classifySyncFailure, classificationForFailureStatus
<1>4. EveryRowAccounted'
  BY DEF InsertDeadletter, Begin, Free, saleVars, letterVars,
         EveryRowAccounted, TxnShape, classifySyncFailure,
         classificationForFailureStatus
<1>5. LockOrder'
  BY DEF InsertDeadletter, Begin, Free, saleVars, letterVars, LockOrder,
         TxnShape, classifySyncFailure, classificationForFailureStatus
<1>6. TxnShape'
  BY DEF InsertDeadletter, Begin, Free, saleVars, letterVars, TxnShape,
         JobHasSale, LockOrder, StatusMatchesOpenRow,
         statusOfClassification, classifySyncFailure,
         classificationForFailureStatus
<1>7. JobHasSale'
  BY DEF InsertDeadletter, Begin, Free, saleVars, letterVars, JobHasSale,
         TxnShape, classifySyncFailure, classificationForFailureStatus
<1>8. QED BY <1>1, <1>2, <1>3, <1>4, <1>5, <1>6, <1>7

\* The status UPDATE locks the sale exactly when it is not synced.
LEMMA AdvanceStatusKeeps ==
    ASSUME SyncInvariant, NEW t \in Txns, AdvanceStatus(t)
    PROVE  SyncInvariant'
<1> USE SyncAssumption DEF SyncInvariant, TypeOK, Transactions,
       NoTransaction, Statuses, Classifications, Steps
<1>1. TypeOK'
  BY DEF AdvanceStatus, GoTo, Free, saleVars, letterVars, TxnShape
<1>2. PostedOnce'
  BY DEF AdvanceStatus, GoTo, Free, saleVars, letterVars, PostedOnce,
         TxnShape
<1>3. StatusMatchesOpenRow'
  BY DEF AdvanceStatus, GoTo, Free, saleVars, letterVars,
         StatusMatchesOpenRow, TxnShape, LockOrder, statusOfClassification
<1>4. EveryRowAccounted'
  BY DEF AdvanceStatus, GoTo, Free, saleVars, letterVars,
         EveryRowAccounted, TxnShape
<1>5. LockOrder'
  BY DEF AdvanceStatus, GoTo, Free, saleVars, letterVars, LockOrder,
         TxnShape
<1>6. TxnShape'
  BY DEF AdvanceStatus, GoTo, Free, saleVars, letterVars, TxnShape,
         JobHasSale, LockOrder, StatusMatchesOpenRow,
         statusOfClassification
<1>7. JobHasSale'
  BY DEF AdvanceStatus, GoTo, Free, saleVars, letterVars, JobHasSale,
         TxnShape
<1>8. QED BY <1>1, <1>2, <1>3, <1>4, <1>5, <1>6, <1>7

\* The new row and the status it stands for commit together.
LEMMA QuarantineCommitKeeps ==
    ASSUME SyncInvariant, NEW t \in Txns, QuarantineCommit(t)
    PROVE  SyncInvariant'
<1> USE SyncAssumption DEF SyncInvariant, TypeOK, Transactions,
       NoTransaction, Statuses, Classifications, Steps
<1>1. TypeOK'
  BY DEF QuarantineCommit, End, statusOfClassification, TxnShape
<1>2. PostedOnce'
  BY DEF QuarantineCommit, End, PostedOnce, TxnShape,
         statusOfClassification
<1>3. StatusMatchesOpenRow'
  BY DEF QuarantineCommit, End, StatusMatchesOpenRow, TxnShape, LockOrder,
         statusOfClassification
<1>4. EveryRowAccounted'
  BY DEF QuarantineCommit, End, EveryRowAccounted, TxnShape,
         statusOfClassification
<1>5. LockOrder'
  BY DEF QuarantineCommit, End, LockOrder, TxnShape, statusOfClassification
<1>6. TxnShape'
  BY DEF QuarantineCommit, End, TxnShape, JobHasSale, LockOrder,
         StatusMatchesOpenRow, statusOfClassification
<1>7. JobHasSale'
  BY DEF QuarantineCommit, End, JobHasSale, TxnShape,
         statusOfClassification
<1>8. QED BY <1>1, <1>2, <1>3, <1>4, <1>5, <1>6, <1>7

\* The unlocked read of the status fixes nothing yet.
LEMMA RepairReadKeeps ==
    ASSUME SyncInvariant, NEW t \in Txns, NEW s \in Sales, RepairRead(t, s)
    PROVE  SyncInvariant'
<1> USE SyncAssumption DEF SyncInvariant, TypeOK, Transactions,
       NoTransaction, Statuses, Classifications, Steps
<1>1. TypeOK'
  BY DEF RepairRead, Begin, saleVars, letterVars
<1>2. PostedOnce'
  BY DEF RepairRead, Begin, saleVars, letterVars, PostedOnce, TxnShape
<1>3. StatusMatchesOpenRow'
  BY DEF RepairRead, Begin, saleVars, letterVars, StatusMatchesOpenRow,
         TxnShape, LockOrder, statusOfClassification
<1>4. EveryRowAccounted'
  BY DEF RepairRead, Begin, saleVars, letterVars, EveryRowAccounted,
         TxnShape
<1>5. LockOrder'
  BY DEF RepairRead, Begin, saleVars, letterVars, LockOrder, TxnShape
<1>6. TxnShape'
  BY DEF RepairRead, Begin, saleVars, letterVars, TxnShape, JobHasSale,
         LockOrder, StatusMatchesOpenRow, statusOfClassification
<1>7. JobHasSale'
  BY DEF RepairRead, Begin, saleVars, letterVars, JobHasSale, TxnShape
<1>8. QED BY <1>1, <1>2, <1>3, <1>4, <1>5, <1>6, <1>7

\* The UPDATE of the open row locks a needs-repair row.
LEMMA RepairResolveKeeps ==
    ASSUME SyncInvariant, NEW t \in Txns, RepairResolve(t)
    PROVE  SyncInvariant'
<1> USE SyncAssumption DEF SyncInvariant, TypeOK, Transactions,
       NoTransaction, Statuses, Classifications, Steps
<1>1. TypeOK'
  BY DEF RepairResolve, GoTo, Free, saleVars, letterVars, TxnShape
<1>2. PostedOnce'
  BY DEF RepairResolve, GoTo, Free, saleVars, letterVars, PostedOnce,
         TxnShape
<1>3. StatusMatchesOpenRow'
  BY DEF RepairResolve, GoTo, Free, saleVars, letterVars,
         StatusMatchesOpenRow, TxnShape, LockOrder, statusOfClassification
<1>4. EveryRowAccounted'
  BY DEF RepairResolve, GoTo, Free, saleVars, letterVars,
         EveryRowAccounted, TxnShape
<1>5. LockOrder'
  BY DEF RepairResolve, GoTo, Free, saleVars, letterVars, LockOrder,
         TxnShape
<1>6. TxnShape'
  BY DEF RepairResolve, GoTo, Free, saleVars, letterVars, TxnShape,
         JobHasSale, LockOrder, StatusMatchesOpenRow,
         statusOfClassification
<1>7. JobHasSale'
  BY DEF RepairResolve, GoTo, Free, saleVars, letterVars, JobHasSale,
         TxnShape
<1>8. QED BY <1>1, <1>2, <1>3, <1>4, <1>5, <1>6, <1>7

\* A repair that finds no open row ends without effect.
LEMMA RepairConflictsKeeps ==
    ASSUME SyncInvariant, NEW t \in Txns, RepairConflicts(t)
    PROVE  SyncInvariant'
<1> USE SyncAssumption DEF SyncInvariant, TypeOK, Transactions,
       NoTransaction, Statuses, Classifications, Steps
<1>1. TypeOK'
  BY DEF RepairConflicts, End, Free, saleVars, letterVars
<1>2. PostedOnce'
  BY DEF RepairConflicts, End, Free, saleVars, letterVars, PostedOnce,
         TxnShape
<1>3. StatusMatchesOpenRow'
  BY DEF RepairConflicts, End, Free, saleVars, letterVars,
         StatusMatchesOpenRow, TxnShape, LockOrder, statusOfClassification
<1>4. EveryRowAccounted'
  BY DEF RepairConflicts, End, Free, saleVars, letterVars,
         EveryRowAccounted, TxnShape
<1>5. LockOrder'
  BY DEF RepairConflicts, End, Free, saleVars, letterVars, LockOrder,
         TxnShape
<1>6. TxnShape'
  BY DEF RepairConflicts, End, Free, saleVars, letterVars, TxnShape,
         JobHasSale, LockOrder, StatusMatchesOpenRow,
         statusOfClassification
<1>7. JobHasSale'
  BY DEF RepairConflicts, End, Free, saleVars, letterVars, JobHasSale,
         TxnShape
<1>8. QED BY <1>1, <1>2, <1>3, <1>4, <1>5, <1>6, <1>7

\* The sales UPDATE comes last in the lock order.
LEMMA RepairRequeueKeeps ==
    ASSUME SyncInvariant, NEW t \in Txns, RepairRequeue(t)
    PROVE  SyncInvariant'
<1> USE SyncAssumption DEF SyncInvariant, TypeOK, Transactions,
       NoTransaction, Statuses, Classifications, Steps
<1>1. TypeOK'
  BY DEF RepairRequeue, GoTo, Free, saleVars, letterVars, TxnShape
<1>2. PostedOnce'
  BY DEF RepairRequeue, GoTo, Free, saleVars, letterVars, PostedOnce,
         TxnShape
<1>3. StatusMatchesOpenRow'
  BY DEF RepairRequeue, GoTo, Free, saleVars, letterVars,
         StatusMatchesOpenRow, TxnShape, LockOrder, statusOfClassification
<1>4. EveryRowAccounted'
  BY DEF RepairRequeue, GoTo, Free, saleVars, letterVars,
         EveryRowAccounted, TxnShape
<1>5. LockOrder'
  BY DEF RepairRequeue, GoTo, Free, saleVars, letterVars, LockOrder,
         TxnShape
<1>6. TxnShape'
  BY DEF RepairRequeue, GoTo, Free, saleVars, letterVars, TxnShape,
         JobHasSale, LockOrder, StatusMatchesOpenRow,
         statusOfClassification
<1>7. JobHasSale'
  BY DEF RepairRequeue, GoTo, Free, saleVars, letterVars, JobHasSale,
         TxnShape
<1>8. QED BY <1>1, <1>2, <1>3, <1>4, <1>5, <1>6, <1>7

\* The row is resolved and the status moved together.
LEMMA RepairCommitKeeps ==
    ASSUME SyncInvariant, NEW t \in Txns, RepairCommit(t)
    PROVE  SyncInvariant'
<1> USE SyncAssumption DEF SyncInvariant, TypeOK, Transactions,
       NoTransaction, Statuses, Classifications, Steps
<1>1. TypeOK'
  BY DEF RepairCommit, End, TxnShape
<1>2. PostedOnce'
  BY DEF RepairCommit, End, PostedOnce, TxnShape
<1>3. StatusMatchesOpenRow'
  BY DEF RepairCommit, End, StatusMatchesOpenRow, TxnShape, LockOrder,
         statusOfClassification
<1>4. EveryRowAccounted'
  BY DEF RepairCommit, End, EveryRowAccounted, TxnShape
<1>5. LockOrder'
  BY DEF RepairCommit, End, LockOrder, TxnShape
<1>6. TxnShape'
  BY DEF RepairCommit, End, TxnShape, JobHasSale, LockOrder,
         StatusMatchesOpenRow, statusOfClassification
<1>7. JobHasSale'
  BY DEF RepairCommit, End, JobHasSale, TxnShape
<1>8. QED BY <1>1, <1>2, <1>3, <1>4, <1>5, <1>6, <1>7

\* A rollback frees the locks and publishes nothing.
LEMMA AbortKeeps ==
    ASSUME SyncInvariant, NEW t \in Txns, Abort(t)
    PROVE  SyncInvariant'
<1> USE SyncAssumption DEF SyncInvariant, TypeOK, Transactions,
       NoTransaction, Statuses, Classifications, Steps
<1>1. TypeOK'
  BY DEF Abort, End, saleVars, letterVars
<1>2. PostedOnce'
  BY DEF Abort, End, saleVars, letterVars, PostedOnce, TxnShape
<1>3. StatusMatchesOpenRow'
  BY DEF Abort, End, saleVars, letterVars, StatusMatchesOpenRow, TxnShape,
         LockOrder, statusOfClassification
<1>4. EveryRowAccounted'
  BY DEF Abort, End, saleVars, letterVars, EveryRowAccounted, TxnShape
<1>5. LockOrder'
  BY DEF Abort, End, saleVars, letterVars, LockOrder, TxnShape
<1>6. TxnShape'
  BY DEF Abort, End, saleVars, letterVars, TxnShape, JobHasSale, LockOrder,
         StatusMatchesOpenRow, statusOfClassification
<1>7. JobHasSale'
  BY DEF Abort, End, saleVars, letterVars, JobHasSale, TxnShape
<1>8. QED BY <1>1, <1>2, <1>3, <1>4, <1>5, <1>6, <1>7
(* The initial states and the next-state relation.                         *)

\* The invariant holds initially.
LEMMA InitSync == Init => SyncInvariant
<1> SUFFICES ASSUME Init PROVE SyncInvariant
  OBVIOUS
<1> USE SyncAssumption DEF Init
<1>1. TypeOK
  BY DEF TypeOK, Transactions, NoTransaction, Statuses, Classifications
<1>2. PostedOnce /\ StatusMatchesOpenRow /\ EveryRowAccounted /\ JobHasSale
  BY DEF PostedOnce, StatusMatchesOpenRow, EveryRowAccounted, JobHasSale
<1>3. LockOrder /\ TxnShape
  BY DEF LockOrder, TxnShape, NoTransaction
<1>4. QED BY <1>1, <1>2, <1>3 DEF SyncInvariant

\* A stuttering step keeps it.
LEMMA StutterSync == SyncInvariant /\ UNCHANGED vars => SyncInvariant'
  BY DEF SyncInvariant, TypeOK, PostedOnce, StatusMatchesOpenRow,
         EveryRowAccounted, LockOrder, TxnShape, JobHasSale, vars, saleVars,
         letterVars

\* Every step keeps it.
LEMMA NextSync == SyncInvariant /\ [Next]_vars => SyncInvariant'
<1> SUFFICES ASSUME SyncInvariant, [Next]_vars PROVE SyncInvariant'
  OBVIOUS
<1>1. CASE UNCHANGED vars
  BY <1>1, StutterSync
<1>2. ASSUME NEW s \in Sales,
             \/ CaptureSale(s)
             \/ ProcessConverges(s)
             \/ InsertConflicts(s)
      PROVE  SyncInvariant'
  BY <1>2, CaptureSaleKeeps, ProcessConvergesKeeps, InsertConflictsKeeps
<1>3. ASSUME NEW t \in Txns, Process(t) \/ ProcessFails(t)
      PROVE  SyncInvariant'
  BY <1>3, ProcessCommitKeeps, ProcessUpdateKeeps, ProcessFailsKeeps DEF Process
<1>4. ASSUME NEW t \in Txns, Quarantine(t)
      PROVE  SyncInvariant'
  BY <1>4, InsertDeadletterKeeps, AdvanceStatusKeeps, QuarantineCommitKeeps
     DEF Quarantine
<1>5. ASSUME NEW t \in Txns, Repair(t)
      PROVE  SyncInvariant'
  BY <1>5, RepairReadKeeps, RepairResolveKeeps, RepairConflictsKeeps,
     RepairRequeueKeeps, RepairCommitKeeps DEF Repair
<1>6. ASSUME NEW t \in Txns, Abort(t)
      PROVE  SyncInvariant'
  BY <1>6, AbortKeeps
<1>7. QED BY <1>1, <1>2, <1>3, <1>4, <1>5, <1>6 DEF Next

(* The theorems.                                                           *)

\* The inductive invariant holds in every reachable state.
THEOREM SyncInvariantHolds == Spec => []SyncInvariant
<1>1. Init => SyncInvariant
  BY InitSync
<1>2. SyncInvariant /\ [Next]_vars => SyncInvariant'
  BY NextSync
<1>3. QED BY <1>1, <1>2, PTL DEF Spec

\* Overlapping and repeated runs of a job ask for exactly one posting.
THEOREM PostedOnceAlways == Spec => []PostedOnce
<1>1. SyncInvariant => PostedOnce
  BY DEF SyncInvariant
<1>2. QED BY <1>1, SyncInvariantHolds, PTL

\* A sale reads as its open deadletter row says, or synced; a sale that reads
\* needs-repair has the row that its repair resolves.
THEOREM StatusMatches == Spec => []StatusMatchesOpenRow
<1>1. SyncInvariant => StatusMatchesOpenRow
  BY DEF SyncInvariant
<1>2. QED BY <1>1, SyncInvariantHolds, PTL

\* No deadletter row is lost and none is resolved twice.
THEOREM RowsAccounted == Spec => []EveryRowAccounted
<1>1. SyncInvariant => EveryRowAccounted
  BY DEF SyncInvariant
<1>2. QED BY <1>1, SyncInvariantHolds, PTL

\* The transactions on a sale take their locks in one order.
THEOREM NoLockCycle == Spec => []LockOrder
<1>1. SyncInvariant => LockOrder
  BY DEF SyncInvariant
<1>2. QED BY <1>1, SyncInvariantHolds, PTL

\* One step of the action property.
LEMMA NeverClobbersStep ==
    ASSUME SyncInvariant, [Next]_vars, NEW s \in Sales
    PROVE  /\ rows'[s] > rows[s] /\ status[s] = "synced" => status'[s] = "synced"
           /\ status'[s] = "failed-needs-repair" /\ status[s] # "failed-needs-repair"
                => rows'[s] > rows[s]
<1> DEFINE Goal ==
      /\ rows'[s] > rows[s] /\ status[s] = "synced" => status'[s] = "synced"
      /\ status'[s] = "failed-needs-repair" /\ status[s] # "failed-needs-repair"
           => rows'[s] > rows[s]
<1> SUFFICES Goal
  OBVIOUS
<1> USE SyncAssumption DEF SyncInvariant, TypeOK
<1>1. CASE UNCHANGED <<rows, status>>
  BY <1>1
<1>2. CASE \E u \in Sales : CaptureSale(u)
  BY <1>2 DEF CaptureSale, letterVars
<1>3. CASE \E t \in Txns : ProcessCommit(t)
  BY <1>3 DEF ProcessCommit, letterVars, TxnShape, Transactions, NoTransaction
<1>4. CASE \E t \in Txns : QuarantineCommit(t)
  BY <1>4 DEF QuarantineCommit, TxnShape, Transactions, NoTransaction,
              statusOfClassification, Classifications
<1>5. CASE \E t \in Txns : RepairCommit(t)
  BY <1>5 DEF RepairCommit, TxnShape, Transactions, NoTransaction
<1>6. QED
  BY <1>1, <1>2, <1>3, <1>4, <1>5
     DEF Next, vars, saleVars, letterVars, ProcessConverges, InsertConflicts,
         Process, ProcessUpdate, ProcessFails, Quarantine, InsertDeadletter,
         AdvanceStatus, Repair, RepairRead, RepairResolve, RepairConflicts,
         RepairRequeue, Abort

\* A quarantine never overwrites synced, and nothing else asks for repair.
THEOREM NeverClobbers == Spec => QuarantineNeverClobbers
<1>1. SyncInvariant /\ [Next]_vars
        => [\A s \in Sales :
              /\ rows'[s] > rows[s] /\ status[s] = "synced" => status'[s] = "synced"
              /\ status'[s] = "failed-needs-repair" /\ status[s] # "failed-needs-repair"
                   => rows'[s] > rows[s]]_vars
  BY NeverClobbersStep
<1>2. QED BY <1>1, SyncInvariantHolds, PTL DEF Spec, QuarantineNeverClobbers

-----------------------------------------------------------------------------
(* The tills.  SaleCapture does to a sale's sync status what SaleSync       *)
(* allows, so all of the above carries over; the rest is about the rows     *)
(* that the unique indexes keep apart.                                      *)

\* A set whose members are equal has at most one.
LEMMA AtMostOneMember ==
    ASSUME NEW S, \A x, y \in S : x = y
    PROVE  Cardinality(S) = IF S = {} THEN 0 ELSE 1
<1>1. CASE S = {}
  BY <1>1, FS_EmptySet
<1>2. CASE S # {}
  <2>1. PICK x \in S : TRUE
    BY <1>2
  <2>2. S = {x}
    BY <2>1
  <2>3. QED BY <1>2, <2>2, FS_Singleton
<1>3. QED BY <1>1, <1>2

\* The names of the types.
LEMMA CaptureTypes ==
    /\ NoReceipt \notin Receipts /\ NoReceipt.key = "none" /\ NoReceipt.store = "none"
    /\ NoCall \notin Calls /\ NoCall.op = "none" /\ NoCall.ref = "none"
    /\ NoCall.sale = NoSale
    /\ \A r \in Receipts : r.key # "none" /\ r.store # "none"
BY CaptureAssumption DEF NoReceipt, NoCall, Receipts, Calls, TillStores, Kinds

\* The sync neither captures a sale nor forgets one, and leaves the tills alone.
LEMMA SyncKeepsCaptures ==
    ASSUME SyncInvariant, CaptureInvariant, Sync
    PROVE  CaptureInvariant'
<1>1. \A s \in Sales : status'[s] = "none" <=> status[s] = "none"
  <2> USE SyncAssumption DEF SyncInvariant, TypeOK, Transactions, NoTransaction
  <2>1. CASE UNCHANGED status
    BY <2>1
  <2>2. CASE \E t \in Txns : ProcessCommit(t)
    BY <2>2 DEF ProcessCommit, TxnShape
  <2>3. CASE \E t \in Txns : QuarantineCommit(t)
    BY <2>3 DEF QuarantineCommit, TxnShape, statusOfClassification, Classifications
  <2>4. CASE \E t \in Txns : RepairCommit(t)
    BY <2>4 DEF RepairCommit, TxnShape
  <2>5. QED
    BY <2>1, <2>2, <2>3, <2>4
       DEF Sync, vars, saleVars, letterVars, ProcessConverges, InsertConflicts,
           Process, ProcessUpdate, ProcessFails, Quarantine, InsertDeadletter,
           AdvanceStatus, Repair, RepairRead, RepairResolve, RepairConflicts,
           RepairRequeue, Abort
<1>2. UNCHANGED captureVars
  BY DEF Sync
<1>3. QED
  BY <1>1, <1>2
     DEF CaptureInvariant, CaptureTypeOK, CommittedIsCaptured, UniqueRows,
         UncommittedIsNew, ProjectionIsOfKey, AnswersAreTrue, OneReversalPerRow,
         captureVars, Committed

\* A new sale is inserted under a key and an id that nobody else uses.
LEMMA InsertSaleKeeps ==
    ASSUME CaptureInvariant, NEW u \in Tills, NEW k \in Keys, NEW s \in Sales,
           InsertSale(u, k, s)
    PROVE  CaptureInvariant'
<1> USE CaptureTypes, CaptureAssumption DEF CaptureInvariant, CaptureTypeOK
<1>1. CaptureTypeOK'
  BY DEF InsertSale, Request, Calls
<1>2. CommittedIsCaptured' /\ UniqueRows' /\ AnswersAreTrue' /\ OneReversalPerRow'
  BY DEF InsertSale, CommittedIsCaptured, UniqueRows, AnswersAreTrue,
         OneReversalPerRow, Committed, vars, saleVars
<1>3. UncommittedIsNew'
  BY DEF InsertSale, Request, InFlight, UncommittedIsNew, Committed, Kinds
<1>4. ProjectionIsOfKey'
  BY DEF InsertSale, Request, ProjectionIsOfKey
<1>5. QED BY <1>1, <1>2, <1>3, <1>4

\* A key that is taken resolves to its sale.
LEMMA ResolveWinnerKeeps ==
    ASSUME CaptureInvariant, NEW u \in Tills, NEW k \in Keys, ResolveWinner(u, k)
    PROVE  CaptureInvariant'
<1> USE CaptureTypes, CaptureAssumption DEF CaptureInvariant, CaptureTypeOK
<1>1. CaptureTypeOK'
  BY DEF ResolveWinner, Request, Calls
<1>2. CommittedIsCaptured' /\ UniqueRows' /\ AnswersAreTrue' /\ OneReversalPerRow'
  BY DEF ResolveWinner, CommittedIsCaptured, UniqueRows, AnswersAreTrue,
         OneReversalPerRow, Committed, vars, saleVars
<1>3. UncommittedIsNew'
  BY DEF ResolveWinner, Request, UncommittedIsNew, Committed, Kinds
<1>4. ProjectionIsOfKey'
  BY DEF ResolveWinner, Request, ProjectionIsOfKey
<1>5. QED BY <1>1, <1>2, <1>3, <1>4

\* The commit publishes the one receipt of its key.
LEMMA CommitSaleKeeps ==
    ASSUME SyncInvariant, CaptureInvariant, NEW u \in Tills, CommitSale(u)
    PROVE  CaptureInvariant'
<1> USE CaptureTypes, CaptureAssumption DEF CaptureInvariant, CaptureTypeOK
<1> DEFINE s == call[u].sale
           k == call[u].key
<1>1. call[u] \in Calls /\ s \in Sales /\ k \in Keys
  BY DEF CommitSale, Calls
<1>2. /\ receipt' = [receipt EXCEPT ![s] = [key |-> k, store |-> StoreOf[u]]]
      /\ [key |-> k, store |-> StoreOf[u]] \in Receipts
      /\ call' = [call EXCEPT ![u].op = "project"]
      /\ UNCHANGED <<terminals, reversals, requests, answers, told>>
  BY <1>1 DEF CommitSale, Receipts, TillStores
<1>3. /\ ~Committed(s) /\ call[u].created
      /\ \A o \in Sales : receipt[o].key # k
      /\ \A v \in Tills : call[v].op = "capture" /\ v # u =>
           call[v].key # k /\ call[v].sale # s
  BY DEF UncommittedIsNew, CommitSale
<1>4. CaptureTypeOK'
  BY <1>1, <1>2 DEF Calls
<1>5. CommittedIsCaptured'
  <2>1. status' = [status EXCEPT ![s] = "captured"] /\ s \in DOMAIN status
    BY <1>1 DEF CommitSale, CaptureSale, SyncInvariant, TypeOK
  <2>2. QED BY <1>1, <1>2, <2>1 DEF CommittedIsCaptured, Committed
<1>6. UniqueRows'
  BY <1>1, <1>2, <1>3 DEF UniqueRows, Committed
<1>7. UncommittedIsNew'
  BY <1>1, <1>2, <1>3 DEF UncommittedIsNew, Committed, Kinds, Calls
<1>8. told[k] = 0
  BY <1>1, <1>3 DEF AnswersAreTrue
<1>9. \A o \in Sales : receipt[o].key # "none" => o # s
  BY <1>1, <1>3 DEF Committed
<1>9a. \A o \in Sales : receipt[o].store # "none" => o # s
  BY <1>1, <1>3 DEF Committed
<1>9b. ProjectionIsOfKey'
  <2> SUFFICES ASSUME NEW v \in Tills, call'[v].op = "project"
               PROVE  /\ receipt'[call'[v].sale].key = call'[v].key
                      /\ call'[v].created =>
                           /\ receipt'[call'[v].sale].store = StoreOf[v]
                           /\ told'[call'[v].key] = 0
                           /\ \A w \in Tills :
                                call'[w].op = "project" /\ call'[w].created /\ w # v =>
                                   call'[w].key # call'[v].key
    BY DEF ProjectionIsOfKey
  <2>1. CASE v = u
    <3>1. call'[u].sale = s /\ call'[u].key = k /\ receipt'[s].key = k
          /\ receipt'[s].store = StoreOf[u]
      BY <1>1, <1>2 DEF Calls
    <3>2. ASSUME NEW w \in Tills, call'[w].op = "project", w # u
          PROVE  call'[w].key # k
      <4>1. call[w] = call'[w] /\ call[w] \in Calls
        BY <1>2, <3>2
      <4>2. QED BY <1>3, <3>2, <4>1 DEF ProjectionIsOfKey, Calls
    <3>3. QED BY <1>2, <1>8, <2>1, <3>1, <3>2
  <2>2. CASE v # u
    <3>1. call'[v] = call[v] /\ call[v] \in Calls
      BY <1>2, <2>2
    <3>2. call[v].sale # s /\ call[v].sale \in Sales /\ call[v].key # k
      BY <1>3, <1>9, <3>1 DEF ProjectionIsOfKey, Calls
    <3>3. \A w \in Tills : w # u => call'[w] = call[w]
      BY <1>2
    <3>4. call'[u].key = k
      BY <1>1, <1>2 DEF Calls
    <3>5. receipt'[call[v].sale] = receipt[call[v].sale]
      BY <1>2, <3>2
    <3>6. QED BY <1>2, <3>1, <3>2, <3>3, <3>4, <3>5 DEF ProjectionIsOfKey
  <2>3. QED BY <2>1, <2>2
<1>9c. AnswersAreTrue'
  <2>1. \A a \in answers : receipt[a.sale].store = a.store => a.sale # s
    BY <1>9a DEF Answers, TillStores
  <2>2. \A a \in answers :
          receipt[a.sale] = [key |-> a.key, store |-> a.store] => a.sale # s
    BY <2>1
  <2>3. \A a \in answers : a.sale \in Sales
    BY DEF Answers
  <2>4. \A o \in Sales : receipt[o].key \in Keys => receipt'[o].key = receipt[o].key
    BY <1>2, <1>9
  <2>5. QED BY <1>2, <2>1, <2>2, <2>3, <2>4 DEF AnswersAreTrue
<1>10. OneReversalPerRow'
  BY <1>2 DEF OneReversalPerRow
<1>11. QED BY <1>4, <1>5, <1>6, <1>7, <1>9b, <1>9c, <1>10

\* The answer names the sale of the key at the till's own store.
LEMMA ProjectKeeps ==
    ASSUME CaptureInvariant, NEW u \in Tills, Project(u)
    PROVE  CaptureInvariant'
<1> USE CaptureTypes, CaptureAssumption DEF CaptureInvariant, CaptureTypeOK
<1> DEFINE s == call[u].sale
           k == call[u].key
           a == [op |-> "capture", key |-> k, sale |-> s, ref |-> "none", store |-> StoreOf[u]]
<1>1. call[u] \in Calls /\ s \in Sales /\ k \in Keys /\ a \in Answers
  BY DEF Project, Calls, Answers, TillStores
<1>2. /\ answers' = answers \cup {a}
      /\ told' = IF call[u].created THEN [told EXCEPT ![k] = @ + 1] ELSE told
      /\ call' = [call EXCEPT ![u] = NoCall]
      /\ UNCHANGED <<status, requests, receipt, terminals, reversals>>
  BY DEF Project, Answer, vars, saleVars
<1>3. /\ receipt[s].key = k /\ receipt[s].store = StoreOf[u]
      /\ call[u].created =>
           /\ told[k] = 0
           /\ \A v \in Tills : call[v].op = "project" /\ call[v].created /\ v # u =>
                call[v].key # k
  BY DEF Project, ProjectionIsOfKey, InStore
<1>4. receipt[s] = [key |-> k, store |-> StoreOf[u]]
  BY <1>1, <1>3 DEF Receipts
<1>5. CaptureTypeOK'
  BY <1>1, <1>2
<1>6. CommittedIsCaptured' /\ UniqueRows' /\ OneReversalPerRow'
  BY <1>2 DEF CommittedIsCaptured, UniqueRows, OneReversalPerRow, Committed
<1>7. UncommittedIsNew'
  BY <1>2 DEF UncommittedIsNew, Committed, Kinds
<1>8. ProjectionIsOfKey'
  BY <1>1, <1>2, <1>3 DEF ProjectionIsOfKey
<1>9. AnswersAreTrue'
  <2>1. \A b \in answers' : b = a \/ b \in answers
    BY <1>2
  <2>2. \A j \in Keys : told'[j] = told[j] \/ (j = k /\ told'[j] = 1)
    BY <1>1, <1>2, <1>3
  <2>3. QED BY <1>1, <1>2, <1>3, <1>4, <2>1, <2>2 DEF AnswersAreTrue, Kinds
<1>10. QED BY <1>5, <1>6, <1>7, <1>8, <1>9

\* A request that ends without a commit leaves everything to the others.
LEMMA CallEndsKeeps ==
    ASSUME CaptureInvariant, NEW u \in Tills, call' = [call EXCEPT ![u] = NoCall],
           UNCHANGED <<vars, requests, receipt, terminals, reversals, answers, told>>
    PROVE  CaptureInvariant'
<1> USE CaptureTypes, CaptureAssumption DEF CaptureInvariant, CaptureTypeOK
<1>1. CaptureTypeOK'
  OBVIOUS
<1>2. CommittedIsCaptured' /\ UniqueRows' /\ AnswersAreTrue' /\ OneReversalPerRow'
  BY DEF CommittedIsCaptured, UniqueRows, AnswersAreTrue, OneReversalPerRow,
         Committed, vars, saleVars
<1>3. UncommittedIsNew'
  BY DEF UncommittedIsNew, Committed, Kinds
<1>4. ProjectionIsOfKey'
  BY DEF ProjectionIsOfKey
<1>5. QED BY <1>1, <1>2, <1>3, <1>4

\* A void or refund is inserted for a sale of the till's store, under a key and
\* an id that nobody else uses.
LEMMA InsertTerminalKeeps ==
    ASSUME CaptureInvariant, NEW u \in Tills, NEW kind \in Kinds, NEW k \in Keys,
           NEW s \in Sales, NEW r \in Refs, InsertTerminal(u, kind, k, s, r)
    PROVE  CaptureInvariant'
<1> USE CaptureTypes, CaptureAssumption DEF CaptureInvariant, CaptureTypeOK
<1> DEFINE c == [op |-> kind, key |-> k, sale |-> s, ref |-> r, created |-> TRUE]
<1>1. /\ call' = [call EXCEPT ![u] = c] /\ c \in Calls
      /\ requests' = requests + 1
      /\ UNCHANGED <<status, receipt, terminals, reversals, answers, told>>
  BY DEF InsertTerminal, Request, Calls, vars, saleVars
<1>2. /\ receipt[s].store = StoreOf[u]
      /\ \A e \in terminals : ~(e.kind = kind /\ e.key = k) /\ e.ref # r
      /\ \A v \in Tills : /\ call[v].op = kind => call[v].key # k
                          /\ call[v].ref # r
  BY DEF InsertTerminal, InStore, InFlight, Recorded
<1>3. CaptureTypeOK'
  BY <1>1
<1>4. CommittedIsCaptured' /\ UniqueRows' /\ AnswersAreTrue' /\ OneReversalPerRow'
  BY <1>1 DEF CommittedIsCaptured, UniqueRows, AnswersAreTrue, OneReversalPerRow, Committed
<1>5. UncommittedIsNew'
  BY <1>1, <1>2 DEF UncommittedIsNew, Committed, Kinds
<1>6. ProjectionIsOfKey'
  BY <1>1 DEF ProjectionIsOfKey, Kinds
<1>7. QED BY <1>3, <1>4, <1>5, <1>6

\* A repeated void or refund is answered from its row.
LEMMA ReplayTerminalKeeps ==
    ASSUME CaptureInvariant, NEW u \in Tills, NEW kind \in Kinds, NEW k \in Keys,
           NEW s \in Sales, ReplayTerminal(u, kind, k, s)
    PROVE  CaptureInvariant'
<1> USE CaptureTypes, CaptureAssumption DEF CaptureInvariant, CaptureTypeOK
<1>1. PICK e \in Recorded(kind, k) : e.sale = s /\ Answer(u, kind, k, e.sale, e.ref)
  BY DEF ReplayTerminal
<1> DEFINE a == [op |-> kind, key |-> k, sale |-> s, ref |-> e.ref, store |-> StoreOf[u]]
<1>2. /\ answers' = answers \cup {a} /\ a \in Answers
      /\ requests' = requests + 1
      /\ UNCHANGED <<status, receipt, terminals, reversals, call, told>>
  BY <1>1 DEF ReplayTerminal, Request, Answer, Answers, TillStores, Recorded,
              Terminals, vars, saleVars
<1>3. /\ [kind |-> kind, key |-> k, sale |-> s, ref |-> e.ref] \in terminals
      /\ receipt[s].store = StoreOf[u]
  <2>1. e = [kind |-> kind, key |-> k, sale |-> s, ref |-> e.ref] /\ e \in terminals
    BY <1>1 DEF Recorded, Terminals
  <2>2. QED BY <2>1 DEF ReplayTerminal, InStore
<1>4. CaptureTypeOK'
  BY <1>2
<1>5. CommittedIsCaptured' /\ UniqueRows' /\ OneReversalPerRow'
  BY <1>2 DEF CommittedIsCaptured, UniqueRows, OneReversalPerRow, Committed
<1>6. UncommittedIsNew' /\ ProjectionIsOfKey'
  BY <1>2 DEF UncommittedIsNew, ProjectionIsOfKey, Committed
<1>7. AnswersAreTrue'
  BY <1>2, <1>3 DEF AnswersAreTrue, Kinds
<1>8. QED BY <1>4, <1>5, <1>6, <1>7

\* The row and its one reversal request commit together.
LEMMA CommitTerminalKeeps ==
    ASSUME CaptureInvariant, NEW u \in Tills, NEW kind \in Kinds,
           CommitTerminal(u, kind)
    PROVE  CaptureInvariant'
<1> USE CaptureTypes, CaptureAssumption DEF CaptureInvariant, CaptureTypeOK
<1> DEFINE c == call[u]
           e == [kind |-> kind, key |-> c.key, sale |-> c.sale, ref |-> c.ref]
           a == [op |-> kind, key |-> c.key, sale |-> c.sale, ref |-> c.ref,
                 store |-> StoreOf[u]]
<1>1. c \in Calls /\ c.op = kind /\ c.ref \in Refs /\ e \in Terminals /\ a \in Answers
  <2>1. c.op = kind /\ c \in Calls
    BY DEF CommitTerminal, Kinds
  <2>2. c.ref \in Refs
    BY <2>1 DEF UncommittedIsNew
  <2>3. QED BY <2>1, <2>2 DEF Calls, Terminals, Answers, TillStores
<1>2. /\ terminals' = terminals \cup {e}
      /\ reversals' = [reversals EXCEPT ![c.ref] = @ + 1]
      /\ answers' \in {answers, answers \cup {a}}
      /\ call' = [call EXCEPT ![u] = NoCall]
      /\ UNCHANGED <<status, requests, receipt, told>>
  BY DEF CommitTerminal, Answer, vars, saleVars
<1>3. /\ receipt[c.sale].store = StoreOf[u]
      /\ \A f \in terminals : ~(f.kind = kind /\ f.key = c.key) /\ f.ref # c.ref
      /\ \A v \in Tills : call[v].op \in Kinds /\ v # u =>
           /\ call[v].op = kind => call[v].key # c.key
           /\ call[v].ref # c.ref
  BY <1>1 DEF UncommittedIsNew
<1>4. CaptureTypeOK'
  BY <1>1, <1>2
<1>5. CommittedIsCaptured'
  BY <1>2 DEF CommittedIsCaptured, Committed
<1>6. UniqueRows'
  BY <1>2, <1>3 DEF UniqueRows, Committed
<1>7. UncommittedIsNew'
  BY <1>2, <1>3 DEF UncommittedIsNew, Committed, Kinds
<1>8. ProjectionIsOfKey'
  BY <1>2 DEF ProjectionIsOfKey
<1>9. AnswersAreTrue'
  <2>1. \A b \in answers' : b \in answers \/ b = a
    BY <1>2
  <2>2. e \in terminals' /\ terminals \subseteq terminals'
    BY <1>2
  <2>3. QED BY <1>1, <1>2, <1>3, <2>1, <2>2 DEF AnswersAreTrue, Kinds
<1>10. OneReversalPerRow'
  BY <1>1, <1>2, <1>3 DEF OneReversalPerRow
<1>11. QED BY <1>4, <1>5, <1>6, <1>7, <1>8, <1>9, <1>10

\* Nothing has been captured at the start.
LEMMA InitCapture == CaptureInit => SyncInvariant /\ CaptureInvariant
<1> SUFFICES ASSUME CaptureInit PROVE SyncInvariant /\ CaptureInvariant
  OBVIOUS
<1> USE CaptureTypes DEF CaptureInit
<1>1. SyncInvariant
  BY InitSync
<1>2. CaptureTypeOK
  BY CaptureAssumption DEF CaptureTypeOK
<1>3. QED
  BY <1>1, <1>2 DEF CaptureInvariant, CommittedIsCaptured, UniqueRows, UncommittedIsNew,
         ProjectionIsOfKey, AnswersAreTrue, OneReversalPerRow, Init, Committed, Kinds

\* Every step of a till keeps what the tills rely on.
LEMMA TillKeeps ==
    ASSUME SyncInvariant, CaptureInvariant, NEW u \in Tills, Till(u)
    PROVE  CaptureInvariant'
<1>1. ASSUME UNCHANGED allVars PROVE CaptureInvariant'
  BY <1>1 DEF CaptureInvariant, CaptureTypeOK, CommittedIsCaptured, UniqueRows,
         UncommittedIsNew, ProjectionIsOfKey, AnswersAreTrue, OneReversalPerRow,
         allVars, captureVars, vars, saleVars, Committed
<1>2. ASSUME NEW k \in Keys, (\E s \in Sales : InsertSale(u, k, s)) \/ ResolveWinner(u, k)
      PROVE  CaptureInvariant'
  BY <1>2, InsertSaleKeeps, ResolveWinnerKeeps
<1>3. CASE CommitSale(u) \/ Project(u)
  BY <1>3, CommitSaleKeeps, ProjectKeeps
<1>4. CASE ProjectNotFound(u) \/ CallFails(u)
  BY <1>4, CallEndsKeeps DEF ProjectNotFound, CallFails
<1>5. ASSUME NEW kind \in Kinds, NEW k \in Keys, NEW s \in Sales,
             \/ \E r \in Refs : InsertTerminal(u, kind, k, s, r)
             \/ ReplayTerminal(u, kind, k, s)
             \/ TerminalConflict(u, kind, k, s)
      PROVE  CaptureInvariant'
  BY <1>1, <1>5, InsertTerminalKeeps, ReplayTerminalKeeps DEF TerminalConflict
<1>6. ASSUME NEW s \in Sales, TerminalNotFound(u, s) PROVE CaptureInvariant'
  BY <1>1, <1>6 DEF TerminalNotFound
<1>7. ASSUME NEW kind \in Kinds, CommitTerminal(u, kind) PROVE CaptureInvariant'
  BY <1>7, CommitTerminalKeeps
<1>8. CASE RecordVoid(u)
  BY <1>5, <1>7, <1>8 DEF RecordVoid, Kinds
<1>9. CASE RecordRefund(u)
  BY <1>5, <1>7, <1>9 DEF RecordRefund, Kinds
<1>10. QED BY <1>2, <1>3, <1>4, <1>6, <1>8, <1>9 DEF Till

\* A step of the tills, too, is to a sale's sync status a capture or nothing.
LEMMA CaptureStep == CaptureInvariant /\ [CaptureNext]_allVars => [Next]_vars
<1> SUFFICES ASSUME CaptureInvariant, [CaptureNext]_allVars PROVE [Next]_vars
  OBVIOUS
<1>1. CASE UNCHANGED allVars
  BY <1>1 DEF allVars
<1>2. CASE Sync
  BY <1>2 DEF Sync, Next
<1>3. ASSUME NEW u \in Tills, Till(u) PROVE [Next]_vars
  <2>1. CASE CommitSale(u)
    <3>1. call[u].sale \in Sales /\ CaptureSale(call[u].sale)
      BY <2>1, CaptureTypes DEF CommitSale, CaptureInvariant, CaptureTypeOK, Calls
    <3>2. QED BY <3>1 DEF Next
  <2>2. QED
    BY <1>3, <2>1 DEF Till, InsertSale, ResolveWinner, Project, ProjectNotFound,
       CallFails, RecordVoid, RecordRefund, InsertTerminal, ReplayTerminal,
       TerminalConflict, TerminalNotFound, CommitTerminal, allVars
<1>4. QED BY <1>1, <1>2, <1>3 DEF CaptureNext

\* Tills and sync together keep both invariants.
LEMMA NextCapture ==
    SyncInvariant /\ CaptureInvariant /\ [CaptureNext]_allVars
      => SyncInvariant' /\ CaptureInvariant'
<1> SUFFICES ASSUME SyncInvariant, CaptureInvariant, [CaptureNext]_allVars
             PROVE  SyncInvariant' /\ CaptureInvariant'
  OBVIOUS
<1>1. SyncInvariant'
  BY CaptureStep, NextSync
<1>2. CASE UNCHANGED allVars
  BY <1>1, <1>2 DEF CaptureInvariant, CaptureTypeOK, CommittedIsCaptured, UniqueRows,
         UncommittedIsNew, ProjectionIsOfKey, AnswersAreTrue, OneReversalPerRow,
         allVars, captureVars, vars, saleVars, Committed
<1>3. CASE Sync
  BY <1>1, <1>3, SyncKeepsCaptures
<1>4. CASE \E u \in Tills : Till(u)
  BY <1>1, <1>4, TillKeeps
<1>5. QED BY <1>1, <1>2, <1>3, <1>4 DEF CaptureNext

\* The two invariants hold together, whatever the tills and the sync do.
THEOREM CaptureInvariantHolds == CaptureSpec => [](SyncInvariant /\ CaptureInvariant)
<1>1. CaptureInit => SyncInvariant /\ CaptureInvariant
  BY InitCapture
<1>2. SyncInvariant /\ CaptureInvariant /\ [CaptureNext]_allVars
        => (SyncInvariant /\ CaptureInvariant)'
  BY NextCapture
<1>3. QED BY <1>1, <1>2, PTL DEF CaptureSpec

\* The tills' system implements SaleSync: for the sync of a sale it makes no
\* difference which till captured it, or how often it tried, so every theorem
\* about SaleSync holds of the composition.
THEOREM CaptureImplementsSync == CaptureSpec => Spec
<1>1. CaptureInit => Init
  BY DEF CaptureInit
<1>2. CaptureInvariant /\ [CaptureNext]_allVars => [Next]_vars
  BY CaptureStep
<1>3. QED BY <1>1, <1>2, CaptureInvariantHolds, PTL DEF CaptureSpec, Spec

\* However its retries overlap, a receipt is one sale, told as created once,
\* which every answer names and at most one posting is requested for.
THEOREM CapturedOnceHolds == CaptureSpec => []CapturedOnce
<1>1. SyncInvariant /\ CaptureInvariant => CapturedOnce
  <2> SUFFICES ASSUME SyncInvariant, CaptureInvariant, NEW k \in Keys
               PROVE  /\ Cardinality({s \in Sales : receipt[s].key = k}) <= 1
                      /\ \A a \in answers : a.op = "capture" /\ a.key = k =>
                           /\ a.sale \in Sales /\ receipt[a.sale].key = k
                           /\ receipt[a.sale].store = a.store
                      /\ told[k] <= 1
                      /\ \A s \in Sales : receipt[s].key = k =>
                           postings[s] <= 1 /\ status[s] # "none"
    BY DEF CapturedOnce
  <2> USE CaptureTypes, CaptureAssumption DEF CaptureInvariant, CaptureTypeOK
  <2>1. \A s \in Sales : receipt[s].key = k => Committed(s)
    BY DEF Committed
  <2>2. Cardinality({s \in Sales : receipt[s].key = k}) <= 1
    <3> DEFINE of == {s \in Sales : receipt[s].key = k}
    <3>1. \A x, y \in of : x = y
      BY <2>1 DEF UniqueRows
    <3>2. QED BY <3>1, AtMostOneMember
  <2>3. \A a \in answers : a.op = "capture" /\ a.key = k =>
          /\ a.sale \in Sales /\ receipt[a.sale].key = k
          /\ receipt[a.sale].store = a.store
    <3> SUFFICES ASSUME NEW a \in answers, a.op = "capture", a.key = k
                 PROVE  /\ a.sale \in Sales /\ receipt[a.sale].key = k
                        /\ receipt[a.sale].store = a.store
      OBVIOUS
    <3>1. a.sale \in Sales
      BY DEF Answers
    <3>2. receipt[a.sale] = [key |-> k, store |-> a.store]
      BY DEF AnswersAreTrue
    <3>3. QED BY <3>1, <3>2
  <2>4. told[k] <= 1
    BY DEF AnswersAreTrue
  <2>5. \A s \in Sales : receipt[s].key = k => postings[s] <= 1 /\ status[s] # "none"
    BY <2>1 DEF CommittedIsCaptured, SyncInvariant, PostedOnce
  <2>6. QED BY <2>2, <2>3, <2>4, <2>5
<1>2. QED BY <1>1, CaptureInvariantHolds, PTL

\* A void or refund that is sent again is one row with one reversal request,
\* of a sale of the till's store, and is answered as recorded.
THEOREM ReversedOnceHolds == CaptureSpec => []ReversedOnce
<1>1. CaptureInvariant => ReversedOnce
  <2> SUFFICES ASSUME CaptureInvariant PROVE ReversedOnce
    OBVIOUS
  <2> USE DEF CaptureInvariant, CaptureTypeOK
  <2>1. ASSUME NEW r \in Refs
        PROVE  reversals[r] = Cardinality({e \in terminals : e.ref = r})
    <3> DEFINE of == {e \in terminals : e.ref = r}
    <3>1. \A x, y \in of : x = y
      BY DEF UniqueRows
    <3>2. Cardinality(of) = IF of = {} THEN 0 ELSE 1
      BY <3>1, AtMostOneMember
    <3>3. QED BY <3>2 DEF OneReversalPerRow
  <2>2. ASSUME NEW kind \in Kinds, NEW k \in Keys
        PROVE  Cardinality(Recorded(kind, k)) <= 1
    <3>1. \A x, y \in Recorded(kind, k) : x = y
      BY DEF UniqueRows, Recorded
    <3>2. QED BY <3>1, AtMostOneMember
  <2>3. QED BY <2>1, <2>2 DEF ReversedOnce, AnswersAreTrue
<1>2. QED BY <1>1, CaptureInvariantHolds, PTL
=============================================================================
