------------------------- MODULE PostingFeedProofs -------------------------
(***************************************************************************)
(* Proofs that the posting feed keeps its invariant, and that a stored     *)
(* outcome stands, for every number of rows, transactions, incidents and   *)
(* repairs.  FeedInvariant alone is not inductive: a commit writes what    *)
(* its transaction read before.  FeedInductive adds what the row lock      *)
(* keeps true in between (TxnShape), that a row has one writer, and that   *)
(* a sequence number drawn and not yet committed is nobody else's.         *)
(***************************************************************************)
EXTENDS PostingFeed, TLAPS

\* What the step lemmas know of the types.
LEMMA FeedTypes ==
    /\ NoRow \in Rows
    /\ NoTransaction \in Transactions
    /\ NoTransaction.op = "none" /\ NoTransaction.step = "idle"
    /\ NoTransaction.ref = NoRef /\ NoRef \notin Refs
BY FeedAssumption DEF NoRow, NoTransaction, Rows, Transactions, Statuses,
   Categories

-----------------------------------------------------------------------------
(* A statement that is not a commit changes one transaction and no row.     *)

\* Such a step keeps the invariant, if the transaction has a right to what it
\* now claims: the lock, and the sequence number it drew.
LEMMA StatementKeeps ==
    ASSUME FeedInductive, NEW t \in Txns, NEW n \in Transactions,
           txn' = [txn EXCEPT ![t] = n],
           UNCHANGED <<rowVars, offered, accepted, dismissed>>,
           TypeOK', nextSeq' >= nextSeq,
           (IdleShape(t) /\ CreateShape(t) /\ AckShape(t) /\ RepairShape(t))',
           n.step = "commit" \/ n.op = "repair" =>
             \A u \in Txns \ {t} : ~(Locks(u) /\ txn[u].ref = n.ref),
           n.step = "commit" =>
             /\ n.row.sequence \in 1..(nextSeq' - 1)
             /\ \A r \in Refs : status[r] # "none" /\ sequence[r] = n.row.sequence
                                  => r = n.ref
             /\ \A u \in Txns \ {t} : txn[u].step = "commit"
                                  => txn[u].row.sequence # n.row.sequence
    PROVE  FeedInductive'
<1> USE DEF FeedInductive, FeedInvariant, rowVars
<1>1. \A u \in Txns : txn'[u] = IF u = t THEN n ELSE txn[u]
  BY DEF TypeOK
<1>2. nextSeq \in Nat /\ nextSeq' \in Nat
  BY DEF TypeOK
<1>3. OneDocument' /\ RefusedNeverOffered' /\ BudgetSpentFirst' /\ OfferedExists'
  BY DEF OneDocument, RefusedNeverOffered, BudgetSpentFirst, OfferedExists
<1>4. DistinctSequences'
  BY <1>2 DEF DistinctSequences, TypeOK
<1>5. TxnShape'
  <2> SUFFICES ASSUME NEW u \in Txns, u # t
               PROVE  (IdleShape(u) /\ CreateShape(u) /\ AckShape(u) /\ RepairShape(u))'
    BY DEF TxnShape
  <2>1. txn'[u] = txn[u]
    BY <1>1
  <2>2. IdleShape(u) /\ CreateShape(u) /\ AckShape(u) /\ RepairShape(u)
    BY DEF TxnShape
  <2>3. QED BY <2>1, <2>2 DEF IdleShape, CreateShape, AckShape, RepairShape
<1>6. OneWriter'
  BY <1>1 DEF OneWriter, Locks
<1>7. DrawnOnce'
  <2> SUFFICES ASSUME NEW u \in Txns, txn'[u].step = "commit"
               PROVE  /\ txn'[u].row.sequence \in 1..(nextSeq' - 1)
                      /\ \A r \in Refs :
                           status[r] # "none" /\ sequence[r] = txn'[u].row.sequence
                             => r = txn'[u].ref
                      /\ \A v \in Txns :
                           /\ txn'[v].step = "commit"
                           /\ txn'[v].row.sequence = txn'[u].row.sequence
                           => txn'[v].ref = txn'[u].ref
    BY DEF DrawnOnce
  <2>1. CASE u = t
    BY <1>1, <2>1
  <2>2. CASE u # t
    <3>1. txn'[u] = txn[u]
      BY <1>1, <2>2
    <3>2. txn[u].row.sequence \in Nat
      BY DEF TypeOK, Transactions, Rows
    <3>3. txn'[u].row.sequence \in 1..(nextSeq' - 1)
      BY <1>2, <3>1, <3>2 DEF DrawnOnce
    <3>4. QED BY <1>1, <2>2, <3>1, <3>3 DEF DrawnOnce
  <2>3. QED BY <2>1, <2>2
<1>8. QED BY <1>2, <1>3, <1>4, <1>5, <1>6, <1>7

\* A transaction that ends without a commit leaves nothing behind but the
\* sequence number it drew.
LEMMA EndKeeps ==
    ASSUME FeedInductive, NEW t \in Txns, End(t),
           UNCHANGED <<rowVars, offered, accepted, dismissed>>,
           TypeOK', nextSeq' >= nextSeq
    PROVE  FeedInductive'
<1>1. txn'[t] = NoTransaction
  BY DEF End, FeedInductive, FeedInvariant, TypeOK
<1>2. (IdleShape(t) /\ CreateShape(t) /\ AckShape(t) /\ RepairShape(t))'
  BY <1>1, FeedTypes DEF IdleShape, CreateShape, AckShape, RepairShape
<1>3. QED BY <1>2, FeedTypes, StatementKeeps DEF End

\* The consumer's two reads and its INSERT.
LEMMA ConsumerKeeps ==
    ASSUME FeedInductive, NEW t \in Txns,
           \/ \E r \in Refs : ResolveWarehouse(t, r)
           \/ ResolveItems(t) \/ InsertPosting(t) \/ InsertConflicts(t)
    PROVE  FeedInductive'
<1> USE FeedTypes, FeedAssumption DEF FeedInductive, FeedInvariant
<1>1. \A st \in {"pending", "permanently_rejected"},
         cat \in Categories \ {"retry_budget_exhausted"} :
         /\ Verdict(st, cat) \in Rows
         /\ Verdict(st, cat).status = st
         /\ Verdict(st, cat).documentRef = NoDocument
         /\ Verdict(st, cat).category = cat
  BY DEF Verdict, NoRow, Rows, Statuses, Terminal
<1>2. {"null", "unmapped_store", "unmapped_item"}
        \subseteq Categories \ {"retry_budget_exhausted"}
  BY DEF Categories, Unmapped
<1>3. ASSUME NEW r \in Refs, ResolveWarehouse(t, r) PROVE FeedInductive'
  <2> DEFINE n == IF StoreOf[r] \in warehouses
                  THEN [op |-> "create", ref |-> r, step |-> "items", row |-> NoRow]
                  ELSE [op |-> "create", ref |-> r, step |-> "insert",
                        row |-> Verdict("permanently_rejected", "unmapped_store")]
  <2>1. n \in Transactions /\ txn' = [txn EXCEPT ![t] = n]
    BY <1>1, <1>2, <1>3 DEF ResolveWarehouse, Go, Transactions
  <2>2. TypeOK'
    BY <1>3, <2>1 DEF TypeOK, ResolveWarehouse, mapVars, rowVars, connectorVars
  <2>3. txn'[t] = n
    BY <2>1 DEF TypeOK
  <2>4. (IdleShape(t) /\ CreateShape(t) /\ AckShape(t) /\ RepairShape(t))'
    BY <1>1, <1>2, <2>3 DEF IdleShape, CreateShape, AckShape, RepairShape
  <2>5. UNCHANGED <<rowVars, offered, accepted, dismissed>> /\ nextSeq' >= nextSeq
    BY <1>3 DEF ResolveWarehouse, connectorVars, TypeOK
  <2>6. n.step # "commit" /\ n.op # "repair"
    OBVIOUS
  <2> HIDE DEF n
  <2>7. QED BY <2>1, <2>2, <2>4, <2>5, <2>6, StatementKeeps
<1>4. ASSUME ResolveItems(t) PROVE FeedInductive'
  <2> DEFINE r == txn[t].ref
             n == [op |-> "create", ref |-> r, step |-> "insert",
                   row |-> IF \A p \in LineProducts[r] : Confirmed(p)
                           THEN Verdict("pending", "null")
                           ELSE Verdict("permanently_rejected", "unmapped_item")]
  <2>1. r \in Refs
    BY <1>4 DEF ResolveItems, TxnShape, CreateShape
  <2>2. n \in Transactions /\ txn' = [txn EXCEPT ![t] = n]
    BY <1>1, <1>2, <1>4, <2>1 DEF ResolveItems, Go, Transactions
  <2>3. TypeOK'
    BY <1>4, <2>2 DEF TypeOK, ResolveItems, mapVars, rowVars, connectorVars
  <2>4. txn'[t] = n
    BY <2>2 DEF TypeOK
  <2>5. (IdleShape(t) /\ CreateShape(t) /\ AckShape(t) /\ RepairShape(t))'
    BY <1>1, <1>2, <2>1, <2>4 DEF IdleShape, CreateShape, AckShape, RepairShape
  <2>6. UNCHANGED <<rowVars, offered, accepted, dismissed>> /\ nextSeq' >= nextSeq
    BY <1>4 DEF ResolveItems, connectorVars, TypeOK
  <2>7. n.step # "commit" /\ n.op # "repair"
    OBVIOUS
  <2> HIDE DEF n
  <2>8. QED BY <2>2, <2>3, <2>5, <2>6, <2>7, StatementKeeps
<1>5. ASSUME InsertPosting(t) PROVE FeedInductive'
  <2> DEFINE r == txn[t].ref
             row == [txn[t].row EXCEPT !.sequence = nextSeq]
             n == [op |-> "create", ref |-> r, step |-> "commit", row |-> row]
  <2>1. txn[t].op = "create" /\ r \in Refs /\ txn[t].row \in Rows /\ nextSeq \in Nat
    BY <1>5 DEF InsertPosting, TxnShape, IdleShape, CreateShape, AckShape,
       RepairShape, TypeOK, Transactions
  <2>2. /\ row \in Rows /\ row.sequence = nextSeq /\ row.status = txn[t].row.status
        /\ row.documentRef = txn[t].row.documentRef
        /\ row.category = txn[t].row.category
    BY <2>1 DEF Rows
  <2>3. n \in Transactions /\ txn' = [txn EXCEPT ![t] = n]
    BY <1>5, <2>1, <2>2 DEF InsertPosting, Go, Transactions
  <2>4. TypeOK'
    BY <1>5, <2>1, <2>3 DEF TypeOK, InsertPosting, mapVars, rowVars, connectorVars
  <2>5. txn'[t] = n
    BY <2>3 DEF TypeOK
  <2>6. /\ txn[t].row.status \in {"pending", "permanently_rejected"}
        /\ txn[t].row.documentRef = NoDocument
        /\ txn[t].row.category # "retry_budget_exhausted"
        /\ status'[r] = "none"
    BY <1>5, <2>1 DEF InsertPosting, TxnShape, CreateShape, rowVars
  <2>7. (IdleShape(t) /\ CreateShape(t) /\ AckShape(t) /\ RepairShape(t))'
    <3>1. /\ txn'[t].op = "create" /\ txn'[t].ref = r /\ txn'[t].step = "commit"
          /\ txn'[t].row = row
      BY <2>5
    <3> HIDE DEF r, row, n
    <3>2. QED
      BY <2>1, <2>2, <2>6, <3>1 DEF IdleShape, CreateShape, AckShape, RepairShape
  <2>8. UNCHANGED <<rowVars, offered, accepted, dismissed>> /\ nextSeq' = nextSeq + 1
    BY <1>5 DEF InsertPosting, connectorVars
  <2>9. \A u \in Txns \ {t} : ~(Locks(u) /\ txn[u].ref = n.ref)
    BY <1>5 DEF InsertPosting, Locked, Locks
  <2>10. /\ n.row.sequence \in 1..(nextSeq' - 1)
         /\ \A q \in Refs : status[q] # "none" /\ sequence[q] = n.row.sequence => q = n.ref
         /\ \A u \in Txns \ {t} : txn[u].step = "commit"
                                    => txn[u].row.sequence # n.row.sequence
    <3>1. n.row.sequence = nextSeq /\ nextSeq' = nextSeq + 1 /\ nextSeq >= 1
      BY <2>2, <2>8 DEF FeedInductive
    <3>2. \A q \in Refs : status[q] # "none" => sequence[q] # nextSeq
      BY <2>1 DEF DistinctSequences, TypeOK
    <3>3. \A u \in Txns \ {t} : txn[u].step = "commit" => txn[u].row.sequence # nextSeq
      BY <2>1 DEF DrawnOnce
    <3> HIDE DEF n
    <3>4. QED BY <2>1, <3>1, <3>2, <3>3
  <2>11. nextSeq' >= nextSeq
    BY <2>1, <2>8
  <2> HIDE DEF n
  <2>12. QED BY <2>3, <2>4, <2>7, <2>8, <2>9, <2>10, <2>11, StatementKeeps
<1>6. ASSUME InsertConflicts(t) PROVE FeedInductive'
  <2>1. UNCHANGED <<rowVars, offered, accepted, dismissed>> /\ nextSeq' >= nextSeq /\ End(t)
    BY <1>6 DEF InsertConflicts, connectorVars, TypeOK
  <2>2. TypeOK'
    BY <1>6 DEF TypeOK, InsertConflicts, mapVars, rowVars, connectorVars, End
  <2>3. QED BY <2>1, <2>2, EndKeeps
<1>7. QED BY <1>3, <1>4, <1>5, <1>6

\* An acknowledgement takes the row lock and updates the row.
LEMMA AckOutcomeKeeps ==
    ASSUME FeedInductive, NEW t \in Txns, NEW r \in Refs, NEW outcome \in Outcomes,
           NEW d \in Named(outcome), NEW reason \in Given(outcome),
           AckOutcome(t, r, outcome, d, reason)
    PROVE  FeedInductive'
<1> USE FeedTypes, FeedAssumption DEF FeedInductive, FeedInvariant
<1> DEFINE row == CASE outcome = "posted" -> applyPosted(r, d)
                    [] outcome = "permanently_rejected" -> applyRejected(r, reason)
                    [] outcome = "failed_transient" -> applyTransient(r)
           n == [op |-> "ack", ref |-> r, step |-> "commit", row |-> row]
<1>1. /\ status[r] = "pending" /\ documentRef[r] = NoDocument
      /\ sequence[r] \in 1..(nextSeq - 1) /\ retryCount[r] \in 0..RetryBudget
      /\ nextSeq \in Nat /\ category[r] \in Categories
  BY DEF AckOutcome, TypeOK, Statuses, OfferedExists, OneDocument, DistinctSequences
<1>2. /\ Current(r) \in Rows
      /\ Current(r).status = "pending" /\ Current(r).documentRef = NoDocument
      /\ Current(r).sequence = sequence[r] /\ Current(r).retryCount = retryCount[r]
  BY <1>1 DEF Current, Rows, Statuses
<1>3. /\ row \in Rows
      /\ row.status # "none"
      /\ row.status = "posted" <=> row.documentRef # NoDocument
      /\ row.status = "permanently_rejected" =>
           /\ row.category \in Reasons \cup {"retry_budget_exhausted"}
           /\ row.category = "retry_budget_exhausted" => row.retryCount = RetryBudget
      /\ row.sequence = sequence[r] \/ row.sequence = nextSeq
  <2>1. CASE outcome = "posted"
    <3>1. row = [Current(r) EXCEPT !.status = "posted", !.documentRef = d]
      BY <2>1 DEF applyPosted
    <3> HIDE DEF row
    <3>2. d \in Documents /\ d # NoDocument
      BY <2>1 DEF Named
    <3>3. /\ row \in Rows /\ row.status = "posted" /\ row.documentRef = d
          /\ row.sequence = sequence[r]
      BY <1>2, <3>1, <3>2 DEF Rows, Statuses, Terminal
    <3>4. QED BY <3>2, <3>3
  <2>2. ASSUME NEW cat \in Reasons \cup {"retry_budget_exhausted"},
               row = applyRejected(r, cat),
               cat = "retry_budget_exhausted" => retryCount[r] >= RetryBudget
        PROVE  /\ row \in Rows
               /\ row.status # "none"
               /\ row.status = "posted" <=> row.documentRef # NoDocument
               /\ row.status = "permanently_rejected" =>
                    /\ row.category \in Reasons \cup {"retry_budget_exhausted"}
                    /\ row.category = "retry_budget_exhausted" =>
                         row.retryCount = RetryBudget
               /\ row.sequence = sequence[r] \/ row.sequence = nextSeq
    <3>1. row = [Current(r) EXCEPT !.status = "permanently_rejected", !.category = cat]
      BY <2>2 DEF applyRejected
    <3>2. cat \in Categories
      BY DEF Categories, Unmapped, Reasons
    <3> HIDE DEF row
    <3>3. /\ row \in Rows /\ row.status = "permanently_rejected" /\ row.category = cat
          /\ row.retryCount = retryCount[r] /\ row.sequence = sequence[r]
          /\ row.documentRef = NoDocument
      BY <1>2, <3>1, <3>2 DEF Rows, Statuses, Terminal
    <3>4. cat = "retry_budget_exhausted" => retryCount[r] = RetryBudget
      BY <1>1, <2>2
    <3>5. QED BY <3>2, <3>3, <3>4
  <2>3. CASE outcome = "permanently_rejected"
    BY <2>2, <2>3 DEF Given, Reasons
  <2>4. CASE outcome = "failed_transient"
    <3>1. row = applyTransient(r)
      BY <2>4
    <3>2. CASE retryCount[r] >= RetryBudget
      BY <2>2, <3>1, <3>2 DEF applyTransient
    <3>3. CASE ~(retryCount[r] >= RetryBudget)
      <4>1. row = [Current(r) EXCEPT !.retryCount = @ + 1, !.sequence = nextSeq]
        BY <3>1, <3>3 DEF applyTransient
      <4>2. retryCount[r] + 1 \in 0..RetryBudget
        BY <1>1, <3>3
      <4> HIDE DEF row
      <4>3. QED BY <1>1, <1>2, <4>1, <4>2 DEF Rows, Statuses
    <3>4. QED BY <3>2, <3>3
  <2>5. QED BY <2>1, <2>3, <2>4 DEF Outcomes
<1>4. n \in Transactions /\ txn' = [txn EXCEPT ![t] = n]
  BY <1>3 DEF AckOutcome, Go, Transactions
<1>5. /\ UNCHANGED <<rowVars, offered, accepted, dismissed>> /\ r \in offered
      /\ nextSeq' = IF row.sequence = sequence[r] THEN nextSeq ELSE nextSeq + 1
  BY DEF AckOutcome, connectorVars
<1>6. n.op = "ack" /\ n.ref = r /\ n.step = "commit" /\ n.row = row
  OBVIOUS
<1> HIDE DEF row, n
<1>7. TypeOK'
  BY <1>1, <1>4, <1>5 DEF TypeOK, AckOutcome, mapVars, rowVars, connectorVars
<1>8. txn'[t] = n
  BY <1>4 DEF TypeOK
<1>9. (IdleShape(t) /\ CreateShape(t) /\ AckShape(t) /\ RepairShape(t))'
  BY <1>1, <1>3, <1>5, <1>6, <1>8
     DEF IdleShape, CreateShape, AckShape, RepairShape, rowVars
<1>10. \A u \in Txns \ {t} : ~(Locks(u) /\ txn[u].ref = n.ref)
  BY <1>6 DEF AckOutcome, Locked, Locks
<1>11. /\ n.row.sequence \in 1..(nextSeq' - 1)
       /\ \A q \in Refs : status[q] # "none" /\ sequence[q] = n.row.sequence => q = n.ref
       /\ \A u \in Txns \ {t} : txn[u].step = "commit"
                                  => txn[u].row.sequence # n.row.sequence
  <2>1. CASE row.sequence = sequence[r]
    <3>1. \A q \in Refs : status[q] # "none" /\ sequence[q] = sequence[r] => q = r
      BY <1>1 DEF DistinctSequences
    <3>2. \A u \in Txns \ {t} : txn[u].step = "commit" => txn[u].row.sequence # sequence[r]
      BY <1>1, <1>6, <1>10 DEF DrawnOnce, Locks
    <3>3. QED BY <1>1, <1>5, <1>6, <2>1, <3>1, <3>2
  <2>2. CASE row.sequence # sequence[r]
    <3>1. row.sequence = nextSeq /\ nextSeq' = nextSeq + 1 /\ nextSeq >= 1
      BY <1>3, <1>5, <2>2
    <3>2. \A q \in Refs : status[q] # "none" => sequence[q] # nextSeq
      BY <1>1 DEF DistinctSequences, TypeOK
    <3>3. \A u \in Txns \ {t} : txn[u].step = "commit" => txn[u].row.sequence # nextSeq
      BY <1>1 DEF DrawnOnce
    <3>4. QED BY <1>1, <1>6, <3>1, <3>2, <3>3
  <2>3. QED BY <2>1, <2>2
<1>12. nextSeq' >= nextSeq
  BY <1>1, <1>5
<1>13. QED BY <1>4, <1>5, <1>7, <1>9, <1>10, <1>11, <1>12, StatementKeeps

\* A repair locks a rejected row, asks the maps again, and updates the row.
LEMMA RepairKeeps ==
    ASSUME FeedInductive, NEW t \in Txns,
           \/ \E r \in Refs : RepairRead(t, r)
           \/ RepairWarehouse(t) \/ RepairItems(t)
    PROVE  FeedInductive'
<1> USE FeedTypes, FeedAssumption DEF FeedInductive, FeedInvariant
<1>1. ASSUME NEW r \in Refs, RepairRead(t, r) PROVE FeedInductive'
  <2> DEFINE n == [op |-> "repair", ref |-> r, step |-> "warehouse", row |-> NoRow]
  <2>1. n \in Transactions /\ txn' = [txn EXCEPT ![t] = n]
    BY <1>1 DEF RepairRead, Go, Transactions
  <2>2. TypeOK'
    BY <1>1, <2>1 DEF TypeOK, RepairRead, mapVars, rowVars, connectorVars
  <2>3. txn'[t] = n /\ status'[r] = "permanently_rejected"
    BY <1>1, <2>1 DEF TypeOK, RepairRead, rowVars
  <2>4. (IdleShape(t) /\ CreateShape(t) /\ AckShape(t) /\ RepairShape(t))'
    BY <2>3 DEF IdleShape, CreateShape, AckShape, RepairShape
  <2>5. UNCHANGED <<rowVars, offered, accepted, dismissed>> /\ nextSeq' >= nextSeq
    BY <1>1 DEF RepairRead, connectorVars, TypeOK
  <2>6. n.step # "commit" /\ \A u \in Txns \ {t} : ~(Locks(u) /\ txn[u].ref = n.ref)
    BY <1>1 DEF RepairRead, Locked, Locks
  <2> HIDE DEF n
  <2>7. QED BY <2>1, <2>2, <2>4, <2>5, <2>6, StatementKeeps
<1>2. ASSUME RepairWarehouse(t) \/ RepairItems(t), End(t), UNCHANGED nextSeq
      PROVE  FeedInductive'
  <2>1. UNCHANGED <<rowVars, offered, accepted, dismissed>> /\ nextSeq' >= nextSeq
    BY <1>2 DEF RepairWarehouse, RepairItems, connectorVars, TypeOK
  <2>2. TypeOK'
    BY <1>2 DEF TypeOK, RepairWarehouse, RepairItems, mapVars, rowVars,
       connectorVars, End
  <2>3. QED BY <1>2, <2>1, <2>2, EndKeeps
<1>3. ASSUME RepairWarehouse(t) \/ RepairItems(t)
      PROVE  /\ txn[t].op = "repair" /\ txn[t].ref \in Refs
             /\ status[txn[t].ref] = "permanently_rejected"
             /\ UNCHANGED <<rowVars, offered, accepted, dismissed>>
             /\ \A u \in Txns \ {t} : ~(Locks(u) /\ txn[u].ref = txn[t].ref)
  <2>1. txn[t].op = "repair" /\ UNCHANGED <<rowVars, offered, accepted, dismissed>>
    BY <1>3 DEF RepairWarehouse, RepairItems, connectorVars
  <2>2. QED BY <2>1 DEF TxnShape, RepairShape, OneWriter, Locks
<1>4. ASSUME RepairWarehouse(t), ~End(t) PROVE FeedInductive'
  <2> DEFINE n == [op |-> "repair", ref |-> txn[t].ref, step |-> "items", row |-> NoRow]
  <2>1. n \in Transactions /\ txn' = [txn EXCEPT ![t] = n]
    BY <1>3, <1>4 DEF RepairWarehouse, Go, Transactions
  <2>2. TypeOK'
    BY <1>4, <2>1 DEF TypeOK, RepairWarehouse, mapVars, rowVars, connectorVars
  <2>3. txn'[t] = n /\ UNCHANGED status
    BY <1>3, <1>4, <2>1 DEF TypeOK, rowVars
  <2>4. (IdleShape(t) /\ CreateShape(t) /\ AckShape(t) /\ RepairShape(t))'
    BY <1>3, <1>4, <2>3 DEF IdleShape, CreateShape, AckShape, RepairShape
  <2>5. nextSeq' >= nextSeq
    BY <1>4 DEF RepairWarehouse, TypeOK
  <2>6. n.step # "commit" /\ n.ref = txn[t].ref
    OBVIOUS
  <2> HIDE DEF n
  <2>7. QED BY <1>3, <1>4, <2>1, <2>2, <2>4, <2>5, <2>6, StatementKeeps
<1>5. ASSUME RepairItems(t), ~(End(t) /\ UNCHANGED nextSeq) PROVE FeedInductive'
  <2> DEFINE r == txn[t].ref
             row == Reoffered(r)
             n == [op |-> "repair", ref |-> r, step |-> "commit", row |-> row]
  <2>1. /\ r \in Refs /\ status[r] = "permanently_rejected" /\ nextSeq \in Nat
        /\ documentRef[r] = NoDocument
    BY <1>3, <1>5 DEF TypeOK, OneDocument
  <2>2. /\ row \in Rows /\ row.sequence = nextSeq /\ row.status = "pending"
        /\ row.documentRef = NoDocument
    <3>1. Current(r) \in Rows /\ Current(r).documentRef = NoDocument
      BY <2>1 DEF Current, Rows, TypeOK
    <3>2. row = [Current(r) EXCEPT !.status = "pending", !.sequence = nextSeq,
                                   !.retryCount = 0]
      BY DEF Reoffered
    <3>3. 0 \in 0..RetryBudget /\ "pending" \in Statuses
      BY DEF Statuses
    <3> HIDE DEF row
    <3>4. QED BY <2>1, <3>1, <3>2, <3>3 DEF Rows
  <2>3. n \in Transactions /\ txn' = [txn EXCEPT ![t] = n] /\ nextSeq' = nextSeq + 1
    BY <1>5, <2>1, <2>2 DEF RepairItems, Go, Transactions
  <2>4. n.op = "repair" /\ n.ref = r /\ n.step = "commit" /\ n.row = row
    OBVIOUS
  <2> HIDE DEF row, n
  <2>5. TypeOK'
    BY <1>5, <2>1, <2>3 DEF TypeOK, RepairItems, mapVars, rowVars, connectorVars
  <2>6. txn'[t] = n /\ UNCHANGED status
    BY <1>3, <1>5, <2>3 DEF TypeOK, rowVars
  <2>7. (IdleShape(t) /\ CreateShape(t) /\ AckShape(t) /\ RepairShape(t))'
    BY <2>1, <2>2, <2>4, <2>6 DEF IdleShape, CreateShape, AckShape, RepairShape
  <2>8. \A q \in Refs : status[q] # "none" => sequence[q] # nextSeq
    BY <2>1 DEF DistinctSequences, TypeOK
  <2>9. \A u \in Txns \ {t} : txn[u].step = "commit" => txn[u].row.sequence # nextSeq
    BY <2>1 DEF DrawnOnce
  <2>10. n.row.sequence \in 1..(nextSeq' - 1) /\ nextSeq' >= nextSeq
    BY <2>1, <2>2, <2>3, <2>4
  <2>11. QED
    BY <1>3, <1>5, <2>2, <2>3, <2>4, <2>5, <2>7, <2>8, <2>9, <2>10, StatementKeeps
<1>6. QED BY <1>1, <1>2, <1>4, <1>5 DEF RepairWarehouse

-----------------------------------------------------------------------------
(* A commit writes the row that its transaction prepared.                   *)

\* A commit keeps the invariant; the lock held since the row was read makes
\* what was then true of the row still true.
LEMMA CommitKeeps ==
    ASSUME FeedInductive, NEW t \in Txns,
           CreateCommit(t) \/ AckCommit(t) \/ RepairCommit(t)
    PROVE  FeedInductive'
<1> USE FeedTypes, FeedAssumption DEF FeedInductive, FeedInvariant
<1> DEFINE r == txn[t].ref
           row == txn[t].row
<1>1. /\ txn[t].step = "commit" /\ txn[t].op \in {"create", "ack", "repair"}
      /\ Write(r, row) /\ End(t)
      /\ UNCHANGED <<offered, nextSeq, requested, deliveries, mapVars, aborts,
                     repairs, cursor>>
  BY DEF CreateCommit, AckCommit, RepairCommit, connectorVars, TxnShape, AckShape
<1>2. r \in Refs /\ row \in Rows /\ row.sequence \in Nat /\ nextSeq \in Nat
  BY <1>1 DEF TypeOK, Transactions, Rows, TxnShape, CreateShape, AckShape, RepairShape
<1>3. /\ txn[t].op = "create" => status[r] = "none"
      /\ txn[t].op = "ack" => status[r] = "pending" /\ r \in offered
      /\ txn[t].op = "repair" =>
           status[r] = "permanently_rejected" /\ row.status = "pending"
      /\ row.status # "none"
      /\ row.status = "posted" <=> row.documentRef # NoDocument
      /\ txn[t].op # "ack" => row.status # "posted"
      /\ row.status = "permanently_rejected" =>
           /\ row.category = "retry_budget_exhausted" => row.retryCount = RetryBudget
           /\ txn[t].op # "create" =>
                row.category \in Reasons \cup {"retry_budget_exhausted"}
  BY <1>1 DEF TxnShape, CreateShape, AckShape, RepairShape
<1>4. accepted[r] = {} /\ (txn[t].op = "create" => r \notin offered)
  BY <1>1, <1>2, <1>3 DEF OneDocument, TypeOK, OfferedExists
<1>5. /\ accepted' \in [Refs -> SUBSET Documents] /\ inHand' \in SUBSET Refs
      /\ \A q \in Refs \ {r} : accepted'[q] = accepted[q]
      /\ \A d \in accepted'[r] : row.status = "posted" /\ d = row.documentRef
  <2>1. CASE AckCommit(t)
    <3>1. /\ accepted' = [accepted EXCEPT ![r] = @ \cup ({row.documentRef} \ {NoDocument})]
          /\ inHand' = inHand \ {r}
      BY <2>1 DEF AckCommit
    <3>2. row.documentRef \in Documents \cup {NoDocument}
      BY <1>2 DEF Rows
    <3>3. QED BY <1>2, <1>3, <1>4, <3>1, <3>2 DEF TypeOK
  <2>2. CASE ~AckCommit(t)
    BY <1>4, <2>2 DEF CreateCommit, RepairCommit, connectorVars, TypeOK
  <2>3. QED BY <2>1, <2>2
<1>6. \A u \in Txns : txn'[u] = IF u = t THEN NoTransaction ELSE txn[u]
  BY <1>1 DEF End, TypeOK
<1>20. /\ dismissed' \in SUBSET Refs /\ dismissed \subseteq dismissed'
       /\ txn[t].op = "ack" /\ row.category \in Reasons
            /\ row.status = "permanently_rejected" => r \in dismissed'
  <2>1. CASE AckCommit(t)
    BY <1>2, <2>1 DEF AckCommit, TypeOK
  <2>2. CASE ~AckCommit(t)
    BY <2>2 DEF CreateCommit, RepairCommit, TypeOK
  <2>3. QED BY <2>1, <2>2
<1> HIDE DEF row
<1>7. TypeOK'
  BY <1>1, <1>2, <1>5, <1>20 DEF TypeOK, Write, End, Rows, mapVars
<1>8. /\ status'[r] = row.status /\ sequence'[r] = row.sequence
      /\ retryCount'[r] = row.retryCount /\ documentRef'[r] = row.documentRef
      /\ category'[r] = row.category
      /\ \A q \in Refs \ {r} :
           /\ status'[q] = status[q] /\ sequence'[q] = sequence[q]
           /\ retryCount'[q] = retryCount[q] /\ documentRef'[q] = documentRef[q]
           /\ category'[q] = category[q]
  BY <1>1, <1>2 DEF Write, TypeOK
<1>9. /\ row.sequence \in 1..(nextSeq - 1)
      /\ \A q \in Refs : status[q] # "none" /\ sequence[q] = row.sequence => q = r
      /\ \A u \in Txns : txn[u].step = "commit" /\ txn[u].row.sequence = row.sequence
                           => txn[u].ref = r
  BY <1>1 DEF DrawnOnce, row
<1>10. \A u \in Txns \ {t} : Locks(u) => txn[u].ref # r
  BY <1>1 DEF OneWriter, Locks
<1> HIDE DEF r
<1>11. OneDocument'
  BY <1>2, <1>3, <1>5, <1>8 DEF OneDocument
<1>12. RefusedNeverOffered'
  <2>1. \A q \in offered \ {r} :
          status'[q] = "permanently_rejected" /\ category'[q] \in Unmapped
            => q \in dismissed' /\ category'[q] \in Reasons
    BY <1>8, <1>20 DEF RefusedNeverOffered, TypeOK
  <2>2. r \in offered /\ row.status = "permanently_rejected" => txn[t].op = "ack"
    BY <1>1, <1>3, <1>4
  <2>3. row.status = "permanently_rejected" /\ r \in offered /\ row.category \in Unmapped
          => r \in dismissed' /\ row.category \in Reasons
    BY <1>3, <1>20, <2>2 DEF Unmapped
  <2>4. QED BY <1>1, <1>8, <2>1, <2>3 DEF RefusedNeverOffered
<1>13. DistinctSequences'
  BY <1>1, <1>2, <1>8, <1>9 DEF DistinctSequences
<1>14. BudgetSpentFirst'
  BY <1>3, <1>8 DEF BudgetSpentFirst
<1>15. OfferedExists' /\ nextSeq' >= 1
  BY <1>1, <1>3, <1>8 DEF OfferedExists, TypeOK
<1>16. TxnShape'
  <2> SUFFICES ASSUME NEW u \in Txns
               PROVE  (IdleShape(u) /\ CreateShape(u) /\ AckShape(u) /\ RepairShape(u))'
    BY DEF TxnShape
  <2>1. CASE u = t
    BY <1>6, <2>1 DEF IdleShape, CreateShape, AckShape, RepairShape
  <2>2. CASE u # t
    <3>1. txn'[u] = txn[u]
      BY <1>6, <2>2
    <3>2. IdleShape(u) /\ CreateShape(u) /\ AckShape(u) /\ RepairShape(u)
      BY DEF TxnShape
    <3>3. Locks(u) /\ txn[u].ref \in Refs => status'[txn[u].ref] = status[txn[u].ref]
      BY <1>8, <1>10, <2>2
    <3>4. offered \subseteq Refs
      BY DEF TypeOK
    <3>5. QED
      BY <1>1, <3>1, <3>2, <3>3, <3>4
         DEF IdleShape, CreateShape, AckShape, RepairShape, Locks
  <2>3. QED BY <2>1, <2>2
<1>17. OneWriter'
  BY <1>6 DEF OneWriter, Locks
<1>18. DrawnOnce'
  <2> SUFFICES ASSUME NEW u \in Txns, txn'[u].step = "commit"
               PROVE  /\ txn'[u].row.sequence \in 1..(nextSeq' - 1)
                      /\ \A q \in Refs :
                           status'[q] # "none" /\ sequence'[q] = txn'[u].row.sequence
                             => q = txn'[u].ref
                      /\ \A v \in Txns :
                           /\ txn'[v].step = "commit"
                           /\ txn'[v].row.sequence = txn'[u].row.sequence
                           => txn'[v].ref = txn'[u].ref
    BY DEF DrawnOnce
  <2>1. u # t /\ txn'[u] = txn[u]
    BY <1>6
  <2>2. txn[u].row.sequence # row.sequence
    BY <1>9, <1>10, <2>1 DEF Locks
  <2>3. QED BY <1>1, <1>6, <1>8, <2>1, <2>2 DEF DrawnOnce
<1>19. QED
  BY <1>7, <1>11, <1>12, <1>13, <1>14, <1>15, <1>16, <1>17, <1>18

-----------------------------------------------------------------------------
(* Everything else leaves rows and transactions alone.                      *)

\* A step that changes no row, no transaction and no offer.
LEMMA OutsideKeeps ==
    ASSUME FeedInductive, TypeOK',
           UNCHANGED <<rowVars, nextSeq, txn, offered, accepted, dismissed>>
    PROVE  FeedInductive'
BY DEF FeedInductive, FeedInvariant, OneDocument, RefusedNeverOffered,
   DistinctSequences, BudgetSpentFirst, TxnShape, IdleShape, CreateShape,
   AckShape, RepairShape, OneWriter, Locks, DrawnOnce, OfferedExists, rowVars

\* Producers, maps and a connector that starts over.
LEMMA EnvironmentKeeps ==
    ASSUME FeedInductive,
           (\E r \in Refs : RequestPosting(r)) \/ MapStep \/ StartOver
    PROVE  FeedInductive'
<1>1. UNCHANGED <<rowVars, nextSeq, txn, offered, accepted, dismissed>>
  BY DEF RequestPosting, MapStep, SuggestItem, ConfirmItem, RetireItem,
     SetWarehouse, RetireWarehouse, StartOver, connectorVars
<1>2. TypeOK'
  BY DEF FeedInductive, FeedInvariant, TypeOK, RequestPosting, MapStep,
     SuggestItem, ConfirmItem, RetireItem, SetWarehouse, RetireWarehouse,
     StartOver, mapVars, rowVars, connectorVars
<1>3. QED BY <1>1, <1>2, OutsideKeeps

\* An aborted transaction.
LEMMA AbortKeeps ==
    ASSUME FeedInductive, NEW t \in Txns, Abort(t)
    PROVE  FeedInductive'
<1> USE FeedTypes DEF FeedInductive, FeedInvariant
<1>1. UNCHANGED <<rowVars, offered, accepted, dismissed>> /\ nextSeq' >= nextSeq /\ End(t)
  BY DEF Abort, connectorVars, TypeOK
<1>2. TypeOK'
  BY DEF TypeOK, Abort, mapVars, rowVars, connectorVars, End
<1>3. QED BY <1>1, <1>2, EndKeeps

\* A pull offers pending rows only.
LEMMA PullKeeps ==
    ASSUME FeedInductive, PullPostings
    PROVE  FeedInductive'
<1> USE DEF FeedInductive, FeedInvariant
<1> DEFINE items == {r \in Page : Assembles(r)}
<1>1. /\ offered' = offered \cup items /\ inHand' = inHand \cup items
      /\ cursor' \in Nat
      /\ UNCHANGED <<rowVars, nextSeq, txn, accepted, dismissed>>
  <2>1. PICK last \in Page : cursor' = sequence[last]
    BY DEF PullPostings
  <2>2. QED BY <2>1 DEF PullPostings, Page, Due, TypeOK
<1>2. items \subseteq Refs /\ \A r \in items : status[r] = "pending"
  BY DEF Page, Due
<1> HIDE DEF items
<1>3. TypeOK'
  BY <1>1, <1>2 DEF TypeOK, PullPostings, mapVars, rowVars
<1>4. RefusedNeverOffered' /\ OfferedExists'
  BY <1>1, <1>2 DEF RefusedNeverOffered, OfferedExists, rowVars
<1>5. OneDocument' /\ DistinctSequences' /\ BudgetSpentFirst' /\ nextSeq' >= 1
  BY <1>1 DEF OneDocument, DistinctSequences, BudgetSpentFirst, rowVars
<1>6. TxnShape'
  BY <1>1 DEF TxnShape, IdleShape, CreateShape, AckShape, RepairShape, rowVars
<1>7. OneWriter' /\ DrawnOnce'
  BY <1>1 DEF OneWriter, Locks, DrawnOnce, rowVars
<1>8. QED BY <1>3, <1>4, <1>5, <1>6, <1>7

\* An ack of a terminal row is success only for the stored document.
LEMMA AckAnsweredKeeps ==
    ASSUME FeedInductive, NEW r \in Refs, NEW outcome \in Outcomes,
           NEW d \in Named(outcome), AckAnswered(r, outcome, d)
    PROVE  FeedInductive'
<1> USE DEF FeedInductive, FeedInvariant
<1>1. UNCHANGED <<rowVars, nextSeq, txn, offered, dismissed>>
  BY DEF AckAnswered
<1>2. /\ \A q \in Refs \ {r} : accepted'[q] = accepted[q]
      /\ \A e \in accepted'[r] : e \in accepted[r] \/ (status[r] = "posted" /\ documentRef[r] = e)
  BY DEF AckAnswered, sameLogicalOutcome, TypeOK
<1>3. TypeOK'
  BY DEF Named, TypeOK, AckAnswered, mapVars, rowVars
<1>4. OneDocument'
  BY <1>1, <1>2 DEF OneDocument, rowVars
<1>5. RefusedNeverOffered' /\ OfferedExists' /\ DistinctSequences' /\ BudgetSpentFirst'
      /\ nextSeq' >= 1
  BY <1>1 DEF RefusedNeverOffered, OfferedExists, DistinctSequences,
     BudgetSpentFirst, rowVars
<1>6. TxnShape'
  BY <1>1 DEF TxnShape, IdleShape, CreateShape, AckShape, RepairShape, rowVars
<1>7. OneWriter' /\ DrawnOnce'
  BY <1>1 DEF OneWriter, Locks, DrawnOnce, rowVars
<1>8. QED BY <1>3, <1>4, <1>5, <1>6, <1>7

-----------------------------------------------------------------------------
(* The invariant, and the action property that rests on it.                 *)

\* Before the first event there is no row and no transaction.
LEMMA InitFeed == Init => FeedInductive
<1> SUFFICES ASSUME Init PROVE FeedInductive
  OBVIOUS
<1> USE FeedTypes, FeedAssumption DEF Init
<1>1. TypeOK
  BY DEF TypeOK, Statuses, Categories
<1>2. OneDocument /\ RefusedNeverOffered /\ DistinctSequences /\ BudgetSpentFirst
  BY DEF OneDocument, RefusedNeverOffered, DistinctSequences, BudgetSpentFirst
<1>3. TxnShape /\ OneWriter /\ DrawnOnce /\ OfferedExists
  BY DEF TxnShape, IdleShape, CreateShape, AckShape, RepairShape, OneWriter,
     Locks, DrawnOnce, OfferedExists
<1>4. QED BY <1>1, <1>2, <1>3 DEF FeedInductive, FeedInvariant

\* Every step keeps the invariant.
LEMMA NextFeed == FeedInductive /\ [Next]_vars => FeedInductive'
<1> SUFFICES ASSUME FeedInductive, [Next]_vars PROVE FeedInductive'
  OBVIOUS
<1>1. CASE UNCHANGED vars
  <2>1. TypeOK'
    BY <1>1 DEF FeedInductive, FeedInvariant, TypeOK, vars, mapVars, rowVars,
       connectorVars
  <2>2. QED BY <1>1, <2>1, OutsideKeeps DEF vars, connectorVars
<1>2. CASE \E r \in Refs : RequestPosting(r) \/ Acknowledge(r)
  BY <1>2, EnvironmentKeeps, AckAnsweredKeeps, AckOutcomeKeeps DEF Acknowledge
<1>3. CASE MapStep \/ StartOver
  BY <1>3, EnvironmentKeeps
<1>4. CASE \E t \in Txns : ConsumerStep(t) \/ AckCommit(t) \/ Abort(t)
  BY <1>4, ConsumerKeeps, CommitKeeps, AbortKeeps DEF ConsumerStep
<1>5. CASE \E t \in Txns : RepairStep(t) \/ \E r \in Refs : RepairRead(t, r)
  BY <1>5, RepairKeeps, CommitKeeps DEF RepairStep
<1>6. CASE PullPostings
  BY <1>6, PullKeeps
<1>7. QED BY <1>1, <1>2, <1>3, <1>4, <1>5, <1>6 DEF Next

\* The inductive invariant holds in every reachable state.
THEOREM FeedInductiveHolds == Spec => []FeedInductive
<1>1. QED BY InitFeed, NextFeed, PTL DEF Spec

\* One document per row whatever acks arrive, no offer of a row rejected for a
\* missing mapping, distinct sequence numbers, and a retry budget spent before
\* it is called exhausted (ackOutcome, pullPostings, repairPosting).
THEOREM FeedInvariantHolds == Spec => []FeedInvariant
<1>1. FeedInductive => FeedInvariant
  BY DEF FeedInductive
<1>2. QED BY <1>1, FeedInductiveHolds, PTL

\* A posted row never changes again, and a rejected one only by a repair: an
\* ack or an event that comes late finds the row lock or the terminal status.
THEOREM OutcomeStandsHolds == Spec => OutcomeStands
<1> DEFINE Stands(r) ==
      status[r] \in Terminal /\ Current(r)' # Current(r) =>
        /\ status[r] = "permanently_rejected"
        /\ status'[r] = "pending"
        /\ \E t \in Txns : txn[t].op = "repair" /\ txn[t].ref = r
<1>1. FeedInductive /\ [Next]_vars => [\A r \in Refs : Stands(r)]_vars
  <2> SUFFICES ASSUME FeedInductive, Next, NEW r \in Refs, status[r] \in Terminal,
                      Current(r)' # Current(r)
               PROVE  /\ status[r] = "permanently_rejected"
                      /\ status'[r] = "pending"
                      /\ \E t \in Txns : txn[t].op = "repair" /\ txn[t].ref = r
    OBVIOUS
  <2>1. ~UNCHANGED rowVars
    BY DEF Current, rowVars
  <2>2. PICK t \in Txns : CreateCommit(t) \/ AckCommit(t) \/ RepairCommit(t)
    BY ZenonT(40), <2>1 DEF Next, RequestPosting, Acknowledge, AckAnswered, AckOutcome, MapStep,
       SuggestItem, ConfirmItem, RetireItem, SetWarehouse, RetireWarehouse,
       ConsumerStep, ResolveWarehouse, ResolveItems, InsertPosting, InsertConflicts,
       Abort, RepairStep, RepairRead, RepairWarehouse, RepairItems, PullPostings,
       StartOver
  <2>3. Write(txn[t].ref, txn[t].row)
    BY <2>2 DEF CreateCommit, AckCommit, RepairCommit
  <2>4. txn[t].ref = r
    BY <2>3 DEF Write, Current, FeedInductive, FeedInvariant, TypeOK
  <2>5. RepairCommit(t) /\ txn[t].op = "repair"
    BY <2>2, <2>4 DEF CreateCommit, AckCommit, RepairCommit, FeedInductive,
       TxnShape, CreateShape, AckShape, Terminal
  <2>6. status[r] = "permanently_rejected" /\ txn[t].row.status = "pending"
    BY <2>4, <2>5 DEF RepairCommit, FeedInductive, TxnShape, RepairShape
  <2>7. status'[r] = "pending"
    BY <2>3, <2>4, <2>6 DEF Write, FeedInductive, FeedInvariant, TypeOK
  <2>8. QED BY <2>4, <2>5, <2>6, <2>7
<1>2. QED BY <1>1, FeedInductiveHolds, PTL DEF Spec, OutcomeStands
=============================================================================
