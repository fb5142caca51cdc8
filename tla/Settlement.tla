----------------------------- MODULE Settlement -----------------------------
(***************************************************************************)
(* Receivables of captured sales, the cash applied to them, and the claims *)
(* that collect them from a third-party payer (ReceivableService and       *)
(* ClaimService).  The POS opens receivables from a settlement intent; the *)
(* console applies payments, submits claims and reconciles remittances.    *)
(*                                                                         *)
(* Every operation is one READ COMMITTED transaction.  It locks the rows   *)
(* it is about to write with SELECT ... FOR UPDATE, one row after the      *)
(* other, decides on what the locked rows say, and writes; its writes      *)
(* become visible together at the commit.  A transaction is therefore its  *)
(* start, one LockRow per row, and one last step that decides, writes and  *)
(* commits.  Money is the integer of ten-thousandths that toScaledInt      *)
(* makes of a decimal string.                                              *)
(***************************************************************************)
EXTENDS Integers, Functions

CONSTANTS
    Payers,         \* payer_account rows of the tenant
    Stores,
    TenantWide,     \* payer_account.store_id IS NULL
    payerStore,     \* [Payers -> store of the payer, or TenantWide]
    Sales,
    saleStore,      \* [Sales -> store of the sale]
    OwedAmounts,    \* amounts an intent may name
    Payments,       \* amounts a payment may name
    Remittances,    \* amounts a payer may remit
    MaxPayers,      \* payers named by one intent
    MaxRefs,        \* bound: receivables ever opened
    MaxClaims,      \* bound: claims ever submitted
    Consoles,       \* console sessions
    Txns,           \* concurrent console transactions
    NoPayer

Refs == 1 .. MaxRefs
ClaimRefs == 1 .. MaxClaims

ASSUME SettlementAssumption ==
    /\ MaxRefs \in Nat
    /\ MaxClaims \in Nat
    /\ MaxPayers \in Nat \ {0}
    /\ TenantWide \notin Stores
    /\ NoPayer \notin Payers
    /\ payerStore \in [Payers -> Stores \cup {TenantWide}]
    /\ saleStore \in [Sales -> Stores]
    /\ OwedAmounts \subseteq Nat \ {0}
    /\ Payments \subseteq Nat \ {0}
    /\ Remittances \subseteq Nat

VARIABLES
    receivable,     \* [Refs -> row]; ids are time-ordered, so numbers
    owed,           \* owedAmount of the intent that opened the row
    paid,           \* sum of the row's payment_application entries
    claim,          \* [ClaimRefs -> row with its claim_receivables]
    result,         \* amounts of the claim's reconciliation_result
    view,           \* what each console last read of one receivable
    txn             \* [Txns -> running transaction]

vars == <<receivable, owed, paid, claim, result, view, txn>>

States == {"open", "partially_applied", "settled", "claimed", "flagged"}
TerminalStates == {"settled", "flagged"}
ClaimableStates == {"open", "partially_applied"}

NoStore == TenantWide

Absent == [state |-> "none", balance |-> 0, version |-> 0,
           payer |-> NoPayer, store |-> NoStore]

NoClaim == [status |-> "none", payer |-> NoPayer, store |-> NoStore,
            lines |-> {}, outcome |-> "none"]

\* A transaction: the console that sent it and what that console had read,
\* the rows it locks, and the rows as it read them under their locks (Absent:
\* not locked yet).
Idle == [op |-> "idle", version |-> 0, seen |-> 0, amount |-> 0,
         payer |-> NoPayer, claim |-> 0, refs |-> {},
         read |-> [r \in Refs |-> Absent]]

Init ==
    /\ receivable = [r \in Refs |-> Absent]
    /\ owed = [r \in Refs |-> 0]
    /\ paid = [r \in Refs |-> 0]
    /\ claim = [c \in ClaimRefs |-> NoClaim]
    /\ result = [c \in ClaimRefs |-> [claimed |-> 0, remitted |-> 0]]
    /\ view = [k \in Consoles |-> [ref |-> 0, version |-> 0, balance |-> 0]]
    /\ txn = [t \in Txns |-> Idle]

Opened == {r \in Refs : receivable[r].state # "none"}

-----------------------------------------------------------------------------
(* The POS: openFromIntent *)

payerInScope(p, s) == payerStore[p] \in {TenantWide, s}

\* One row per payer of the intent, all of them or none.  A payer out of scope,
\* or a sale that is not of this store (the composite foreign key), is a
\* conflict without effect.
OpenFromIntent(s, sale, n, intent) ==
    \E first \in Refs :
        /\ Opened = 1 .. (first - 1)
        /\ first + n - 1 \in Refs
        /\ \A i \in 1 .. n : payerInScope(intent[i].payer, s)
        /\ saleStore[sale] = s
        /\ receivable' = [r \in Refs |->
               IF r \in first .. (first + n - 1)
               THEN [state |-> "open", balance |-> intent[r - first + 1].owed,
                     version |-> 0, payer |-> intent[r - first + 1].payer,
                     store |-> s]
               ELSE receivable[r]]
        /\ owed' = [r \in Refs |-> IF r \in first .. (first + n - 1)
                                   THEN intent[r - first + 1].owed ELSE owed[r]]
        /\ UNCHANGED <<paid, claim, result, view, txn>>

-----------------------------------------------------------------------------
(* Row locks *)

\* getOne: a console reads a receivable, without a lock.
GetOne(k, r) ==
    /\ r \in Opened
    /\ view' = [view EXCEPT ![k] = [ref |-> r,
                                    version |-> receivable[r].version,
                                    balance |-> receivable[r].balance]]
    /\ UNCHANGED <<receivable, owed, paid, claim, result, txn>>

Locked(t) == {r \in Refs : txn[t].read[r].state # "none"}

\* Variant of Free: the rows are read without FOR UPDATE.
FreeAlways(r) == TRUE

Free(r) == \A t \in Txns : r \notin Locked(t)

\* FOR UPDATE reaches a row: it waits while another transaction holds it and
\* then reads the committed row.  Reconciliation takes its rows in the order
\* of their ids; a claim's "id = ANY(...)" names no order.
LockRow(t, r) ==
    /\ r \in txn[t].refs \ Locked(t)
    /\ txn[t].op = "reconcile" => \A q \in txn[t].refs \ Locked(t) : r <= q
    /\ Free(r)
    /\ txn' = [txn EXCEPT ![t].read[r] = receivable[r]]
    /\ UNCHANGED <<receivable, owed, paid, claim, result, view>>

AllLocked(t) == txn[t].refs = Locked(t)

\* A deadlock victim, a lost connection or a crash: nothing is written.
Rollback(t) ==
    /\ txn[t].op # "idle"
    /\ txn' = [txn EXCEPT ![t] = Idle]
    /\ UNCHANGED <<receivable, owed, paid, claim, result, view>>

\* The operation answers conflict: it commits without having written.
Conflict(t) ==
    /\ txn' = [txn EXCEPT ![t] = Idle]
    /\ UNCHANGED <<receivable, owed, paid, claim, result, view>>

-----------------------------------------------------------------------------
(* Cash application *)

\* The console applies an amount to the receivable it has on its screen.
ApplyStart(t, k, amount) ==
    /\ txn[t].op = "idle"
    /\ view[k].ref # 0
    /\ txn' = [txn EXCEPT ![t] = [Idle EXCEPT !.op = "apply",
                                              !.version = view[k].version,
                                              !.seen = view[k].balance,
                                              !.amount = amount,
                                              !.refs = {view[k].ref}]]
    /\ UNCHANGED <<receivable, owed, paid, claim, result, view>>

\* Stale version, terminal receivable, or over-application.
ApplyConflicts(t, r) ==
    \/ txn[t].read[r].version # txn[t].version
    \/ txn[t].read[r].state \in TerminalStates
    \/ txn[t].amount > txn[t].read[r].balance

\* decideApplication
decideApplication(balance, amount) ==
    [balance |-> balance - amount,
     state |-> IF balance - amount = 0 THEN "settled" ELSE "partially_applied"]

\* The ledger entry is inserted, then the row is updated WHERE version = the
\* caller's; an update that finds no row leaves the entry standing.
ApplyWrite(t) ==
    /\ txn[t].op = "apply"
    /\ AllLocked(t)
    /\ \E r \in txn[t].refs :
         LET row == txn[t].read[r]
             decision == decideApplication(row.balance, txn[t].amount)
         IN  \/ ApplyConflicts(t, r) /\ Conflict(t)
             \/ /\ ~ApplyConflicts(t, r)
                /\ paid' = [paid EXCEPT ![r] = @ + txn[t].amount]
                /\ receivable' =
                     IF receivable[r].version = txn[t].version
                     THEN [receivable EXCEPT ![r].balance = decision.balance,
                                             ![r].state = decision.state,
                                             ![r].version = @ + 1]
                     ELSE receivable
                /\ txn' = [txn EXCEPT ![t] = Idle]
                /\ UNCHANGED <<owed, claim, result, view>>

-----------------------------------------------------------------------------
(* Claims *)

\* submitClaim: an unknown payer or receivable is refused at once.
SubmitStart(t, p, refs) ==
    /\ txn[t].op = "idle"
    /\ refs # {}
    /\ refs \subseteq Opened
    /\ txn' = [txn EXCEPT ![t] = [Idle EXCEPT !.op = "submit", !.payer = p,
                                              !.refs = refs]]
    /\ UNCHANGED <<receivable, owed, paid, claim, result, view>>

\* Every receivable claimable, owed by the claim's payer, and of one store.
Claimable(t) ==
    /\ \A r \in txn[t].refs : /\ txn[t].read[r].state \in ClaimableStates
                              /\ txn[t].read[r].payer = txn[t].payer
    /\ \A q, r \in txn[t].refs : txn[t].read[q].store = txn[t].read[r].store

\* The row once a claim covers it.
Submitted(r) == [receivable[r] EXCEPT !.state = "claimed", !.version = @ + 1]

SubmitWrite(t) ==
    /\ txn[t].op = "submit"
    /\ AllLocked(t)
    /\ \/ ~Claimable(t) /\ Conflict(t)
       \/ /\ Claimable(t)
          /\ \E c \in ClaimRefs, s \in Stores :
               /\ {d \in ClaimRefs : claim[d].status = "none"} = c .. MaxClaims
               /\ \A r \in txn[t].refs : txn[t].read[r].store = s
               /\ claim' = [claim EXCEPT ![c] =
                              [status |-> "submitted", payer |-> txn[t].payer,
                               store |-> s, lines |-> txn[t].refs,
                               outcome |-> "none"]]
          /\ receivable' = [r \in Refs |-> IF r \in txn[t].refs THEN Submitted(r)
                                                               ELSE receivable[r]]
          /\ txn' = [txn EXCEPT ![t] = Idle]
          /\ UNCHANGED <<owed, paid, result, view>>

-----------------------------------------------------------------------------
(* Remittances *)

\* Variant of ReconcileStart: the status is read without locking the claim.
ReconcileStartUnlocked(t, c, amount) ==
    /\ txn[t].op = "idle"
    /\ claim[c].status = "submitted"
    /\ txn' = [txn EXCEPT ![t] = [Idle EXCEPT !.op = "reconcile", !.claim = c,
                                              !.amount = amount,
                                              !.refs = claim[c].lines]]
    /\ UNCHANGED <<receivable, owed, paid, claim, result, view>>

\* The claim row is locked first, and its status read under that lock.
ReconcileStart(t, c, amount) ==
    /\ txn[t].op = "idle"
    /\ claim[c].status = "submitted"
    /\ \A u \in Txns : ~(txn[u].op = "reconcile" /\ txn[u].claim = c)
    /\ txn' = [txn EXCEPT ![t] = [Idle EXCEPT !.op = "reconcile", !.claim = c,
                                              !.amount = amount,
                                              !.refs = claim[c].lines]]
    /\ UNCHANGED <<receivable, owed, paid, claim, result, view>>

sumScaled(t) == SumFunction([r \in txn[t].refs |-> txn[t].read[r].balance])

\* decideReconciliation
decideReconciliation(claimed, remitted) ==
    IF claimed = remitted THEN "settled"
    ELSE IF claimed > remitted THEN "partial" ELSE "flagged"

\* What a line takes of the remainder that reaches it, first in first out.
Taken(left, balance) ==
    IF left <= 0 THEN 0 ELSE IF left < balance THEN left ELSE balance

\* left[r]: what remains of the remittance after the lines up to r.
Apportions(t, left) ==
    /\ left[0] = txn[t].amount
    /\ \A r \in Refs :
         left[r] = IF r \in txn[t].refs
                   THEN left[r - 1] - Taken(left[r - 1], txn[t].read[r].balance)
                   ELSE left[r - 1]

\* Variant of Cleared: the state moves and the balance does not.
ClearedStateOnly(r, outcome) ==
    [receivable[r] EXCEPT !.state = outcome, !.version = @ + 1]

\* The line's row after a clearing remittance, and after its share of a
\* partial one.
Cleared(r, outcome) ==
    [receivable[r] EXCEPT !.balance = 0, !.state = outcome, !.version = @ + 1]

Reduced(t, r, taken) ==
    IF taken > 0
    THEN [receivable[r] EXCEPT !.balance = txn[t].read[r].balance - taken,
                               !.version = @ + 1]
    ELSE receivable[r]

\* The whole effect of a remittance on the claim's lines.
Remit(t, outcome) ==
    \/ /\ outcome \in TerminalStates
       /\ receivable' = [r \in Refs |-> IF r \in txn[t].refs
                                        THEN Cleared(r, outcome)
                                        ELSE receivable[r]]
    \/ /\ outcome = "partial"
       /\ \E left \in [0 .. MaxRefs -> 0 .. txn[t].amount] :
            /\ Apportions(t, left)
            /\ receivable' = [r \in Refs |->
                   IF r \in txn[t].refs
                   THEN Reduced(t, r, left[r - 1] - left[r])
                   ELSE receivable[r]]

\* Every line must still be claimed.
ReconcileWrite(t) ==
    /\ txn[t].op = "reconcile"
    /\ AllLocked(t)
    /\ \/ /\ \E r \in txn[t].refs : txn[t].read[r].state # "claimed"
          /\ Conflict(t)
       \/ /\ \A r \in txn[t].refs : txn[t].read[r].state = "claimed"
          /\ LET c == txn[t].claim
                 outcome == decideReconciliation(sumScaled(t), txn[t].amount)
             IN  /\ Remit(t, outcome)
                 /\ claim' = [claim EXCEPT ![c].status = "reconciled",
                                           ![c].outcome = outcome]
                 /\ result' = [result EXCEPT ![c] =
                                 [claimed |-> sumScaled(t),
                                  remitted |-> txn[t].amount]]
          /\ txn' = [txn EXCEPT ![t] = Idle]
          /\ UNCHANGED <<owed, paid, view>>

-----------------------------------------------------------------------------
\* The payers of an intent of length n, and what each of them owes.
Intents(n) == [1 .. n -> [payer : Payers, owed : OwedAmounts]]

Next ==
    \/ \E s \in Stores, sale \in Sales, n \in 1 .. MaxPayers :
         \E intent \in Intents(n) : OpenFromIntent(s, sale, n, intent)
    \/ \E k \in Consoles, r \in Refs : GetOne(k, r)
    \/ \E t \in Txns :
         \/ \E k \in Consoles, amount \in Payments : ApplyStart(t, k, amount)
         \/ \E p \in Payers, refs \in SUBSET Refs : SubmitStart(t, p, refs)
         \/ \E c \in ClaimRefs, amount \in Remittances : ReconcileStart(t, c, amount)
         \/ \E r \in Refs : LockRow(t, r)
         \/ ApplyWrite(t)
         \/ SubmitWrite(t)
         \/ ReconcileWrite(t)
         \/ Rollback(t)

Spec == Init /\ [][Next]_vars

-----------------------------------------------------------------------------
(* Properties *)

Rows == [state : States \cup {"none"}, balance : Nat, version : Nat,
         payer : Payers \cup {NoPayer}, store : Stores \cup {NoStore}]

Operations == [op : {"idle", "apply", "submit", "reconcile"},
               version : Nat, seen : Nat, amount : Nat,
               payer : Payers \cup {NoPayer},
               claim : ClaimRefs \cup {0}, refs : SUBSET Refs,
               read : [Refs -> Rows]]

\* Every variable has its type: the columns of receivable and claim with their
\* CHECK constraints, and the parameters of a running operation.
TypeOK ==
    /\ receivable \in [Refs -> Rows]
    /\ owed \in [Refs -> Nat]
    /\ paid \in [Refs -> Nat]
    /\ claim \in [ClaimRefs -> [status : {"none", "submitted", "reconciled"},
                                payer : Payers \cup {NoPayer},
                                store : Stores \cup {NoStore},
                                lines : SUBSET Refs,
                                outcome : {"none", "settled", "partial", "flagged"}]]
    /\ DOMAIN result = ClaimRefs
    /\ view \in [Consoles -> [ref : Refs \cup {0}, version : Nat, balance : Nat]]
    /\ txn \in [Txns -> Operations]

\* What is outstanding of a receivable or in the cash ledger for it, and what
\* the remittance of a claim paid of it.
Accounted == [r \in Refs |-> receivable[r].balance + paid[r]]

Collected ==
    [c \in ClaimRefs |-> IF result[c].remitted < result[c].claimed
                         THEN result[c].remitted ELSE result[c].claimed]

\* No money is lost or made: what the intents said is owed equals what is still
\* outstanding, plus the cash ledger, plus what the reconciled remittances
\* paid of their claims (an over-remittance pays the claimed amount only).
\* Payments, claims and remittances meet on the same rows in any order.
MoneyConserved ==
    SumFunction(owed) = SumFunction(Accounted) + SumFunction(Collected)

\* The state says what the balance says.  A receivable of balance zero that is
\* not terminal has been cleared, first in first out, by a partial remittance;
\* it stays claimed, and no operation of the code can take it further.
StateMatchesBalance ==
    \A r \in Opened :
        LET row == receivable[r]
        IN  /\ row.state = "open" => row.balance = owed[r] /\ row.balance > 0
            /\ row.state = "partially_applied" => row.balance \in 1 .. (owed[r] - 1)
            /\ row.state \in TerminalStates => row.balance = 0
            /\ row.balance <= owed[r]
            /\ row.state = "claimed" /\ row.balance = 0 =>
                 \E c \in ClaimRefs : r \in claim[c].lines /\ claim[c].outcome = "partial"

\* A receivable is claimed only while some claim of it is pending, or after a
\* remittance that left part of the claim unpaid.
ClaimedHasReason ==
    \A r \in Opened :
        receivable[r].state = "claimed" =>
          \E c \in ClaimRefs : /\ r \in claim[c].lines
                               /\ \/ claim[c].status = "submitted"
                                  \/ claim[c].outcome = "partial"

\* A claim collects debts of its own payer and store only, and a payer of one
\* store is never claimed upon by another: the scope check of the intent and
\* the payer and store checks of the claim, taken together.
ClaimCoversOwnDebt ==
    \A c \in ClaimRefs :
        claim[c].status # "none" =>
          /\ payerStore[claim[c].payer] \in {TenantWide, claim[c].store}
          /\ \A r \in claim[c].lines : /\ receivable[r].payer = claim[c].payer
                                        /\ receivable[r].store = claim[c].store

\* The lines of a claim that was settled or flagged stay so, with nothing
\* outstanding, whatever other claims or payments name them.
ClearedClaimStands ==
    \A c \in ClaimRefs :
        claim[c].outcome \in TerminalStates =>
          \A r \in claim[c].lines : /\ receivable[r].state = claim[c].outcome
                                    /\ receivable[r].balance = 0

\* VALID_TRANSITIONS of the receivable's lifecycle.
canTransition(from, to) ==
    \/ from = "open" /\ to \in {"partially_applied", "settled", "claimed"}
    \/ from = "partially_applied" /\ to \in {"settled", "claimed", "flagged"}
    \/ from = "claimed" /\ to \in {"settled", "partially_applied", "flagged"}

\* No operation moves a receivable outside VALID_TRANSITIONS, though none of
\* them calls canTransition.
ValidLifecycle ==
    [][\A r \in Opened : \/ receivable'[r].state = receivable[r].state
                         \/ canTransition(receivable[r].state, receivable'[r].state)]_vars

\* A payment enters the ledger only against the balance its console had read:
\* every write of a balance moves the version, in all three writers, and the
\* ledger entry and the new balance come together.
AppliedAsSeen ==
    [][\A r \in Refs : paid'[r] # paid[r] =>
          \E t \in Txns :
             /\ txn[t].op = "apply" /\ txn[t].refs = {r}
             /\ receivable[r].balance = txn[t].seen
             /\ receivable'[r].balance = txn[t].seen - txn[t].amount
             /\ paid'[r] = paid[r] + txn[t].amount]_vars

\* A claim is reconciled once: no second remittance replaces its result, also
\* when two arrive together.
ReconciledOnce ==
    [][\A c \in ClaimRefs : claim[c].status = "reconciled" =>
          claim'[c] = claim[c] /\ result'[c] = result[c]]_vars

-----------------------------------------------------------------------------
(* The inductive invariant *)

\* Nothing is owed before a receivable is opened, and nothing collected before
\* a claim is reconciled.
LedgerShape ==
    /\ \A r \in Refs \ Opened : receivable[r].balance = 0 /\ owed[r] = 0
    /\ \A c \in ClaimRefs :
         /\ result[c].claimed \in Int /\ result[c].remitted \in Int
         /\ claim[c].status # "reconciled" => Collected[c] = 0

\* A transaction holds rows it needs, nobody else holds them, and they still
\* are what it read.
LockDiscipline ==
    \A t \in Txns :
        /\ txn[t].op = "idle" => txn[t].refs = {}
        /\ txn[t].refs \subseteq Opened
        /\ Locked(t) \subseteq txn[t].refs
        /\ \A r \in Locked(t) : txn[t].read[r] = receivable[r]
        /\ \A u \in Txns : \A r \in Locked(t) : r \in Locked(u) => t = u

\* What an operation carries from its start.
OperationShape ==
    \A t \in Txns :
        /\ txn[t].op = "apply" => /\ txn[t].amount > 0
                                  /\ \E r \in Refs : txn[t].refs = {r}
        /\ txn[t].op = "submit" => txn[t].payer \in Payers /\ txn[t].refs # {}
        /\ txn[t].op = "reconcile" =>
             /\ txn[t].claim \in ClaimRefs
             /\ claim[txn[t].claim].status = "submitted"
             /\ claim[txn[t].claim].lines = txn[t].refs
             /\ \A u \in Txns : /\ txn[u].op = "reconcile"
                                 /\ txn[u].claim = txn[t].claim => t = u

\* A version stands for a balance: whoever read this version of a row knows its
\* balance.
SeenByVersion ==
    /\ \A k \in Consoles : view[k].ref # 0 =>
         /\ view[k].ref \in Opened
         /\ view[k].version <= receivable[view[k].ref].version
         /\ view[k].version = receivable[view[k].ref].version
              => view[k].balance = receivable[view[k].ref].balance
    /\ \A t \in Txns : \A r \in txn[t].refs : txn[t].op = "apply" =>
         /\ txn[t].version <= receivable[r].version
         /\ txn[t].version = receivable[r].version
              => txn[t].seen = receivable[r].balance

ClaimShape ==
    \A c \in ClaimRefs :
        /\ claim[c].status = "none" => claim[c].lines = {}
        /\ claim[c].lines \subseteq Opened
        /\ claim[c].status # "reconciled" => claim[c].outcome = "none"

DebtInScope ==
    \A r \in Opened : /\ receivable[r].payer \in Payers
                      /\ payerStore[receivable[r].payer] \in {TenantWide, receivable[r].store}

\* The safety invariants with what their induction needs: held rows are
\* current, claims being reconciled are still submitted, versions stand for
\* balances.
SettlementInvariant ==
    /\ TypeOK
    /\ LockDiscipline
    /\ OperationShape
    /\ SeenByVersion
    /\ ClaimShape
    /\ DebtInScope
    /\ StateMatchesBalance
    /\ ClaimedHasReason
    /\ ClaimCoversOwnDebt
    /\ ClearedClaimStands

=============================================================================
