------------------------------- MODULE Outbox -------------------------------
(***************************************************************************)
(* The transactional outbox: the table outbox_events, its producers, the   *)
(* drainer replicas of the worker that claim rows and hand them to the     *)
(* registered consumers, and the retention sweep.                          *)
(*                                                                         *)
(* Time is relative.  wait[e] is how long next_attempt_at still lies in    *)
(* the future (0: NULL or past), age[e] how long ago updated_at was set.   *)
(* Every transition to a processed state sets processed_at and updated_at  *)
(* in one UPDATE, so age is also the age of processed_at.  age saturates   *)
(* one unit beyond the longest retention window, wait at the longest       *)
(* backoff delay; no run of the model is cut short by a clock bound.       *)
(***************************************************************************)
EXTENDS Naturals, FiniteSets

CONSTANTS
    Events,             \* event ids that producers may use
    Drainers,           \* worker replicas, each with one DrainerProcessor
    NoDrainer,          \* no row lock held
    EventType,          \* [Events -> type]
    RoutableTypes,      \* types with a consumer in OutboxConsumerRegistry
    AuditType,          \* "audit.event.created"
    OccurredAt,         \* [Events -> Nat], the business timestamp
    BatchSize,          \* rows per claim
    PurgeBatchSize,     \* rows per retention DELETE
    MaxAttempts,        \* MAX_ATTEMPTS
    Delay1, Delay2, Delay3, DelayPlateau,   \* 30s, 2min, 10min, 1h
    DeliveredRetention, FailedRetention,    \* 90 and 365 days
    MaxFaults           \* bound: crashes, shutdowns and failed database calls

ASSUME SizesAssumption ==
    /\ BatchSize \in Nat \ {0}
    /\ PurgeBatchSize \in Nat \ {0}
    /\ MaxAttempts \in Nat \ {0}
    /\ MaxFaults \in Nat

ASSUME TimesAssumption ==
    /\ {Delay1, Delay2, Delay3, DelayPlateau,
        DeliveredRetention, FailedRetention} \subseteq Nat \ {0}
    /\ Delay1 <= Delay2 /\ Delay2 <= Delay3 /\ Delay3 <= DelayPlateau
    /\ DelayPlateau <= DeliveredRetention
    /\ DeliveredRetention <= FailedRetention

ASSUME IdentityAssumption == NoDrainer \notin Drainers

ASSUME OccurredAssumption == OccurredAt \in [Events -> Nat]

VARIABLES
    deliveryState,  \* outbox_events.delivery_state, or why there is no row
    attempts,       \* outbox_events.attempts
    wait,           \* time left until next_attempt_at
    age,            \* time since updated_at
    lastError,      \* outbox_events.last_error, the error class
    processedAt,    \* outbox_events.processed_at: "null" or "set"
    business,       \* events whose business transaction has committed
    rowLock,        \* the drainer whose open claim transaction locks the row
    running,        \* drainers whose poll timer is set
    inFlight,       \* drainers inside tick()
    task,           \* [Drainers -> [Events -> step of processRow]]
    seen,           \* [Drainers -> [Events -> attempts returned by the claim]]
    effects,        \* times a consumer's side effect took place
    faults          \* faults so far

rowVars == <<deliveryState, attempts, wait, age, lastError, processedAt>>
drainVars == <<rowLock, running, inFlight, task, seen>>
vars == <<rowVars, business, drainVars, effects, faults>>

RowStates == {"pending", "claimed", "delivered", "failed", "dead_lettered"}
NoRowStates == {"none", "lost", "purged"}
ErrorClasses == {"null", "UnroutableEventType", "ConsumerError"}
TaskSteps == {"none", "claimed", "handled", "threw"}
MaxAge == FailedRetention + 1

NoTasks == [e \in Events |-> "none"]
NoSeen == [e \in Events |-> 0]

Init ==
    /\ deliveryState = [e \in Events |-> "none"]
    /\ attempts = [e \in Events |-> 0]
    /\ wait = [e \in Events |-> 0]
    /\ age = [e \in Events |-> 0]
    /\ lastError = [e \in Events |-> "null"]
    /\ processedAt = [e \in Events |-> "null"]
    /\ business = {}
    /\ rowLock = [e \in Events |-> NoDrainer]
    /\ running = {}
    /\ inFlight = {}
    /\ task = [d \in Drainers |-> NoTasks]
    /\ seen = [d \in Drainers |-> NoSeen]
    /\ effects = [e \in Events |-> 0]
    /\ faults = 0

Fault == faults < MaxFaults /\ faults' = faults + 1

-----------------------------------------------------------------------------
(* Producers.                                                              *)

\* The row that an INSERT of emit() creates.
InsertPending(e) ==
    /\ deliveryState' = [deliveryState EXCEPT ![e] = "pending"]
    /\ age' = [age EXCEPT ![e] = 0]
    /\ UNCHANGED <<attempts, wait, lastError, processedAt>>

\* A caller that emits inside its business transaction: both commit or,
\* when the transaction rolls back, neither happens.
Emit(e) ==
    /\ EventType[e] # AuditType
    /\ deliveryState[e] = "none"
    /\ business' = business \cup {e}
    /\ InsertPending(e)
    /\ UNCHANGED <<drainVars, effects, faults>>

\* The audit interceptor: the handler has committed and answered ...
AuditedHandlerCommits(e) ==
    /\ EventType[e] = AuditType
    /\ e \notin business
    /\ business' = business \cup {e}
    /\ UNCHANGED <<rowVars, drainVars, effects, faults>>

\* ... and then emits in a transaction of its own,
EmitInNewTransaction(e) ==
    /\ EventType[e] = AuditType
    /\ e \in business
    /\ deliveryState[e] = "none"
    /\ InsertPending(e)
    /\ UNCHANGED <<business, drainVars, effects, faults>>

\* which may fail; the interceptor logs the error and drops the event.
EmitFails(e) ==
    /\ EventType[e] = AuditType
    /\ e \in business
    /\ deliveryState[e] = "none"
    /\ Fault
    /\ deliveryState' = [deliveryState EXCEPT ![e] = "lost"]
    /\ UNCHANGED <<attempts, wait, age, lastError, processedAt,
                   business, drainVars, effects>>

-----------------------------------------------------------------------------
(* The drainer.                                                            *)

\* start() and stop(); a tick in flight outlives stop().
Start(d) ==
    /\ d \notin running
    /\ running' = running \cup {d}
    /\ UNCHANGED <<rowVars, business, rowLock, inFlight, task, seen,
                   effects, faults>>

Stop(d) ==
    /\ d \in running
    /\ Fault
    /\ running' = running \ {d}
    /\ UNCHANGED <<rowVars, business, rowLock, inFlight, task, seen, effects>>

\* Variant of Claimable: every row not delivered.
ClaimableNotDelivered(e) ==
    /\ deliveryState[e] \in {"pending", "failed", "claimed", "dead_lettered"}
    /\ wait[e] = 0

Claimable(e) ==
    /\ deliveryState[e] \in {"pending", "failed"}
    /\ wait[e] = 0

Unlocked(e) == rowLock[e] = NoDrainer

\* ORDER BY occurred_at ASC LIMIT n over the rows S.
OldestFirst(S, n) ==
    {B \in SUBSET S :
        /\ Cardinality(B) <= n
        /\ Cardinality(B) < n => B = S
        /\ \A e \in B, f \in S \ B : OccurredAt[e] <= OccurredAt[f]}

ClaimCandidates == {e \in Events : Claimable(e) /\ Unlocked(e)}

\* The timer fires with no tick in flight; the claim statement locks its
\* rows, skipping the ones another transaction has locked.  A claim that
\* finds nothing ends the tick at once and changes nothing.
TickClaim(d) ==
    /\ d \in running
    /\ d \notin inFlight
    /\ \E B \in OldestFirst(ClaimCandidates, BatchSize) :
        /\ B # {}
        /\ rowLock' = [e \in Events |-> IF e \in B THEN d ELSE rowLock[e]]
    /\ inFlight' = inFlight \cup {d}
    /\ UNCHANGED <<rowVars, business, running, task, seen, effects, faults>>

LockedBy(d) == {e \in Events : rowLock[e] = d}

Unlock(d) ==
    rowLock' = [e \in Events |-> IF rowLock[e] = d THEN NoDrainer ELSE rowLock[e]]

\* The claim transaction commits.  next_attempt_at keeps its past value.
ClaimCommit(d) ==
    LET B == LockedBy(d) IN
    /\ B # {}
    /\ deliveryState' = [e \in Events |-> IF e \in B THEN "claimed" ELSE deliveryState[e]]
    /\ attempts' = [e \in Events |-> IF e \in B THEN attempts[e] + 1 ELSE attempts[e]]
    /\ age' = [e \in Events |-> IF e \in B THEN 0 ELSE age[e]]
    /\ Unlock(d)
    /\ task' = [task EXCEPT ![d] = [e \in Events |-> IF e \in B THEN "claimed" ELSE "none"]]
    /\ seen' = [seen EXCEPT ![d] = [e \in Events |-> IF e \in B THEN attempts[e] + 1 ELSE 0]]
    /\ UNCHANGED <<wait, lastError, processedAt, business, running, inFlight,
                   effects, faults>>

\* claimBatch rejects: the transaction rolls back and the batch is empty.
ClaimFails(d) ==
    /\ LockedBy(d) # {}
    /\ Fault
    /\ Unlock(d)
    /\ inFlight' = inFlight \ {d}
    /\ UNCHANGED <<rowVars, business, running, task, seen, effects>>

Routable(e) == EventType[e] \in RoutableTypes

SetTask(d, e, step) == task' = [task EXCEPT ![d][e] = step]

\* Variant of InvokeConsumer: a consumer's rejection is not awaited.
InvokeConsumerUnawaited(d, e) ==
    /\ task[d][e] = "claimed"
    /\ Routable(e)
    /\ \E effect \in {0, 1} :
        /\ effects' = [effects EXCEPT ![e] = @ + effect]
        /\ SetTask(d, e, "handled")
    /\ UNCHANGED <<rowVars, business, rowLock, running, inFlight, seen, faults>>

\* consumer.handle inside runWithTenantContext.  A throw may come before the
\* side effect or after it (the wrapping transaction fails to commit).
InvokeConsumer(d, e) ==
    /\ task[d][e] = "claimed"
    /\ Routable(e)
    /\ \E effect \in {0, 1}, step \in {"handled", "threw"} :
        /\ step = "handled" => effect = 1
        /\ effects' = [effects EXCEPT ![e] = @ + effect]
        /\ SetTask(d, e, step)
    /\ UNCHANGED <<rowVars, business, rowLock, running, inFlight, seen, faults>>

FinishTask(d, e) ==
    /\ SetTask(d, e, "none")
    /\ seen' = [seen EXCEPT ![d][e] = 0]
    /\ UNCHANGED <<business, rowLock, running, inFlight, effects>>

\* An UPDATE ... WHERE delivery_state = 'claimed' that matches no row throws,
\* and the safeMark wrappers swallow the error.
UpdateClaimed(e, state, wt, err, processed) ==
    IF deliveryState[e] = "claimed"
    THEN /\ deliveryState' = [deliveryState EXCEPT ![e] = state]
         /\ wait' = [wait EXCEPT ![e] = wt]
         /\ age' = [age EXCEPT ![e] = 0]
         /\ lastError' = [lastError EXCEPT ![e] = err]
         /\ processedAt' = [processedAt EXCEPT ![e] = processed]
         /\ UNCHANGED attempts
    ELSE UNCHANGED rowVars

MarkDelivered(d, e) ==
    /\ task[d][e] = "handled"
    /\ UpdateClaimed(e, "delivered", wait[e], lastError[e], "set")
    /\ FinishTask(d, e)
    /\ UNCHANGED faults

nextAttemptDelay(n) ==
    CASE n <= 1 -> Delay1
      [] n = 2  -> Delay2
      [] n = 3  -> Delay3
      [] OTHER  -> DelayPlateau

\* markFailed refuses an exhausted budget before it touches the row.
MarkFailed(e, n, err) ==
    IF n >= MaxAttempts
    THEN UNCHANGED rowVars
    ELSE UpdateClaimed(e, "failed", nextAttemptDelay(n), err, processedAt[e])

MarkDeadLettered(e, err) ==
    UpdateClaimed(e, "dead_lettered", wait[e], err, "set")

\* Variants of ConsumerThrew: the budget test is off by one, either way.
ConsumerThrewBudget(d, e, budget) ==
    /\ task[d][e] = "threw"
    /\ IF seen[d][e] >= budget
       THEN MarkDeadLettered(e, "ConsumerError")
       ELSE MarkFailed(e, seen[d][e], "ConsumerError")
    /\ FinishTask(d, e)
    /\ UNCHANGED faults

\* Variant of ConsumerThrew: the budget is compared one too late.
ConsumerThrewLate(d, e) == ConsumerThrewBudget(d, e, MaxAttempts + 1)

\* The catch branch of processRow.
ConsumerThrew(d, e) ==
    /\ task[d][e] = "threw"
    /\ IF seen[d][e] >= MaxAttempts
       THEN MarkDeadLettered(e, "ConsumerError")
       ELSE MarkFailed(e, seen[d][e], "ConsumerError")
    /\ FinishTask(d, e)
    /\ UNCHANGED faults

\* The no-consumer branch of processRow.
NoConsumer(d, e) ==
    /\ task[d][e] = "claimed"
    /\ ~Routable(e)
    /\ MarkFailed(e, seen[d][e], "UnroutableEventType")
    /\ FinishTask(d, e)
    /\ UNCHANGED faults

\* The mark call itself fails; the drainer logs and goes on.
MarkFails(d, e) ==
    /\ \/ task[d][e] \in {"handled", "threw"}
       \/ task[d][e] = "claimed" /\ ~Routable(e)
    /\ Fault
    /\ FinishTask(d, e)
    /\ UNCHANGED rowVars

Idle(d) == LockedBy(d) = {} /\ task[d] = NoTasks

\* Variant of TickEnds: inFlight is not reset.
TickEndsInFlight(d) ==
    /\ d \in inFlight
    /\ Idle(d)
    /\ UNCHANGED vars

\* Promise.all of the batch has settled.
TickEnds(d) ==
    /\ d \in inFlight
    /\ Idle(d)
    /\ inFlight' = inFlight \ {d}
    /\ UNCHANGED <<rowVars, business, rowLock, running, task, seen, effects, faults>>

\* The worker process dies: open transactions roll back, memory is gone.
Crash(d) ==
    /\ d \in running \cup inFlight
    /\ Fault
    /\ Unlock(d)
    /\ running' = running \ {d}
    /\ inFlight' = inFlight \ {d}
    /\ task' = [task EXCEPT ![d] = NoTasks]
    /\ seen' = [seen EXCEPT ![d] = NoSeen]
    /\ UNCHANGED <<rowVars, business, effects>>

-----------------------------------------------------------------------------
(* Retention and time.                                                     *)

\* Variant of Purgeable: the sweep of old rows looks at their age only.
PurgeableAnyState(e) ==
    \/ deliveryState[e] = "delivered" /\ age[e] > DeliveredRetention
    \/ deliveryState[e] \in RowStates /\ age[e] > FailedRetention

\* The three branches of PURGE_BATCH_SQL; the comparison is strict.
Purgeable(e) ==
    \/ /\ deliveryState[e] = "delivered"
       /\ EventType[e] # AuditType
       /\ age[e] > DeliveredRetention
    \/ /\ deliveryState[e] \in {"failed", "dead_lettered"}
       /\ age[e] > FailedRetention
    \/ /\ deliveryState[e] = "delivered"
       /\ EventType[e] = AuditType
       /\ age[e] > FailedRetention

PurgeCandidates == {e \in Events : Purgeable(e) /\ Unlocked(e)}

PurgeBatch ==
    /\ \E B \in OldestFirst(PurgeCandidates, PurgeBatchSize) :
        /\ B # {}
        /\ deliveryState' = [e \in Events |-> IF e \in B THEN "purged" ELSE deliveryState[e]]
    /\ UNCHANGED <<attempts, wait, age, lastError, processedAt, business,
                   drainVars, effects, faults>>

Elapse ==
    /\ wait' = [e \in Events |-> IF wait[e] > 0 THEN wait[e] - 1 ELSE 0]
    /\ age' = [e \in Events |-> IF /\ deliveryState[e] \in RowStates
                                   /\ age[e] < MaxAge
                                THEN age[e] + 1 ELSE age[e]]
    /\ UNCHANGED <<deliveryState, attempts, lastError, processedAt, business,
                   drainVars, effects, faults>>

-----------------------------------------------------------------------------
Produce(e) ==
    \/ Emit(e)
    \/ AuditedHandlerCommits(e)
    \/ EmitInNewTransaction(e)
    \/ EmitFails(e)

ProcessRow(d, e) ==
    \/ InvokeConsumer(d, e)
    \/ MarkDelivered(d, e)
    \/ ConsumerThrew(d, e)
    \/ NoConsumer(d, e)

DrainerStep(d) ==
    \/ Start(d)
    \/ Stop(d)
    \/ TickClaim(d)
    \/ ClaimCommit(d)
    \/ ClaimFails(d)
    \/ TickEnds(d)
    \/ Crash(d)
    \/ \E e \in Events : ProcessRow(d, e) \/ MarkFails(d, e)

Next ==
    \/ \E e \in Events : Produce(e)
    \/ \E d \in Drainers : DrainerStep(d)
    \/ PurgeBatch
    \/ Elapse

Spec == Init /\ [][Next]_vars

\* The worker is restarted by its supervisor, setInterval keeps firing, and
\* database and consumer calls return; time passes.
Fairness ==
    /\ \A e \in Events : WF_vars(EmitInNewTransaction(e))
    /\ \A d \in Drainers :
        /\ WF_vars(Start(d))
        /\ WF_vars(TickClaim(d))
        /\ WF_vars(ClaimCommit(d))
        /\ WF_vars(TickEnds(d))
        /\ \A e \in Events : WF_vars(ProcessRow(d, e))
    /\ WF_vars(Elapse)

FairSpec == Spec /\ Fairness

-----------------------------------------------------------------------------
(* Properties.                                                             *)

\* Every variable has its type.
TypeOK ==
    /\ deliveryState \in [Events -> RowStates \cup NoRowStates]
    /\ attempts \in [Events -> Nat]
    /\ wait \in [Events -> 0..DelayPlateau]
    /\ age \in [Events -> 0..MaxAge]
    /\ lastError \in [Events -> ErrorClasses]
    /\ processedAt \in [Events -> {"null", "set"}]
    /\ business \in SUBSET Events
    /\ rowLock \in [Events -> Drainers \cup {NoDrainer}]
    /\ running \in SUBSET Drainers
    /\ inFlight \in SUBSET Drainers
    /\ task \in [Drainers -> [Events -> TaskSteps]]
    /\ seen \in [Drainers -> [Events -> Nat]]
    /\ effects \in [Events -> Nat]
    /\ faults \in 0..MaxFaults

Holds(d, e) == task[d][e] # "none"

\* FOR UPDATE SKIP LOCKED and the 'claimed' state together prevent double
\* claiming: no row is processed by two replicas, nor locked by one while
\* another still processes it.
SingleHolder ==
    \A e \in Events, c, d \in Drainers :
        /\ Holds(c, e) /\ Holds(d, e) => c = d
        /\ Holds(c, e) => rowLock[e] = NoDrainer

\* The state a drainer carries in memory across the consumer's await is not
\* stale: the row is still there and claimed, by the attempt the drainer has
\* seen, whatever other replicas, retries and the retention sweep did since.
\* So a mark never meets a row that someone else moved or deleted.
HeldRowIsCurrent ==
    \A d \in Drainers, e \in Events :
        Holds(d, e) => deliveryState[e] = "claimed" /\ seen[d][e] = attempts[e]

\* There is no claim beyond MAX_ATTEMPTS, a row waiting for its retry has
\* budget left, and only an exhausted budget dead-letters.
RetryBudget ==
    \A e \in Events :
        /\ attempts[e] <= MaxAttempts
        /\ deliveryState[e] \in {"pending", "failed"} => attempts[e] < MaxAttempts
        /\ deliveryState[e] = "dead_lettered" => attempts[e] = MaxAttempts

\* At-least-once with a bound: a delivered event had its effect, and no event
\* has more effects than claims.
DeliveredHadEffect ==
    \A e \in Events :
        /\ deliveryState[e] = "delivered" => effects[e] >= 1
        /\ effects[e] <= attempts[e]

\* No event without its business write and, for events emitted inside the
\* business transaction, no business write without its event.
EmittedWithBusinessWrite ==
    \A e \in Events :
        /\ deliveryState[e] \notin {"none", "lost"} => e \in business
        /\ e \in business /\ EventType[e] # AuditType
              => deliveryState[e] \notin {"none", "lost"}

Stranded(e) ==
    /\ deliveryState[e] = "claimed"
    /\ \A d \in Drainers : ~Holds(d, e)

\* A claimed row that no drainer works on is never claimed again; it takes a
\* fault, or an event type without consumer whose budget ran out, to get one.
StrandedOnlyByFaultOrNoConsumer ==
    \A e \in Events : Stranded(e) =>
        \/ faults > 0
        \/ ~Routable(e) /\ attempts[e] = MaxAttempts

\* Triage can tell why: a row that failed or was dead-lettered names an error
\* class, and processed_at is set exactly on the rows that reached an end.
TriageFields ==
    \A e \in Events :
        /\ deliveryState[e] \in {"failed", "dead_lettered"} => lastError[e] # "null"
        /\ deliveryState[e] \in RowStates =>
             (processedAt[e] = "set" <=> deliveryState[e] \in {"delivered", "dead_lettered"})

\* A retry is claimed only after the whole backoff delay of its attempt.
BackoffRespected ==
    [][\A e \in Events :
         deliveryState[e] = "failed" /\ deliveryState'[e] = "claimed"
            => age[e] >= nextAttemptDelay(attempts[e])]_vars

\* delivered and dead_lettered are final until retention removes the row.
SettledIsFinal ==
    [][\A e \in Events :
         deliveryState[e] \in {"delivered", "dead_lettered"}
            => deliveryState'[e] \in {deliveryState[e], "purged"}]_vars

\* What else is needed to make the invariants inductive.  Between its claim
\* statement and its commit a drainer has no task; outside a tick it has
\* neither locks nor tasks.
DrainerDiscipline ==
    /\ \A d \in Drainers, e \in Events :
         /\ rowLock[e] = d \/ Holds(d, e) => d \in inFlight
         /\ rowLock[e] = d => \A f \in Events : ~Holds(d, f)
    /\ \A e \in Events : rowLock[e] # NoDrainer => Claimable(e)

\* The consumer runs at most once per claim.
OneEffectPerClaim ==
    \A d \in Drainers, e \in Events :
        /\ task[d][e] = "claimed" => effects[e] < attempts[e]
        /\ task[d][e] = "handled" => effects[e] > 0

\* Only a claim leads out of pending; a failed row has waited for its age.
ProgressNeedsClaim ==
    \A e \in Events :
        /\ deliveryState[e] \in {"claimed", "delivered", "failed", "dead_lettered"}
             => attempts[e] > 0
        /\ deliveryState[e] \in {"none", "lost"}
             => attempts[e] = 0 /\ processedAt[e] = "null"
        /\ deliveryState[e] = "failed"
             => age[e] + wait[e] >= nextAttemptDelay(attempts[e])

\* The inductive invariant of the safety proofs.
InductiveInvariant ==
    /\ TypeOK
    /\ SingleHolder
    /\ HeldRowIsCurrent
    /\ RetryBudget
    /\ DeliveredHadEffect
    /\ EmittedWithBusinessWrite
    /\ StrandedOnlyByFaultOrNoConsumer
    /\ TriageFields
    /\ DrainerDiscipline
    /\ OneEffectPerClaim
    /\ ProgressNeedsClaim

\* The refinement mapping to the promise of EventDelivery.
deliveryStatus ==
    [e \in Events |->
        CASE deliveryState[e] \in {"none", "lost"} -> "unpublished"
          [] deliveryState[e] \in {"pending", "claimed", "failed"} -> "open"
          [] deliveryState[e] = "delivered" -> "delivered"
          [] deliveryState[e] = "dead_lettered" -> "dead"
          [] OTHER -> "expired"]

Delivery == INSTANCE EventDelivery WITH status <- deliveryStatus, tries <- attempts

\* With all its replicas, locks, retries and faults, the outbox implements
\* EventDelivery.
ImplementsDelivery == Delivery!Spec

Settled(e) == deliveryState[e] \in {"delivered", "dead_lettered", "purged"}

\* Every emitted event that has a consumer is eventually delivered or
\* dead-lettered (or, after its window, purged), unless a fault strands it:
\* StrandedOnlyByFaultOrNoConsumer says when that can be.
EventuallySettled ==
    \A e \in Events : Routable(e) =>
        (deliveryState[e] = "pending" ~> Settled(e) \/ Stranded(e))
=============================================================================
