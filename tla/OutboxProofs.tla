---------------------------- MODULE OutboxProofs ----------------------------
(***************************************************************************)
(* Safety of the outbox for any number of events, replicas, attempts and   *)
(* faults, and its refinement of EventDelivery.  The inductive invariant   *)
(* is Outbox!InductiveInvariant; there is one lemma per action, whose      *)
(* last step covers the conjuncts the action cannot disturb.               *)
(***************************************************************************)
EXTENDS Outbox, TLAPS

RowTypes ==
    /\ deliveryState \in [Events -> RowStates \cup NoRowStates]
    /\ attempts \in [Events -> Nat]
    /\ wait \in [Events -> 0..DelayPlateau]
    /\ age \in [Events -> 0..MaxAge]
    /\ lastError \in [Events -> ErrorClasses]
    /\ processedAt \in [Events -> {"null", "set"}]

\* The backoff never exceeds its plateau (nextAttemptDelayMs).
LEMMA DelayBounds ==
  ASSUME NEW n \in Nat
  PROVE  nextAttemptDelay(n) \in 0..DelayPlateau
BY TimesAssumption DEF nextAttemptDelay

\* A mark keeps the columns of the row in their types.
LEMMA UpdateClaimedType ==
  ASSUME TypeOK, NEW e \in Events,
         NEW st \in RowStates, NEW wt \in 0..DelayPlateau,
         NEW err \in ErrorClasses, NEW pr \in {"null", "set"},
         UpdateClaimed(e, st, wt, err, pr)
  PROVE  RowTypes'
<1>1. 0 \in 0..MaxAge
  BY TimesAssumption DEF MaxAge
<1>2. CASE deliveryState[e] = "claimed"
  BY ZenonT(40), <1>1, <1>2 DEF UpdateClaimed, TypeOK, RowTypes
<1>3. CASE deliveryState[e] # "claimed"
  BY <1>3 DEF UpdateClaimed, TypeOK, rowVars, RowTypes
<1> QED BY <1>2, <1>3

\* So does markFailed, whether it refuses the budget or schedules a retry.
LEMMA MarkFailedType ==
  ASSUME TypeOK, NEW e \in Events, NEW n \in Nat, NEW err \in ErrorClasses,
         MarkFailed(e, n, err)
  PROVE  RowTypes'
<1>1. CASE n >= MaxAttempts
  BY <1>1 DEF MarkFailed, TypeOK, rowVars, RowTypes
<1>2. CASE ~(n >= MaxAttempts)
  <2>1. UpdateClaimed(e, "failed", nextAttemptDelay(n), err, processedAt[e])
    BY <1>2 DEF MarkFailed
  <2>2. /\ "failed" \in RowStates
        /\ nextAttemptDelay(n) \in 0..DelayPlateau
        /\ processedAt[e] \in {"null", "set"}
    BY DelayBounds DEF RowStates, TypeOK
  <2> QED BY <2>1, <2>2, UpdateClaimedType
<1> QED BY <1>1, <1>2

\* Ending a task touches the drainer's memory only.
LEMMA FinishTaskType ==
  ASSUME TypeOK, NEW d \in Drainers, NEW e \in Events, FinishTask(d, e)
  PROVE  /\ business' \in SUBSET Events
         /\ rowLock' \in [Events -> Drainers \cup {NoDrainer}]
         /\ running' \in SUBSET Drainers
         /\ inFlight' \in SUBSET Drainers
         /\ task' \in [Drainers -> [Events -> TaskSteps]]
         /\ seen' \in [Drainers -> [Events -> Nat]]
         /\ effects' \in [Events -> Nat]
BY DEF TypeOK, FinishTask, SetTask, TaskSteps

-----------------------------------------------------------------------------

\* A new row is pending with no claim behind it.
LEMMA EmitStep ==
  ASSUME InductiveInvariant, NEW e \in Events, Emit(e)
  PROVE  InductiveInvariant'
<1>1. TypeOK'
  BY TimesAssumption DEF Emit, InsertPending, drainVars, InductiveInvariant,
     TypeOK, RowStates, NoRowStates, ErrorClasses, TaskSteps, MaxAge
<1>2. HeldRowIsCurrent'
  BY DEF Emit, InsertPending, drainVars, InductiveInvariant, TypeOK,
     HeldRowIsCurrent, Holds, SingleHolder, DrainerDiscipline, Claimable
<1>3. RetryBudget'
  BY SizesAssumption DEF Emit, InsertPending, drainVars, InductiveInvariant,
     TypeOK, RetryBudget, HeldRowIsCurrent, Holds, DrainerDiscipline,
     Claimable, ProgressNeedsClaim
<1>4. DeliveredHadEffect'
  BY DEF Emit, InsertPending, drainVars, InductiveInvariant, TypeOK,
     DeliveredHadEffect, HeldRowIsCurrent, Holds, OneEffectPerClaim,
     DrainerDiscipline, Claimable
<1>5. EmittedWithBusinessWrite'
  BY DEF Emit, InsertPending, drainVars, InductiveInvariant, TypeOK,
     EmittedWithBusinessWrite, HeldRowIsCurrent, Holds, DrainerDiscipline,
     Claimable
<1>6. StrandedOnlyByFaultOrNoConsumer'
  BY DEF Emit, InsertPending, drainVars, InductiveInvariant, TypeOK,
     StrandedOnlyByFaultOrNoConsumer, Stranded, HeldRowIsCurrent, Holds,
     DrainerDiscipline, Claimable, Routable
<1>7. TriageFields'
  BY DEF Emit, InsertPending, drainVars, InductiveInvariant, TypeOK,
     TriageFields, RowStates, HeldRowIsCurrent, Holds, DrainerDiscipline,
     Claimable, ProgressNeedsClaim, ErrorClasses
<1>8. DrainerDiscipline'
  BY DEF Emit, InsertPending, drainVars, InductiveInvariant, TypeOK,
     DrainerDiscipline, Holds, Claimable, HeldRowIsCurrent
<1>9. ProgressNeedsClaim'
  BY DEF Emit, InsertPending, drainVars, InductiveInvariant, TypeOK,
     ProgressNeedsClaim, HeldRowIsCurrent, Holds, DrainerDiscipline,
     Claimable, nextAttemptDelay, MaxAge, RowStates
<1>10. /\ SingleHolder'
       /\ OneEffectPerClaim'
  BY DEF Emit, InsertPending, drainVars, InductiveInvariant, SingleHolder,
     OneEffectPerClaim, Holds
<1> QED BY <1>1, <1>2, <1>3, <1>4, <1>5, <1>6, <1>7, <1>8, <1>9, <1>10 DEF
          InductiveInvariant

\* Only the set of committed business writes grows.
LEMMA AuditedHandlerCommitsStep ==
  ASSUME InductiveInvariant, NEW e \in Events, AuditedHandlerCommits(e)
  PROVE  InductiveInvariant'
<1>1. TypeOK'
  BY DEF AuditedHandlerCommits, rowVars, drainVars, InductiveInvariant,
     TypeOK, RowStates, NoRowStates, ErrorClasses, TaskSteps, MaxAge
<1>2. EmittedWithBusinessWrite'
  BY DEF AuditedHandlerCommits, rowVars, drainVars, InductiveInvariant,
     TypeOK, EmittedWithBusinessWrite, HeldRowIsCurrent, Holds,
     DrainerDiscipline, Claimable
<1>3. /\ SingleHolder'
      /\ HeldRowIsCurrent'
      /\ RetryBudget'
      /\ DeliveredHadEffect'
      /\ StrandedOnlyByFaultOrNoConsumer'
      /\ TriageFields'
      /\ DrainerDiscipline'
      /\ OneEffectPerClaim'
      /\ ProgressNeedsClaim'
  BY DEF AuditedHandlerCommits, rowVars, drainVars, InductiveInvariant,
     SingleHolder, HeldRowIsCurrent, RetryBudget, DeliveredHadEffect,
     StrandedOnlyByFaultOrNoConsumer, TriageFields, DrainerDiscipline,
     OneEffectPerClaim, ProgressNeedsClaim, Holds, Stranded, Routable,
     Claimable, nextAttemptDelay
<1> QED BY <1>1, <1>2, <1>3 DEF InductiveInvariant

\* As Emit, for the audit interceptor.
LEMMA EmitInNewTransactionStep ==
  ASSUME InductiveInvariant, NEW e \in Events, EmitInNewTransaction(e)
  PROVE  InductiveInvariant'
<1>1. TypeOK'
  BY TimesAssumption DEF EmitInNewTransaction, InsertPending, drainVars,
     InductiveInvariant, TypeOK, RowStates, NoRowStates, ErrorClasses,
     TaskSteps, MaxAge
<1>2. HeldRowIsCurrent'
  BY DEF EmitInNewTransaction, InsertPending, drainVars, InductiveInvariant,
     TypeOK, HeldRowIsCurrent, Holds, SingleHolder, DrainerDiscipline,
     Claimable
<1>3. RetryBudget'
  BY SizesAssumption DEF EmitInNewTransaction, InsertPending, drainVars,
     InductiveInvariant, TypeOK, RetryBudget, HeldRowIsCurrent, Holds,
     DrainerDiscipline, Claimable, ProgressNeedsClaim
<1>4. DeliveredHadEffect'
  BY DEF EmitInNewTransaction, InsertPending, drainVars, InductiveInvariant,
     TypeOK, DeliveredHadEffect, HeldRowIsCurrent, Holds, OneEffectPerClaim,
     DrainerDiscipline, Claimable
<1>5. EmittedWithBusinessWrite'
  BY DEF EmitInNewTransaction, InsertPending, drainVars, InductiveInvariant,
     TypeOK, EmittedWithBusinessWrite, HeldRowIsCurrent, Holds,
     DrainerDiscipline, Claimable
<1>6. StrandedOnlyByFaultOrNoConsumer'
  BY DEF EmitInNewTransaction, InsertPending, drainVars, InductiveInvariant,
     TypeOK, StrandedOnlyByFaultOrNoConsumer, Stranded, HeldRowIsCurrent,
     Holds, DrainerDiscipline, Claimable, Routable
<1>7. TriageFields'
  BY DEF EmitInNewTransaction, InsertPending, drainVars, InductiveInvariant,
     TypeOK, TriageFields, RowStates, HeldRowIsCurrent, Holds,
     DrainerDiscipline, Claimable, ProgressNeedsClaim, ErrorClasses
<1>8. DrainerDiscipline'
  BY DEF EmitInNewTransaction, InsertPending, drainVars, InductiveInvariant,
     TypeOK, DrainerDiscipline, Holds, Claimable, HeldRowIsCurrent
<1>9. ProgressNeedsClaim'
  BY DEF EmitInNewTransaction, InsertPending, drainVars, InductiveInvariant,
     TypeOK, ProgressNeedsClaim, HeldRowIsCurrent, Holds, DrainerDiscipline,
     Claimable, nextAttemptDelay, MaxAge, RowStates
<1>10. /\ SingleHolder'
       /\ OneEffectPerClaim'
  BY DEF EmitInNewTransaction, InsertPending, drainVars, InductiveInvariant,
     SingleHolder, OneEffectPerClaim, Holds
<1> QED BY <1>1, <1>2, <1>3, <1>4, <1>5, <1>6, <1>7, <1>8, <1>9, <1>10 DEF
          InductiveInvariant

\* The event is lost; there is no row.
LEMMA EmitFailsStep ==
  ASSUME InductiveInvariant, NEW e \in Events, EmitFails(e)
  PROVE  InductiveInvariant'
<1>1. TypeOK'
  BY SizesAssumption DEF EmitFails, Fault, drainVars, InductiveInvariant,
     TypeOK, RowStates, NoRowStates, ErrorClasses, TaskSteps, MaxAge
<1>2. HeldRowIsCurrent'
  BY DEF EmitFails, Fault, drainVars, InductiveInvariant, TypeOK,
     HeldRowIsCurrent, Holds, SingleHolder, DrainerDiscipline, Claimable
<1>3. RetryBudget'
  BY SizesAssumption DEF EmitFails, Fault, drainVars, InductiveInvariant,
     TypeOK, RetryBudget, HeldRowIsCurrent, Holds, DrainerDiscipline,
     Claimable, ProgressNeedsClaim
<1>4. DeliveredHadEffect'
  BY DEF EmitFails, Fault, drainVars, InductiveInvariant, TypeOK,
     DeliveredHadEffect, HeldRowIsCurrent, Holds, OneEffectPerClaim,
     DrainerDiscipline, Claimable
<1>5. EmittedWithBusinessWrite'
  BY DEF EmitFails, Fault, drainVars, InductiveInvariant, TypeOK,
     EmittedWithBusinessWrite, HeldRowIsCurrent, Holds, DrainerDiscipline,
     Claimable
<1>6. StrandedOnlyByFaultOrNoConsumer'
  BY SizesAssumption DEF EmitFails, Fault, drainVars, InductiveInvariant,
     TypeOK, StrandedOnlyByFaultOrNoConsumer, Stranded, HeldRowIsCurrent,
     Holds, DrainerDiscipline, Claimable, Routable
<1>7. TriageFields'
  BY DEF EmitFails, Fault, drainVars, InductiveInvariant, TypeOK,
     TriageFields, RowStates, HeldRowIsCurrent, Holds, DrainerDiscipline,
     Claimable, ProgressNeedsClaim, ErrorClasses
<1>8. DrainerDiscipline'
  BY DEF EmitFails, Fault, drainVars, InductiveInvariant, TypeOK,
     DrainerDiscipline, Holds, Claimable, HeldRowIsCurrent
<1>9. ProgressNeedsClaim'
  BY DEF EmitFails, Fault, drainVars, InductiveInvariant, TypeOK,
     ProgressNeedsClaim, HeldRowIsCurrent, Holds, DrainerDiscipline,
     Claimable, nextAttemptDelay, MaxAge, RowStates
<1>10. /\ SingleHolder'
       /\ OneEffectPerClaim'
  BY DEF EmitFails, Fault, drainVars, InductiveInvariant, SingleHolder,
     OneEffectPerClaim, Holds
<1> QED BY <1>1, <1>2, <1>3, <1>4, <1>5, <1>6, <1>7, <1>8, <1>9, <1>10 DEF
          InductiveInvariant

\* Only the timer changes.
LEMMA StartStep ==
  ASSUME InductiveInvariant, NEW d \in Drainers, Start(d)
  PROVE  InductiveInvariant'
<1>1. TypeOK'
  BY DEF Start, rowVars, InductiveInvariant, TypeOK, RowStates, NoRowStates,
     ErrorClasses, TaskSteps, MaxAge
<1>2. /\ SingleHolder'
      /\ HeldRowIsCurrent'
      /\ RetryBudget'
      /\ DeliveredHadEffect'
      /\ EmittedWithBusinessWrite'
      /\ StrandedOnlyByFaultOrNoConsumer'
      /\ TriageFields'
      /\ DrainerDiscipline'
      /\ OneEffectPerClaim'
      /\ ProgressNeedsClaim'
  BY DEF Start, rowVars, InductiveInvariant, SingleHolder, HeldRowIsCurrent,
     RetryBudget, DeliveredHadEffect, EmittedWithBusinessWrite,
     StrandedOnlyByFaultOrNoConsumer, TriageFields, DrainerDiscipline,
     OneEffectPerClaim, ProgressNeedsClaim, Holds, Stranded, Routable,
     Claimable, nextAttemptDelay
<1> QED BY <1>1, <1>2 DEF InductiveInvariant

\* Only the timer changes; a tick in flight keeps its tasks.
LEMMA StopStep ==
  ASSUME InductiveInvariant, NEW d \in Drainers, Stop(d)
  PROVE  InductiveInvariant'
<1>1. TypeOK'
  BY SizesAssumption DEF Stop, rowVars, Fault, InductiveInvariant, TypeOK,
     RowStates, NoRowStates, ErrorClasses, TaskSteps, MaxAge
<1>2. StrandedOnlyByFaultOrNoConsumer'
  BY SizesAssumption DEF Stop, rowVars, Fault, InductiveInvariant, TypeOK,
     StrandedOnlyByFaultOrNoConsumer, Stranded, HeldRowIsCurrent, Holds,
     DrainerDiscipline, Claimable, Routable
<1>3. /\ SingleHolder'
      /\ HeldRowIsCurrent'
      /\ RetryBudget'
      /\ DeliveredHadEffect'
      /\ EmittedWithBusinessWrite'
      /\ TriageFields'
      /\ DrainerDiscipline'
      /\ OneEffectPerClaim'
      /\ ProgressNeedsClaim'
  BY DEF Stop, rowVars, Fault, InductiveInvariant, SingleHolder,
     HeldRowIsCurrent, RetryBudget, DeliveredHadEffect,
     EmittedWithBusinessWrite, TriageFields, DrainerDiscipline,
     OneEffectPerClaim, ProgressNeedsClaim, Holds, Claimable, nextAttemptDelay
<1> QED BY <1>1, <1>2, <1>3 DEF InductiveInvariant

\* The locked rows were claimable and unlocked, so no drainer held them.
LEMMA TickClaimStep ==
  ASSUME InductiveInvariant, NEW d \in Drainers, TickClaim(d)
  PROVE  InductiveInvariant'
<1>1. TypeOK'
  BY TimesAssumption DEF TickClaim, rowVars, OldestFirst, ClaimCandidates,
     Unlocked, InductiveInvariant, TypeOK, RowStates, NoRowStates,
     ErrorClasses, TaskSteps, MaxAge
<1>2. SingleHolder'
  <2>1. PICK B \in SUBSET ClaimCandidates :
          rowLock' = [e \in Events |-> IF e \in B THEN d ELSE rowLock[e]]
    BY DEF TickClaim, OldestFirst
  <2>2. \A e \in B, c \in Drainers : ~Holds(c, e)
    BY DEF ClaimCandidates, Claimable, InductiveInvariant, HeldRowIsCurrent
  <2>3. UNCHANGED task
    BY DEF TickClaim
  <2> QED BY <2>1, <2>2, <2>3 DEF SingleHolder, Holds, InductiveInvariant
<1>3. DrainerDiscipline'
  BY IdentityAssumption DEF TickClaim, rowVars, OldestFirst, ClaimCandidates,
     Unlocked, InductiveInvariant, TypeOK, DrainerDiscipline, Holds,
     Claimable, HeldRowIsCurrent
<1>4. /\ HeldRowIsCurrent'
      /\ RetryBudget'
      /\ DeliveredHadEffect'
      /\ EmittedWithBusinessWrite'
      /\ StrandedOnlyByFaultOrNoConsumer'
      /\ TriageFields'
      /\ OneEffectPerClaim'
      /\ ProgressNeedsClaim'
  BY DEF TickClaim, rowVars, OldestFirst, ClaimCandidates, Unlocked,
     InductiveInvariant, HeldRowIsCurrent, RetryBudget, DeliveredHadEffect,
     EmittedWithBusinessWrite, StrandedOnlyByFaultOrNoConsumer, TriageFields,
     OneEffectPerClaim, ProgressNeedsClaim, Holds, Stranded, Routable,
     nextAttemptDelay
<1> QED BY <1>1, <1>2, <1>3, <1>4 DEF InductiveInvariant

\* The rows locked by d were held by nobody: claiming them keeps one holder,
\* who sees the attempt it has just counted.
LEMMA ClaimCommitStep ==
  ASSUME InductiveInvariant, NEW d \in Drainers, ClaimCommit(d)
  PROVE  InductiveInvariant'
<1>a. \A f \in Events : rowLock[f] = d =>
         /\ deliveryState[f] \in {"pending", "failed"}
         /\ \A c \in Drainers : ~Holds(c, f)
  BY IdentityAssumption
     DEF InductiveInvariant, DrainerDiscipline, HeldRowIsCurrent, Claimable
<1>b. \A f \in Events :
         /\ deliveryState'[f] = IF rowLock[f] = d THEN "claimed" ELSE deliveryState[f]
         /\ attempts'[f] = IF rowLock[f] = d THEN attempts[f] + 1 ELSE attempts[f]
         /\ task'[d][f] = IF rowLock[f] = d THEN "claimed" ELSE "none"
         /\ seen'[d][f] = IF rowLock[f] = d THEN attempts[f] + 1 ELSE 0
         /\ \A c \in Drainers \ {d} : /\ task'[c][f] = task[c][f]
                                      /\ seen'[c][f] = seen[c][f]
  BY DEF ClaimCommit, LockedBy, InductiveInvariant, TypeOK
<1>1. TypeOK'
  BY TimesAssumption DEF ClaimCommit, LockedBy, Unlock, InductiveInvariant,
     TypeOK, RowStates, NoRowStates, ErrorClasses, TaskSteps, MaxAge
<1>2. SingleHolder'
  BY IdentityAssumption DEF ClaimCommit, LockedBy, Unlock, InductiveInvariant,
     TypeOK, SingleHolder, Holds, HeldRowIsCurrent, DrainerDiscipline,
     Claimable
<1>3. HeldRowIsCurrent'
  BY <1>a, <1>b DEF InductiveInvariant, HeldRowIsCurrent, Holds
<1>4. RetryBudget'
  BY <1>a, <1>b, SizesAssumption DEF InductiveInvariant, RetryBudget, TypeOK
<1>5. DeliveredHadEffect'
  BY DEF ClaimCommit, LockedBy, Unlock, InductiveInvariant, TypeOK,
     DeliveredHadEffect, HeldRowIsCurrent, Holds, OneEffectPerClaim,
     DrainerDiscipline, Claimable
<1>6. EmittedWithBusinessWrite'
  BY <1>a, <1>b DEF InductiveInvariant, EmittedWithBusinessWrite, ClaimCommit
<1>7. StrandedOnlyByFaultOrNoConsumer'
  BY DEF ClaimCommit, LockedBy, Unlock, InductiveInvariant, TypeOK,
     StrandedOnlyByFaultOrNoConsumer, Stranded, HeldRowIsCurrent, Holds,
     DrainerDiscipline, Claimable, Routable
<1>8. TriageFields'
  BY <1>a, <1>b DEF InductiveInvariant, TriageFields, ClaimCommit, RowStates
<1>9. DrainerDiscipline'
  BY IdentityAssumption DEF ClaimCommit, LockedBy, Unlock, InductiveInvariant,
     TypeOK, DrainerDiscipline, Holds, Claimable, HeldRowIsCurrent
<1>10. OneEffectPerClaim'
  BY DEF ClaimCommit, LockedBy, Unlock, InductiveInvariant, TypeOK,
     OneEffectPerClaim, HeldRowIsCurrent, SingleHolder, Holds,
     DrainerDiscipline, Claimable, DeliveredHadEffect
<1>11. ProgressNeedsClaim'
  BY DEF ClaimCommit, LockedBy, Unlock, InductiveInvariant, TypeOK,
     ProgressNeedsClaim, HeldRowIsCurrent, Holds, DrainerDiscipline,
     Claimable, nextAttemptDelay, MaxAge, RowStates
<1> QED BY <1>1, <1>2, <1>3, <1>4, <1>5, <1>6, <1>7, <1>8, <1>9, <1>10, <1>11
          DEF InductiveInvariant

\* The locks go, no row changes.
LEMMA ClaimFailsStep ==
  ASSUME InductiveInvariant, NEW d \in Drainers, ClaimFails(d)
  PROVE  InductiveInvariant'
<1>1. TypeOK'
  BY TimesAssumption, SizesAssumption DEF ClaimFails, rowVars, LockedBy,
     Unlock, Fault, InductiveInvariant, TypeOK, RowStates, NoRowStates,
     ErrorClasses, TaskSteps, MaxAge
<1>2. SingleHolder'
  BY IdentityAssumption DEF ClaimFails, rowVars, LockedBy, Unlock, Fault,
     InductiveInvariant, TypeOK, SingleHolder, Holds, HeldRowIsCurrent,
     DrainerDiscipline, Claimable
<1>3. StrandedOnlyByFaultOrNoConsumer'
  BY SizesAssumption DEF ClaimFails, rowVars, LockedBy, Unlock, Fault,
     InductiveInvariant, TypeOK, StrandedOnlyByFaultOrNoConsumer, Stranded,
     HeldRowIsCurrent, Holds, DrainerDiscipline, Claimable, Routable
<1>4. DrainerDiscipline'
  BY IdentityAssumption DEF ClaimFails, rowVars, LockedBy, Unlock, Fault,
     InductiveInvariant, TypeOK, DrainerDiscipline, Holds, Claimable,
     HeldRowIsCurrent
<1>5. /\ HeldRowIsCurrent'
      /\ RetryBudget'
      /\ DeliveredHadEffect'
      /\ EmittedWithBusinessWrite'
      /\ TriageFields'
      /\ OneEffectPerClaim'
      /\ ProgressNeedsClaim'
  BY DEF ClaimFails, rowVars, LockedBy, Unlock, Fault, InductiveInvariant,
     HeldRowIsCurrent, RetryBudget, DeliveredHadEffect,
     EmittedWithBusinessWrite, TriageFields, OneEffectPerClaim,
     ProgressNeedsClaim, Holds, nextAttemptDelay
<1> QED BY <1>1, <1>2, <1>3, <1>4, <1>5 DEF InductiveInvariant

\* An idle drainer leaves the tick.
LEMMA TickEndsStep ==
  ASSUME InductiveInvariant, NEW d \in Drainers, TickEnds(d)
  PROVE  InductiveInvariant'
<1>1. TypeOK'
  BY DEF TickEnds, rowVars, Idle, LockedBy, NoTasks, InductiveInvariant,
     TypeOK, RowStates, NoRowStates, ErrorClasses, TaskSteps, MaxAge
<1>2. DrainerDiscipline'
  BY DEF TickEnds, rowVars, Idle, LockedBy, NoTasks, InductiveInvariant,
     TypeOK, DrainerDiscipline, Holds, Claimable, HeldRowIsCurrent
<1>3. /\ SingleHolder'
      /\ HeldRowIsCurrent'
      /\ RetryBudget'
      /\ DeliveredHadEffect'
      /\ EmittedWithBusinessWrite'
      /\ StrandedOnlyByFaultOrNoConsumer'
      /\ TriageFields'
      /\ OneEffectPerClaim'
      /\ ProgressNeedsClaim'
  BY DEF TickEnds, rowVars, Idle, LockedBy, NoTasks, InductiveInvariant,
     SingleHolder, HeldRowIsCurrent, RetryBudget, DeliveredHadEffect,
     EmittedWithBusinessWrite, StrandedOnlyByFaultOrNoConsumer, TriageFields,
     OneEffectPerClaim, ProgressNeedsClaim, Holds, Stranded, Routable,
     nextAttemptDelay
<1> QED BY <1>1, <1>2, <1>3 DEF InductiveInvariant

\* The tasks and locks of d vanish; its claimed rows are stranded by a fault.
LEMMA CrashStep ==
  ASSUME InductiveInvariant, NEW d \in Drainers, Crash(d)
  PROVE  InductiveInvariant'
<1>1. TypeOK'
  BY TimesAssumption, SizesAssumption DEF Crash, rowVars, Fault, Unlock,
     NoTasks, NoSeen, InductiveInvariant, TypeOK, RowStates, NoRowStates,
     ErrorClasses, TaskSteps, MaxAge
<1>2. SingleHolder'
  BY IdentityAssumption DEF Crash, rowVars, Fault, Unlock, NoTasks, NoSeen,
     InductiveInvariant, TypeOK, SingleHolder, Holds, HeldRowIsCurrent,
     DrainerDiscipline, Claimable
<1>3. HeldRowIsCurrent'
  BY DEF Crash, rowVars, Fault, Unlock, NoTasks, NoSeen, InductiveInvariant,
     TypeOK, HeldRowIsCurrent, Holds, SingleHolder, DrainerDiscipline,
     Claimable
<1>4. StrandedOnlyByFaultOrNoConsumer'
  BY SizesAssumption DEF Crash, rowVars, Fault, Unlock, NoTasks, NoSeen,
     InductiveInvariant, TypeOK, StrandedOnlyByFaultOrNoConsumer, Stranded,
     HeldRowIsCurrent, Holds, DrainerDiscipline, Claimable, Routable
<1>5. DrainerDiscipline'
  BY IdentityAssumption DEF Crash, rowVars, Fault, Unlock, NoTasks, NoSeen,
     InductiveInvariant, TypeOK, DrainerDiscipline, Holds, Claimable,
     HeldRowIsCurrent
<1>6. OneEffectPerClaim'
  BY DEF Crash, rowVars, Fault, Unlock, NoTasks, NoSeen, InductiveInvariant,
     TypeOK, OneEffectPerClaim, HeldRowIsCurrent, SingleHolder, Holds,
     DrainerDiscipline, Claimable, DeliveredHadEffect
<1>7. /\ RetryBudget'
      /\ DeliveredHadEffect'
      /\ EmittedWithBusinessWrite'
      /\ TriageFields'
      /\ ProgressNeedsClaim'
  BY DEF Crash, rowVars, Fault, Unlock, NoTasks, NoSeen, InductiveInvariant,
     RetryBudget, DeliveredHadEffect, EmittedWithBusinessWrite, TriageFields,
     ProgressNeedsClaim, nextAttemptDelay
<1> QED BY <1>1, <1>2, <1>3, <1>4, <1>5, <1>6, <1>7 DEF InductiveInvariant

\* The one effect of this claim.
LEMMA InvokeConsumerStep ==
  ASSUME InductiveInvariant, NEW d \in Drainers, NEW e \in Events, InvokeConsumer(d, e)
  PROVE  InductiveInvariant'
<1>1. TypeOK'
  BY DEF InvokeConsumer, rowVars, SetTask, InductiveInvariant, TypeOK,
     RowStates, NoRowStates, ErrorClasses, TaskSteps, MaxAge
<1>2. SingleHolder'
  BY DEF InvokeConsumer, rowVars, SetTask, InductiveInvariant, TypeOK,
     SingleHolder, Holds, HeldRowIsCurrent, DrainerDiscipline, Claimable
<1>3. HeldRowIsCurrent'
  BY DEF InvokeConsumer, rowVars, SetTask, InductiveInvariant, TypeOK,
     HeldRowIsCurrent, Holds, SingleHolder, DrainerDiscipline, Claimable
<1>4. DeliveredHadEffect'
  BY DEF InvokeConsumer, rowVars, SetTask, InductiveInvariant, TypeOK,
     DeliveredHadEffect, HeldRowIsCurrent, Holds, OneEffectPerClaim,
     DrainerDiscipline, Claimable
<1>5. StrandedOnlyByFaultOrNoConsumer'
  BY DEF InvokeConsumer, rowVars, SetTask, InductiveInvariant, TypeOK,
     StrandedOnlyByFaultOrNoConsumer, Stranded, HeldRowIsCurrent, Holds,
     DrainerDiscipline, Claimable, Routable
<1>6. DrainerDiscipline'
  BY DEF InvokeConsumer, rowVars, SetTask, InductiveInvariant, TypeOK,
     DrainerDiscipline, Holds, Claimable, HeldRowIsCurrent
<1>7. OneEffectPerClaim'
  BY SMTT(40) DEF InvokeConsumer, rowVars, SetTask, InductiveInvariant, TypeOK,
     OneEffectPerClaim, HeldRowIsCurrent, SingleHolder, Holds,
     DrainerDiscipline, Claimable, DeliveredHadEffect
<1>8. /\ RetryBudget'
      /\ EmittedWithBusinessWrite'
      /\ TriageFields'
      /\ ProgressNeedsClaim'
  BY DEF InvokeConsumer, rowVars, SetTask, InductiveInvariant, RetryBudget,
     EmittedWithBusinessWrite, TriageFields, ProgressNeedsClaim,
     nextAttemptDelay
<1> QED BY <1>1, <1>2, <1>3, <1>4, <1>5, <1>6, <1>7, <1>8 DEF
          InductiveInvariant

\* The row is still the one the drainer claimed, so the UPDATE applies.
LEMMA MarkDeliveredStep ==
  ASSUME InductiveInvariant, NEW d \in Drainers, NEW e \in Events, MarkDelivered(d, e)
  PROVE  InductiveInvariant'
<1>a. deliveryState[e] = "claimed"
  BY DEF MarkDelivered, InductiveInvariant, HeldRowIsCurrent, Holds
<1>b. /\ UpdateClaimed(e, "delivered", wait[e], lastError[e], "set")
      /\ FinishTask(d, e)
      /\ faults' = faults
  BY DEF MarkDelivered
<1>1. TypeOK'
  <2>1. TypeOK
    BY DEF InductiveInvariant
  <2>2. /\ "delivered" \in RowStates
        /\ wait[e] \in 0..DelayPlateau
        /\ lastError[e] \in ErrorClasses
        /\ faults' \in 0..MaxFaults
    BY <2>1, <1>b DEF TypeOK, RowStates
  <2> QED BY <2>1, <2>2, <1>b, UpdateClaimedType, FinishTaskType DEF TypeOK, RowTypes
<1>2. SingleHolder'
  BY DEF MarkDelivered, rowVars, UpdateClaimed, FinishTask, SetTask,
     InductiveInvariant, TypeOK, SingleHolder, Holds, HeldRowIsCurrent,
     DrainerDiscipline, Claimable
<1>3. HeldRowIsCurrent'
  BY DEF MarkDelivered, rowVars, UpdateClaimed, FinishTask, SetTask,
     InductiveInvariant, TypeOK, HeldRowIsCurrent, Holds, SingleHolder,
     DrainerDiscipline, Claimable
<1>4. RetryBudget'
  BY SizesAssumption DEF MarkDelivered, rowVars, UpdateClaimed, FinishTask,
     SetTask, InductiveInvariant, TypeOK, RetryBudget, HeldRowIsCurrent,
     Holds, DrainerDiscipline, Claimable, ProgressNeedsClaim
<1>5. DeliveredHadEffect'
  BY DEF MarkDelivered, rowVars, UpdateClaimed, FinishTask, SetTask,
     InductiveInvariant, TypeOK, DeliveredHadEffect, HeldRowIsCurrent, Holds,
     OneEffectPerClaim, DrainerDiscipline, Claimable
<1>6. EmittedWithBusinessWrite'
  BY DEF MarkDelivered, rowVars, UpdateClaimed, FinishTask, SetTask,
     InductiveInvariant, TypeOK, EmittedWithBusinessWrite, HeldRowIsCurrent,
     Holds, DrainerDiscipline, Claimable
<1>7. StrandedOnlyByFaultOrNoConsumer'
  <2>1. /\ deliveryState'[e] = "delivered"
        /\ \A f \in Events \ {e} : deliveryState'[f] = deliveryState[f]
        /\ UNCHANGED attempts
    BY <1>a, <1>b DEF UpdateClaimed, InductiveInvariant, TypeOK
  <2>2. \A c \in Drainers, f \in Events \ {e} : task'[c][f] = task[c][f]
    BY <1>b DEF FinishTask, SetTask, InductiveInvariant, TypeOK
  <2> QED BY <2>1, <2>2, <1>b DEF StrandedOnlyByFaultOrNoConsumer, Stranded,
             Holds, InductiveInvariant, Routable
<1>8. TriageFields'
  BY DEF MarkDelivered, rowVars, UpdateClaimed, FinishTask, SetTask,
     InductiveInvariant, TypeOK, TriageFields, RowStates, HeldRowIsCurrent,
     Holds, DrainerDiscipline, Claimable, ProgressNeedsClaim, ErrorClasses
<1>9. DrainerDiscipline'
  BY DEF MarkDelivered, rowVars, UpdateClaimed, FinishTask, SetTask,
     InductiveInvariant, TypeOK, DrainerDiscipline, Holds, Claimable,
     HeldRowIsCurrent
<1>10. OneEffectPerClaim'
  BY DEF MarkDelivered, rowVars, UpdateClaimed, FinishTask, SetTask,
     InductiveInvariant, TypeOK, OneEffectPerClaim, HeldRowIsCurrent,
     SingleHolder, Holds, DrainerDiscipline, Claimable, DeliveredHadEffect
<1>11. ProgressNeedsClaim'
  BY DEF MarkDelivered, rowVars, UpdateClaimed, FinishTask, SetTask,
     InductiveInvariant, TypeOK, ProgressNeedsClaim, HeldRowIsCurrent, Holds,
     DrainerDiscipline, Claimable, nextAttemptDelay, MaxAge, RowStates
<1> QED BY <1>1, <1>2, <1>3, <1>4, <1>5, <1>6, <1>7, <1>8, <1>9, <1>10, <1>11
          DEF InductiveInvariant

\* Dead-lettering and retrying split at the exhausted budget.
LEMMA ConsumerThrewStep ==
  ASSUME InductiveInvariant, NEW d \in Drainers, NEW e \in Events, ConsumerThrew(d, e)
  PROVE  InductiveInvariant'
<1>a. /\ deliveryState[e] = "claimed"
      /\ seen[d][e] = attempts[e]
      /\ attempts[e] \in Nat
      /\ attempts[e] <= MaxAttempts
  BY DEF ConsumerThrew, InductiveInvariant, HeldRowIsCurrent, RetryBudget,
         Holds, TypeOK
<1>b. FinishTask(d, e) /\ faults' = faults
  BY DEF ConsumerThrew
<1>1. TypeOK'
  <2>1. TypeOK
    BY DEF InductiveInvariant
  <2>2. /\ "ConsumerError" \in ErrorClasses
        /\ "dead_lettered" \in RowStates
        /\ wait[e] \in 0..DelayPlateau
        /\ faults' \in 0..MaxFaults
    BY <2>1, <1>b DEF TypeOK, RowStates, ErrorClasses
  <2>3. RowTypes'
    <3>1. CASE seen[d][e] >= MaxAttempts
      <4>1. UpdateClaimed(e, "dead_lettered", wait[e], "ConsumerError", "set")
        BY <3>1 DEF ConsumerThrew, MarkDeadLettered
      <4> QED BY <2>1, <2>2, <4>1, UpdateClaimedType
    <3>2. CASE ~(seen[d][e] >= MaxAttempts)
      <4>1. MarkFailed(e, attempts[e], "ConsumerError")
        BY <3>2, <1>a DEF ConsumerThrew
      <4> QED BY <2>1, <2>2, <4>1, <1>a, MarkFailedType
    <3> QED BY <3>1, <3>2
  <2> QED BY <2>1, <2>2, <2>3, <1>b, FinishTaskType DEF TypeOK, RowTypes
<1>2. SingleHolder'
  BY DEF ConsumerThrew, rowVars, MarkDeadLettered, MarkFailed, UpdateClaimed,
     FinishTask, SetTask, InductiveInvariant, TypeOK, SingleHolder, Holds,
     HeldRowIsCurrent, DrainerDiscipline, Claimable
<1>3. HeldRowIsCurrent'
  BY DEF ConsumerThrew, rowVars, MarkDeadLettered, MarkFailed, UpdateClaimed,
     FinishTask, SetTask, InductiveInvariant, TypeOK, HeldRowIsCurrent, Holds,
     SingleHolder, DrainerDiscipline, Claimable
<1>4. RetryBudget'
  <2>1. /\ attempts[e] = MaxAttempts => deliveryState'[e] = "dead_lettered"
        /\ attempts[e] < MaxAttempts => deliveryState'[e] = "failed"
        /\ \A f \in Events \ {e} : deliveryState'[f] = deliveryState[f]
        /\ attempts' = attempts
    BY <1>a, SizesAssumption DEF ConsumerThrew, MarkFailed, MarkDeadLettered,
       UpdateClaimed, rowVars, InductiveInvariant, TypeOK
  <2> QED BY <1>a, <2>1, SizesAssumption DEF RetryBudget, InductiveInvariant
<1>5. DeliveredHadEffect'
  BY DEF ConsumerThrew, rowVars, MarkDeadLettered, MarkFailed, UpdateClaimed,
     FinishTask, SetTask, InductiveInvariant, TypeOK, DeliveredHadEffect,
     HeldRowIsCurrent, Holds, OneEffectPerClaim, DrainerDiscipline, Claimable
<1>6. EmittedWithBusinessWrite'
  BY DEF ConsumerThrew, rowVars, MarkDeadLettered, MarkFailed, UpdateClaimed,
     FinishTask, SetTask, InductiveInvariant, TypeOK,
     EmittedWithBusinessWrite, HeldRowIsCurrent, Holds, DrainerDiscipline,
     Claimable
<1>7. StrandedOnlyByFaultOrNoConsumer'
  BY DEF ConsumerThrew, rowVars, MarkDeadLettered, MarkFailed, UpdateClaimed,
     FinishTask, SetTask, InductiveInvariant, TypeOK,
     StrandedOnlyByFaultOrNoConsumer, Stranded, HeldRowIsCurrent, Holds,
     DrainerDiscipline, Claimable, Routable, RetryBudget
<1>8. TriageFields'
  BY DEF ConsumerThrew, rowVars, MarkDeadLettered, MarkFailed, UpdateClaimed,
     FinishTask, SetTask, InductiveInvariant, TypeOK, TriageFields, RowStates,
     HeldRowIsCurrent, Holds, DrainerDiscipline, Claimable,
     ProgressNeedsClaim, ErrorClasses
<1>9. DrainerDiscipline'
  BY DEF ConsumerThrew, rowVars, MarkDeadLettered, MarkFailed, UpdateClaimed,
     FinishTask, SetTask, InductiveInvariant, TypeOK, DrainerDiscipline,
     Holds, Claimable, HeldRowIsCurrent
<1>10. OneEffectPerClaim'
  BY DEF ConsumerThrew, rowVars, MarkDeadLettered, MarkFailed, UpdateClaimed,
     FinishTask, SetTask, InductiveInvariant, TypeOK, OneEffectPerClaim,
     HeldRowIsCurrent, SingleHolder, Holds, DrainerDiscipline, Claimable,
     DeliveredHadEffect
<1>11. ProgressNeedsClaim'
  BY TimesAssumption DEF ConsumerThrew, rowVars, MarkDeadLettered, MarkFailed,
     UpdateClaimed, FinishTask, SetTask, InductiveInvariant, TypeOK,
     ProgressNeedsClaim, HeldRowIsCurrent, Holds, DrainerDiscipline,
     Claimable, nextAttemptDelay, MaxAge, RowStates
<1> QED BY <1>1, <1>2, <1>3, <1>4, <1>5, <1>6, <1>7, <1>8, <1>9, <1>10, <1>11
          DEF InductiveInvariant

\* With an exhausted budget markFailed throws and strands the row.
LEMMA NoConsumerStep ==
  ASSUME InductiveInvariant, NEW d \in Drainers, NEW e \in Events, NoConsumer(d, e)
  PROVE  InductiveInvariant'
<1>a. /\ deliveryState[e] = "claimed"
      /\ seen[d][e] = attempts[e]
      /\ attempts[e] \in Nat
      /\ attempts[e] <= MaxAttempts
  BY DEF NoConsumer, InductiveInvariant, HeldRowIsCurrent, RetryBudget,
         Holds, TypeOK
<1>b. /\ MarkFailed(e, attempts[e], "UnroutableEventType")
      /\ FinishTask(d, e)
      /\ faults' = faults
      /\ ~Routable(e)
  BY <1>a DEF NoConsumer
<1>1. TypeOK'
  <2>1. TypeOK
    BY DEF InductiveInvariant
  <2>2. "UnroutableEventType" \in ErrorClasses /\ faults' \in 0..MaxFaults
    BY <2>1, <1>b DEF TypeOK, ErrorClasses
  <2> QED BY <2>1, <2>2, <1>a, <1>b, MarkFailedType, FinishTaskType
          DEF TypeOK, RowTypes
<1>2. SingleHolder'
  BY DEF NoConsumer, rowVars, MarkFailed, UpdateClaimed, FinishTask, SetTask,
     InductiveInvariant, TypeOK, SingleHolder, Holds, HeldRowIsCurrent,
     DrainerDiscipline, Claimable
<1>3. HeldRowIsCurrent'
  BY DEF NoConsumer, rowVars, MarkFailed, UpdateClaimed, FinishTask, SetTask,
     InductiveInvariant, TypeOK, HeldRowIsCurrent, Holds, SingleHolder,
     DrainerDiscipline, Claimable
<1>4. RetryBudget'
  BY SizesAssumption DEF NoConsumer, rowVars, MarkFailed, UpdateClaimed,
     FinishTask, SetTask, InductiveInvariant, TypeOK, RetryBudget,
     HeldRowIsCurrent, Holds, DrainerDiscipline, Claimable, ProgressNeedsClaim
<1>5. DeliveredHadEffect'
  BY DEF NoConsumer, rowVars, MarkFailed, UpdateClaimed, FinishTask, SetTask,
     InductiveInvariant, TypeOK, DeliveredHadEffect, HeldRowIsCurrent, Holds,
     OneEffectPerClaim, DrainerDiscipline, Claimable
<1>6. EmittedWithBusinessWrite'
  BY DEF NoConsumer, rowVars, MarkFailed, UpdateClaimed, FinishTask, SetTask,
     InductiveInvariant, TypeOK, EmittedWithBusinessWrite, HeldRowIsCurrent,
     Holds, DrainerDiscipline, Claimable
<1>7. StrandedOnlyByFaultOrNoConsumer'
  <2>1. /\ attempts[e] = MaxAttempts \/ deliveryState'[e] = "failed"
        /\ \A f \in Events \ {e} : deliveryState'[f] = deliveryState[f]
        /\ attempts' = attempts
    <3>1. CASE attempts[e] >= MaxAttempts
      BY <1>a, <1>b, <3>1, SizesAssumption DEF MarkFailed, rowVars
    <3>2. CASE ~(attempts[e] >= MaxAttempts)
      BY <1>a, <1>b, <3>2 DEF MarkFailed, UpdateClaimed, InductiveInvariant, TypeOK
    <3> QED BY <3>1, <3>2
  <2>2. \A c \in Drainers, f \in Events \ {e} : task'[c][f] = task[c][f]
    BY <1>b DEF FinishTask, SetTask, InductiveInvariant, TypeOK
  <2> QED BY <2>1, <2>2, <1>b DEF StrandedOnlyByFaultOrNoConsumer, Stranded,
             Holds, InductiveInvariant, Routable
<1>8. TriageFields'
  BY DEF NoConsumer, rowVars, MarkFailed, UpdateClaimed, FinishTask, SetTask,
     InductiveInvariant, TypeOK, TriageFields, RowStates, HeldRowIsCurrent,
     Holds, DrainerDiscipline, Claimable, ProgressNeedsClaim, ErrorClasses
<1>9. DrainerDiscipline'
  BY DEF NoConsumer, rowVars, MarkFailed, UpdateClaimed, FinishTask, SetTask,
     InductiveInvariant, TypeOK, DrainerDiscipline, Holds, Claimable,
     HeldRowIsCurrent
<1>10. OneEffectPerClaim'
  BY DEF NoConsumer, rowVars, MarkFailed, UpdateClaimed, FinishTask, SetTask,
     InductiveInvariant, TypeOK, OneEffectPerClaim, HeldRowIsCurrent,
     SingleHolder, Holds, DrainerDiscipline, Claimable, DeliveredHadEffect
<1>11. ProgressNeedsClaim'
  BY TimesAssumption DEF NoConsumer, rowVars, MarkFailed, UpdateClaimed,
     FinishTask, SetTask, InductiveInvariant, TypeOK, ProgressNeedsClaim,
     HeldRowIsCurrent, Holds, DrainerDiscipline, Claimable, nextAttemptDelay,
     MaxAge, RowStates
<1> QED BY <1>1, <1>2, <1>3, <1>4, <1>5, <1>6, <1>7, <1>8, <1>9, <1>10, <1>11
          DEF InductiveInvariant

\* A failed mark strands the row by a fault.
LEMMA MarkFailsStep ==
  ASSUME InductiveInvariant, NEW d \in Drainers, NEW e \in Events, MarkFails(d, e)
  PROVE  InductiveInvariant'
<1>1. TypeOK'
  BY SizesAssumption DEF MarkFails, rowVars, Fault, FinishTask, SetTask,
     InductiveInvariant, TypeOK, RowStates, NoRowStates, ErrorClasses,
     TaskSteps, MaxAge
<1>2. SingleHolder'
  BY DEF MarkFails, rowVars, Fault, FinishTask, SetTask, InductiveInvariant,
     TypeOK, SingleHolder, Holds, HeldRowIsCurrent, DrainerDiscipline,
     Claimable
<1>3. HeldRowIsCurrent'
  BY DEF MarkFails, rowVars, Fault, FinishTask, SetTask, InductiveInvariant,
     TypeOK, HeldRowIsCurrent, Holds, SingleHolder, DrainerDiscipline,
     Claimable
<1>4. StrandedOnlyByFaultOrNoConsumer'
  BY SizesAssumption DEF MarkFails, rowVars, Fault, FinishTask, SetTask,
     InductiveInvariant, TypeOK, StrandedOnlyByFaultOrNoConsumer, Stranded,
     HeldRowIsCurrent, Holds, DrainerDiscipline, Claimable, Routable
<1>5. DrainerDiscipline'
  BY DEF MarkFails, rowVars, Fault, FinishTask, SetTask, InductiveInvariant,
     TypeOK, DrainerDiscipline, Holds, Claimable, HeldRowIsCurrent
<1>6. OneEffectPerClaim'
  BY DEF MarkFails, rowVars, Fault, FinishTask, SetTask, InductiveInvariant,
     TypeOK, OneEffectPerClaim, HeldRowIsCurrent, SingleHolder, Holds,
     DrainerDiscipline, Claimable, DeliveredHadEffect
<1>7. /\ RetryBudget'
      /\ DeliveredHadEffect'
      /\ EmittedWithBusinessWrite'
      /\ TriageFields'
      /\ ProgressNeedsClaim'
  BY DEF MarkFails, rowVars, Fault, FinishTask, SetTask, InductiveInvariant,
     RetryBudget, DeliveredHadEffect, EmittedWithBusinessWrite, TriageFields,
     ProgressNeedsClaim, nextAttemptDelay
<1> QED BY <1>1, <1>2, <1>3, <1>4, <1>5, <1>6, <1>7 DEF InductiveInvariant

\* No purged row is claimed, pending or locked.
LEMMA PurgeBatchStep ==
  ASSUME InductiveInvariant, PurgeBatch
  PROVE  InductiveInvariant'
<1>1. TypeOK'
  BY TimesAssumption DEF PurgeBatch, drainVars, PurgeCandidates, Purgeable,
     OldestFirst, Unlocked, InductiveInvariant, TypeOK, RowStates,
     NoRowStates, ErrorClasses, TaskSteps, MaxAge
<1>2. HeldRowIsCurrent'
  BY SMTT(40) DEF PurgeBatch, drainVars, PurgeCandidates, Purgeable, OldestFirst,
     Unlocked, InductiveInvariant, TypeOK, HeldRowIsCurrent, Holds,
     SingleHolder, DrainerDiscipline, Claimable
<1>3. RetryBudget'
  BY DEF PurgeBatch, drainVars, PurgeCandidates, Purgeable, OldestFirst,
     Unlocked, InductiveInvariant, TypeOK, RetryBudget, HeldRowIsCurrent,
     Holds, DrainerDiscipline, Claimable, ProgressNeedsClaim
<1>4. DeliveredHadEffect'
  BY DEF PurgeBatch, drainVars, PurgeCandidates, Purgeable, OldestFirst,
     Unlocked, InductiveInvariant, TypeOK, DeliveredHadEffect,
     HeldRowIsCurrent, Holds, OneEffectPerClaim, DrainerDiscipline, Claimable
<1>5. EmittedWithBusinessWrite'
  BY DEF PurgeBatch, drainVars, PurgeCandidates, Purgeable, OldestFirst,
     Unlocked, InductiveInvariant, TypeOK, EmittedWithBusinessWrite,
     HeldRowIsCurrent, Holds, DrainerDiscipline, Claimable
<1>6. StrandedOnlyByFaultOrNoConsumer'
  BY DEF PurgeBatch, drainVars, PurgeCandidates, Purgeable, OldestFirst,
     Unlocked, InductiveInvariant, TypeOK, StrandedOnlyByFaultOrNoConsumer,
     Stranded, HeldRowIsCurrent, Holds, DrainerDiscipline, Claimable, Routable
<1>7. TriageFields'
  BY DEF PurgeBatch, drainVars, PurgeCandidates, Purgeable, OldestFirst,
     Unlocked, InductiveInvariant, TypeOK, TriageFields, RowStates,
     HeldRowIsCurrent, Holds, DrainerDiscipline, Claimable,
     ProgressNeedsClaim, ErrorClasses
<1>8. DrainerDiscipline'
  BY DEF PurgeBatch, drainVars, PurgeCandidates, Purgeable, OldestFirst,
     Unlocked, InductiveInvariant, TypeOK, DrainerDiscipline, Holds,
     Claimable, HeldRowIsCurrent
<1>9. ProgressNeedsClaim'
  BY DEF PurgeBatch, drainVars, PurgeCandidates, Purgeable, OldestFirst,
     Unlocked, InductiveInvariant, TypeOK, ProgressNeedsClaim,
     HeldRowIsCurrent, Holds, DrainerDiscipline, Claimable, nextAttemptDelay,
     MaxAge, RowStates
<1>10. /\ SingleHolder'
       /\ OneEffectPerClaim'
  BY DEF PurgeBatch, drainVars, PurgeCandidates, Purgeable, OldestFirst,
     Unlocked, InductiveInvariant, SingleHolder, OneEffectPerClaim, Holds
<1> QED BY <1>1, <1>2, <1>3, <1>4, <1>5, <1>6, <1>7, <1>8, <1>9, <1>10 DEF
          InductiveInvariant

\* Age and wait move against each other.
LEMMA ElapseStep ==
  ASSUME InductiveInvariant, Elapse
  PROVE  InductiveInvariant'
<1>1. TypeOK'
  BY TimesAssumption DEF Elapse, drainVars, InductiveInvariant, TypeOK,
     RowStates, NoRowStates, ErrorClasses, TaskSteps, MaxAge
<1>2. DrainerDiscipline'
  BY DEF Elapse, drainVars, InductiveInvariant, TypeOK, DrainerDiscipline,
     Holds, Claimable, HeldRowIsCurrent
<1>3. ProgressNeedsClaim'
  BY TimesAssumption DEF Elapse, drainVars, InductiveInvariant, TypeOK,
     ProgressNeedsClaim, HeldRowIsCurrent, Holds, DrainerDiscipline,
     Claimable, nextAttemptDelay, MaxAge, RowStates
<1>4. /\ SingleHolder'
      /\ HeldRowIsCurrent'
      /\ RetryBudget'
      /\ DeliveredHadEffect'
      /\ EmittedWithBusinessWrite'
      /\ StrandedOnlyByFaultOrNoConsumer'
      /\ TriageFields'
      /\ OneEffectPerClaim'
  BY DEF Elapse, drainVars, InductiveInvariant, SingleHolder,
     HeldRowIsCurrent, RetryBudget, DeliveredHadEffect,
     EmittedWithBusinessWrite, StrandedOnlyByFaultOrNoConsumer, TriageFields,
     OneEffectPerClaim, Holds, Stranded, Routable
<1> QED BY <1>1, <1>2, <1>3, <1>4 DEF InductiveInvariant

-----------------------------------------------------------------------------
\* The empty outbox satisfies the invariant.
LEMMA InitInductive == Init => InductiveInvariant
<1> SUFFICES ASSUME Init PROVE InductiveInvariant
  OBVIOUS
<1>1. TypeOK
  BY SizesAssumption, TimesAssumption
     DEF Init, TypeOK, NoTasks, NoSeen, RowStates, NoRowStates, ErrorClasses,
         TaskSteps, MaxAge
<1>2. \A d \in Drainers, e \in Events : ~Holds(d, e)
  BY DEF Init, NoTasks, Holds
<1>3. SingleHolder /\ HeldRowIsCurrent
  BY <1>2 DEF SingleHolder, HeldRowIsCurrent
<1>4. RetryBudget /\ DeliveredHadEffect /\ EmittedWithBusinessWrite
  BY SizesAssumption DEF Init, RetryBudget, DeliveredHadEffect, EmittedWithBusinessWrite
<1>5. StrandedOnlyByFaultOrNoConsumer /\ TriageFields /\ ProgressNeedsClaim
  BY DEF Init, StrandedOnlyByFaultOrNoConsumer, Stranded, TriageFields,
         ProgressNeedsClaim, RowStates
<1>6. DrainerDiscipline /\ OneEffectPerClaim
  BY <1>2, IdentityAssumption DEF Init, DrainerDiscipline, OneEffectPerClaim, NoTasks
<1> QED BY <1>1, <1>3, <1>4, <1>5, <1>6 DEF InductiveInvariant

\* Every step preserves it: one lemma per action.
LEMMA NextInductive == InductiveInvariant /\ [Next]_vars => InductiveInvariant'
<1> SUFFICES ASSUME InductiveInvariant, [Next]_vars PROVE InductiveInvariant'
  OBVIOUS
<1>1. ASSUME NEW e \in Events, Produce(e) PROVE InductiveInvariant'
  BY <1>1, EmitStep, AuditedHandlerCommitsStep, EmitInNewTransactionStep,
     EmitFailsStep DEF Produce
<1>2. ASSUME NEW d \in Drainers, DrainerStep(d) PROVE InductiveInvariant'
  <2>1. CASE \E e \in Events : ProcessRow(d, e) \/ MarkFails(d, e)
    BY <2>1, InvokeConsumerStep, MarkDeliveredStep, ConsumerThrewStep,
       NoConsumerStep, MarkFailsStep DEF ProcessRow
  <2> QED BY <1>2, <2>1, StartStep, StopStep, TickClaimStep, ClaimCommitStep,
             ClaimFailsStep, TickEndsStep, CrashStep DEF DrainerStep
<1>3. CASE UNCHANGED vars
  BY <1>3 DEF vars, rowVars, drainVars, InductiveInvariant, TypeOK, SingleHolder,
     HeldRowIsCurrent, RetryBudget, DeliveredHadEffect, EmittedWithBusinessWrite,
     StrandedOnlyByFaultOrNoConsumer, Stranded, TriageFields, DrainerDiscipline,
     OneEffectPerClaim, ProgressNeedsClaim, Holds, Claimable
<1> QED BY <1>1, <1>2, <1>3, PurgeBatchStep, ElapseStep DEF Next

\* The invariant holds in every reachable state.
THEOREM InvariantHolds == Spec => []InductiveInvariant
BY InitInductive, NextInductive, PTL DEF Spec

\* The outbox table and the drainers' memory keep their types.
THEOREM TypeCorrect == Spec => []TypeOK
<1>1. InductiveInvariant => TypeOK
  BY DEF InductiveInvariant
<1> QED BY <1>1, InvariantHolds, PTL

\* Replicas never process the same row (claimBatch, SKIP LOCKED), and what a
\* replica remembers of a row across the consumer's await is never stale, so
\* no strict mark of drainer.processor.ts meets a row in another state.
THEOREM NoDoubleClaim == Spec => [](SingleHolder /\ HeldRowIsCurrent)
<1>1. InductiveInvariant => SingleHolder /\ HeldRowIsCurrent
  BY DEF InductiveInvariant
<1> QED BY <1>1, InvariantHolds, PTL

\* There is no claim beyond MAX_ATTEMPTS and no early dead-lettering.
THEOREM BudgetKept == Spec => []RetryBudget
<1>1. InductiveInvariant => RetryBudget
  BY DEF InductiveInvariant
<1> QED BY <1>1, InvariantHolds, PTL

\* A delivered event had its effect, at most once per claim.
THEOREM DeliveryMeansEffect == Spec => []DeliveredHadEffect
<1>1. InductiveInvariant => DeliveredHadEffect
  BY DEF InductiveInvariant
<1> QED BY <1>1, InvariantHolds, PTL

\* Events and business writes are atomic where emit() shares the transaction.
THEOREM EmitAtomicity == Spec => []EmittedWithBusinessWrite
<1>1. InductiveInvariant => EmittedWithBusinessWrite
  BY DEF InductiveInvariant
<1> QED BY <1>1, InvariantHolds, PTL

\* The two ways, and no other, in which a row is left claimed for good.
THEOREM StrandingCauses == Spec => []StrandedOnlyByFaultOrNoConsumer
<1>1. InductiveInvariant => StrandedOnlyByFaultOrNoConsumer
  BY DEF InductiveInvariant
<1> QED BY <1>1, InvariantHolds, PTL

-----------------------------------------------------------------------------
(* Action properties.                                                      *)

\* A step that is not a claim commit turns no failed row into a claimed one,
\* and a claim commits only rows whose backoff has passed.
LEMMA ClaimAfterBackoff ==
  ASSUME InductiveInvariant, [Next]_vars, NEW e \in Events,
         deliveryState[e] = "failed", deliveryState'[e] = "claimed"
  PROVE  age[e] >= nextAttemptDelay(attempts[e])
<1>1. PICK d \in Drainers : ClaimCommit(d) /\ rowLock[e] = d
  BY DEF Next, Produce, DrainerStep, ProcessRow, vars, rowVars, Emit,
     AuditedHandlerCommits, EmitInNewTransaction, EmitFails, InsertPending,
     Start, Stop, TickClaim, ClaimCommit, LockedBy, ClaimFails, TickEnds, Crash,
     InvokeConsumer, MarkDelivered, ConsumerThrew, NoConsumer, MarkFails,
     MarkFailed, MarkDeadLettered, UpdateClaimed, PurgeBatch, Elapse,
     InductiveInvariant, TypeOK
<1>2. wait[e] = 0
  BY <1>1, IdentityAssumption DEF InductiveInvariant, DrainerDiscipline, Claimable
<1> QED BY <1>2 DEF InductiveInvariant, TypeOK, ProgressNeedsClaim

\* Retries wait for the backoff schedule of nextAttemptDelayMs.
THEOREM BackoffKept == Spec => BackoffRespected
<1>1. InductiveInvariant /\ [Next]_vars =>
        [\A e \in Events : deliveryState[e] = "failed" /\ deliveryState'[e] = "claimed"
            => age[e] >= nextAttemptDelay(attempts[e])]_vars
  BY ClaimAfterBackoff
<1> QED BY <1>1, InvariantHolds, PTL DEF Spec, BackoffRespected

\* Nothing but retention touches a settled row: a claim needs pending or
\* failed, a mark needs claimed.
LEMMA SettledStep ==
  ASSUME InductiveInvariant, [Next]_vars, NEW e \in Events,
         deliveryState[e] \in {"delivered", "dead_lettered"}
  PROVE  deliveryState'[e] \in {deliveryState[e], "purged"}
<1>1. CASE \E d \in Drainers : ClaimCommit(d)
  BY <1>1, IdentityAssumption DEF ClaimCommit, LockedBy, InductiveInvariant,
     DrainerDiscipline, Claimable
<1>2. CASE \E d \in Drainers, f \in Events : ProcessRow(d, f)
  BY <1>2 DEF ProcessRow, InvokeConsumer, MarkDelivered, ConsumerThrew,
     NoConsumer, MarkFailed, MarkDeadLettered, UpdateClaimed, rowVars,
     InductiveInvariant, TypeOK
<1>3. CASE PurgeBatch
  BY <1>3 DEF PurgeBatch
<1>4. CASE \E f \in Events : Produce(f)
  BY <1>4 DEF Produce, Emit, AuditedHandlerCommits, EmitInNewTransaction,
     EmitFails, InsertPending, rowVars, InductiveInvariant, TypeOK
<1> QED BY <1>1, <1>2, <1>3, <1>4 DEF Next, DrainerStep, vars, rowVars, Start,
           Stop, TickClaim, ClaimFails, TickEnds, Crash, MarkFails, Elapse

\* delivered and dead_lettered are final until the row is purged.
THEOREM SettledStaysSettled == Spec => SettledIsFinal
<1>1. InductiveInvariant /\ [Next]_vars =>
        [\A e \in Events : deliveryState[e] \in {"delivered", "dead_lettered"}
            => deliveryState'[e] \in {deliveryState[e], "purged"}]_vars
  BY SettledStep
<1> QED BY <1>1, InvariantHolds, PTL DEF Spec, SettledIsFinal

-----------------------------------------------------------------------------
(* Refinement of EventDelivery.                                            *)

\* What the mapping sends each delivery state to.
LEMMA StatusOf ==
  ASSUME NEW e \in Events
  PROVE  /\ deliveryState[e] \in {"none", "lost"} => deliveryStatus[e] = "unpublished"
         /\ deliveryState[e] \in {"pending", "claimed", "failed"} => deliveryStatus[e] = "open"
         /\ deliveryState[e] = "delivered" => deliveryStatus[e] = "delivered"
         /\ deliveryState[e] = "dead_lettered" => deliveryStatus[e] = "dead"
         /\ deliveryState[e] = "purged" => deliveryStatus[e] = "expired"
BY DEF deliveryStatus

\* The same for the state after a step.
LEMMA StatusOfNext ==
  ASSUME NEW e \in Events
  PROVE  /\ deliveryState'[e] \in {"none", "lost"} => deliveryStatus'[e] = "unpublished"
         /\ deliveryState'[e] \in {"pending", "claimed", "failed"} => deliveryStatus'[e] = "open"
         /\ deliveryState'[e] = "delivered" => deliveryStatus'[e] = "delivered"
         /\ deliveryState'[e] = "dead_lettered" => deliveryStatus'[e] = "dead"
         /\ deliveryState'[e] = "purged" => deliveryStatus'[e] = "expired"
BY DEF deliveryStatus

\* deliveryStatus is a function on Events.
LEMMA StatusDomain ==
  /\ deliveryStatus = [e \in Events |-> deliveryStatus[e]]
  /\ deliveryStatus' = [e \in Events |-> deliveryStatus'[e]]
BY DEF deliveryStatus
\* A step that keeps every event in its class, its attempts and its effects
\* is a stutter of the promise.
LEMMA StutterStep ==
  ASSUME \A e \in Events : deliveryStatus'[e] = deliveryStatus[e],
         UNCHANGED <<attempts, effects>>
  PROVE  UNCHANGED Delivery!deliveryVars
<1>1. deliveryStatus' = deliveryStatus
  BY StatusDomain
<1> QED BY <1>1 DEF Delivery!deliveryVars

\* A step that moves just one event to a new class updates the status there.
LEMMA StatusUpdate ==
  ASSUME NEW e \in Events, NEW st,
         deliveryStatus'[e] = st,
         \A f \in Events \ {e} : deliveryStatus'[f] = deliveryStatus[f]
  PROVE  deliveryStatus' = [deliveryStatus EXCEPT ![e] = st]
BY StatusDomain

\* An INSERT publishes the event.
LEMMA InsertRefines ==
  ASSUME InductiveInvariant, NEW e \in Events, deliveryState[e] = "none",
         InsertPending(e), UNCHANGED effects
  PROVE  Delivery!Publish(e)
<1>1. deliveryState'[e] = "pending" /\ \A f \in Events \ {e} : deliveryState'[f] = deliveryState[f]
  BY DEF InsertPending, InductiveInvariant, TypeOK
<1>2. deliveryStatus[e] = "unpublished" /\ deliveryStatus'[e] = "open"
  BY <1>1, StatusOf, StatusOfNext
<1>3. \A f \in Events \ {e} : deliveryStatus'[f] = deliveryStatus[f]
  BY <1>1 DEF deliveryStatus
<1>4. deliveryStatus' = [deliveryStatus EXCEPT ![e] = "open"]
  BY <1>2, <1>3, StatusUpdate
<1> QED BY <1>2, <1>4 DEF Delivery!Publish, InsertPending

\* A committed claim tries the batch once more.
LEMMA ClaimRefines ==
  ASSUME InductiveInvariant, NEW d \in Drainers, ClaimCommit(d)
  PROVE  Delivery!Try(LockedBy(d))
<1>1. \A e \in LockedBy(d) : deliveryState[e] \in {"pending", "failed"}
  BY IdentityAssumption DEF LockedBy, InductiveInvariant, DrainerDiscipline, Claimable
<1>2. \A e \in LockedBy(d) : deliveryStatus[e] = "open" /\ attempts[e] < MaxAttempts
  BY <1>1, StatusOf DEF LockedBy, InductiveInvariant, RetryBudget
<1>3. \A e \in Events : deliveryStatus'[e] = deliveryStatus[e]
  <2> SUFFICES ASSUME NEW e \in Events PROVE deliveryStatus'[e] = deliveryStatus[e]
    OBVIOUS
  <2>1. CASE e \in LockedBy(d)
    <3>1. deliveryState'[e] = "claimed"
      BY <2>1 DEF ClaimCommit
    <3> QED BY <2>1, <3>1, <1>2, StatusOfNext
  <2>2. CASE e \notin LockedBy(d)
    BY <2>2 DEF ClaimCommit, deliveryStatus
  <2> QED BY <2>1, <2>2
<1>4. deliveryStatus' = deliveryStatus
  BY <1>3, StatusDomain
<1> QED BY <1>2, <1>4 DEF Delivery!Try, ClaimCommit

\* A consumer call takes effect or does not.
LEMMA ConsumerRefines ==
  ASSUME InductiveInvariant, NEW d \in Drainers, NEW e \in Events, InvokeConsumer(d, e)
  PROVE  Delivery!TakeEffect(e) \/ UNCHANGED Delivery!deliveryVars
<1>1. deliveryStatus' = deliveryStatus
  BY DEF InvokeConsumer, rowVars, deliveryStatus
<1>2. deliveryStatus[e] = "open" /\ effects[e] < attempts[e] /\ effects \in [Events -> Nat]
  BY StatusOf DEF InvokeConsumer, InductiveInvariant, HeldRowIsCurrent, Holds,
     OneEffectPerClaim, TypeOK
<1>3. PICK effect \in {0, 1} : effects' = [effects EXCEPT ![e] = @ + effect]
  BY DEF InvokeConsumer
<1>4. UNCHANGED attempts
  BY DEF InvokeConsumer, rowVars
<1>5. CASE effect = 0
  BY <1>1, <1>2, <1>3, <1>4, <1>5 DEF Delivery!deliveryVars
<1>6. CASE effect = 1
  BY <1>1, <1>2, <1>3, <1>4, <1>6 DEF Delivery!TakeEffect
<1> QED BY <1>5, <1>6

\* markDelivered delivers an event that had its effect.
LEMMA DeliveredRefines ==
  ASSUME InductiveInvariant, NEW d \in Drainers, NEW e \in Events, MarkDelivered(d, e)
  PROVE  Delivery!Deliver(e)
<1>1. deliveryState[e] = "claimed" /\ effects[e] > 0
  BY DEF MarkDelivered, InductiveInvariant, HeldRowIsCurrent, Holds, OneEffectPerClaim
<1>2. /\ deliveryState'[e] = "delivered"
      /\ \A f \in Events \ {e} : deliveryState'[f] = deliveryState[f]
      /\ UNCHANGED <<attempts, effects>>
  BY <1>1 DEF MarkDelivered, UpdateClaimed, FinishTask, InductiveInvariant, TypeOK
<1>3. deliveryStatus[e] = "open" /\ deliveryStatus'[e] = "delivered"
  BY <1>1, <1>2, StatusOf, StatusOfNext
<1>4. \A f \in Events \ {e} : deliveryStatus'[f] = deliveryStatus[f]
  BY <1>2 DEF deliveryStatus
<1>5. deliveryStatus' = [deliveryStatus EXCEPT ![e] = "delivered"]
  BY <1>3, <1>4, StatusUpdate
<1> QED BY <1>1, <1>2, <1>3, <1>5 DEF Delivery!Deliver

\* markFailed leaves the event open.
LEMMA FailedRefines ==
  ASSUME InductiveInvariant, NEW e \in Events, NEW n \in Nat, NEW err,
         deliveryState[e] = "claimed", MarkFailed(e, n, err), UNCHANGED effects
  PROVE  UNCHANGED Delivery!deliveryVars
<1>1. CASE n >= MaxAttempts
  BY <1>1 DEF MarkFailed, rowVars, deliveryStatus, Delivery!deliveryVars
<1>2. CASE ~(n >= MaxAttempts)
  <2>1. /\ deliveryState'[e] = "failed"
        /\ \A f \in Events \ {e} : deliveryState'[f] = deliveryState[f]
        /\ UNCHANGED attempts
    BY <1>2 DEF MarkFailed, UpdateClaimed, InductiveInvariant, TypeOK
  <2>2. deliveryStatus[e] = "open" /\ deliveryStatus'[e] = "open"
    BY <2>1, StatusOf, StatusOfNext
  <2>3. \A f \in Events \ {e} : deliveryStatus'[f] = deliveryStatus[f]
    BY <2>1 DEF deliveryStatus
  <2> QED BY <2>1, <2>2, <2>3, StutterStep
<1> QED BY <1>1, <1>2

\* A consumer's throw buries the event when its tries are used up.
LEMMA ThrewRefines ==
  ASSUME InductiveInvariant, NEW d \in Drainers, NEW e \in Events, ConsumerThrew(d, e)
  PROVE  Delivery!Bury(e) \/ UNCHANGED Delivery!deliveryVars
<1>1. /\ deliveryState[e] = "claimed"
      /\ seen[d][e] = attempts[e]
      /\ attempts[e] \in Nat
      /\ attempts[e] <= MaxAttempts
      /\ UNCHANGED effects
  BY DEF ConsumerThrew, InductiveInvariant, HeldRowIsCurrent, RetryBudget,
         Holds, TypeOK, FinishTask
<1>2. CASE attempts[e] >= MaxAttempts
  <2>1. /\ deliveryState'[e] = "dead_lettered"
        /\ \A f \in Events \ {e} : deliveryState'[f] = deliveryState[f]
        /\ UNCHANGED attempts
    BY <1>1, <1>2 DEF ConsumerThrew, MarkDeadLettered, UpdateClaimed,
       InductiveInvariant, TypeOK
  <2>2. deliveryStatus[e] = "open" /\ deliveryStatus'[e] = "dead"
    BY <1>1, <2>1, StatusOf, StatusOfNext
  <2>3. \A f \in Events \ {e} : deliveryStatus'[f] = deliveryStatus[f]
    BY <2>1 DEF deliveryStatus
  <2>4. deliveryStatus' = [deliveryStatus EXCEPT ![e] = "dead"]
    BY <2>2, <2>3, StatusUpdate
  <2>5. attempts[e] = MaxAttempts
    BY <1>1, <1>2, SizesAssumption
  <2> QED BY <1>1, <2>1, <2>2, <2>4, <2>5 DEF Delivery!Bury
<1>3. CASE ~(attempts[e] >= MaxAttempts)
  <2>1. MarkFailed(e, attempts[e], "ConsumerError")
    BY <1>1, <1>3 DEF ConsumerThrew
  <2> QED BY <1>1, <2>1, FailedRefines
<1> QED BY <1>2, <1>3

\* An event without consumer stays open.
LEMMA NoConsumerRefines ==
  ASSUME InductiveInvariant, NEW d \in Drainers, NEW e \in Events, NoConsumer(d, e)
  PROVE  UNCHANGED Delivery!deliveryVars
<1>1. /\ deliveryState[e] = "claimed"
      /\ seen[d][e] \in Nat
      /\ UNCHANGED effects
      /\ MarkFailed(e, seen[d][e], "UnroutableEventType")
  BY DEF NoConsumer, InductiveInvariant, HeldRowIsCurrent, Holds, TypeOK, FinishTask
<1> QED BY <1>1, FailedRefines

\* The purge forgets rows that were tried.
LEMMA PurgeRefines ==
  ASSUME InductiveInvariant, PurgeBatch
  PROVE  \E B \in SUBSET Events : Delivery!Expire(B)
<1>1. PICK B \in SUBSET PurgeCandidates :
        deliveryState' = [e \in Events |-> IF e \in B THEN "purged" ELSE deliveryState[e]]
  BY DEF PurgeBatch, OldestFirst
<1>2. \A e \in B : /\ e \in Events
                   /\ deliveryState[e] \in {"delivered", "failed", "dead_lettered"}
  BY DEF PurgeCandidates, Purgeable
<1>3. \A e \in B : deliveryStatus[e] \in {"open", "delivered", "dead"} /\ attempts[e] > 0
  BY <1>2, StatusOf DEF InductiveInvariant, ProgressNeedsClaim
<1>4. \A e \in Events : deliveryStatus'[e] = IF e \in B THEN "expired" ELSE deliveryStatus[e]
  <2> SUFFICES ASSUME NEW e \in Events
               PROVE  deliveryStatus'[e] = IF e \in B THEN "expired" ELSE deliveryStatus[e]
    OBVIOUS
  <2>1. CASE e \in B
    <3>1. deliveryState'[e] = "purged"
      BY <1>1, <2>1
    <3> QED BY <2>1, <3>1, StatusOfNext
  <2>2. CASE e \notin B
    BY <1>1, <2>2 DEF deliveryStatus
  <2> QED BY <2>1, <2>2
<1>5. deliveryStatus' = [e \in Events |-> IF e \in B THEN "expired" ELSE deliveryStatus[e]]
  BY <1>4, StatusDomain
<1>6. UNCHANGED <<attempts, effects>>
  BY DEF PurgeBatch
<1>7. Delivery!Expire(B)
  BY <1>3, <1>5, <1>6 DEF Delivery!Expire
<1> QED BY <1>2, <1>7

\* A step that leaves delivery_state, attempts and effects alone stutters.
LEMMA FrameRefines ==
  ASSUME UNCHANGED <<deliveryState, attempts, effects>>
  PROVE  UNCHANGED Delivery!deliveryVars
BY DEF Delivery!deliveryVars, deliveryStatus

\* Losing an audit event leaves it unpublished.
LEMMA EmitFailsRefines ==
  ASSUME InductiveInvariant, NEW e \in Events, EmitFails(e)
  PROVE  UNCHANGED Delivery!deliveryVars
<1>1. /\ deliveryState'[e] = "lost"
      /\ \A f \in Events \ {e} : deliveryState'[f] = deliveryState[f]
      /\ UNCHANGED <<attempts, effects>>
  BY DEF EmitFails, InductiveInvariant, TypeOK
<1>2. deliveryStatus[e] = "unpublished" /\ deliveryStatus'[e] = "unpublished"
  BY <1>1, StatusOf, StatusOfNext DEF EmitFails
<1>3. \A f \in Events \ {e} : deliveryStatus'[f] = deliveryStatus[f]
  BY <1>1 DEF deliveryStatus
<1> QED BY <1>1, <1>2, <1>3, StutterStep

\* Every step of the outbox is a step or a stutter of the promise.
LEMMA StepRefines ==
  ASSUME InductiveInvariant, [Next]_vars
  PROVE  [Delivery!Next]_(Delivery!deliveryVars)
<1>1. ASSUME NEW e \in Events, Produce(e)
      PROVE  Delivery!Publish(e) \/ UNCHANGED Delivery!deliveryVars
  <2>1. CASE Emit(e)
    BY <2>1, InsertRefines DEF Emit
  <2>2. CASE EmitInNewTransaction(e)
    BY <2>2, InsertRefines DEF EmitInNewTransaction
  <2>3. CASE AuditedHandlerCommits(e)
    BY <2>3, FrameRefines DEF AuditedHandlerCommits, rowVars
  <2>4. CASE EmitFails(e)
    BY <2>4, EmitFailsRefines
  <2> QED BY <1>1, <2>1, <2>2, <2>3, <2>4 DEF Produce
<1>2. ASSUME NEW d \in Drainers, NEW e \in Events, ProcessRow(d, e)
      PROVE  \/ Delivery!TakeEffect(e)
             \/ Delivery!Deliver(e)
             \/ Delivery!Bury(e)
             \/ UNCHANGED Delivery!deliveryVars
  BY <1>2, ConsumerRefines, DeliveredRefines, ThrewRefines, NoConsumerRefines
     DEF ProcessRow
<1>3. ASSUME NEW d \in Drainers, NEW e \in Events, MarkFails(d, e)
      PROVE  UNCHANGED Delivery!deliveryVars
  BY <1>3, FrameRefines DEF MarkFails, FinishTask, rowVars
<1>4. ASSUME NEW d \in Drainers,
             \/ Start(d) \/ Stop(d) \/ TickClaim(d)
             \/ ClaimFails(d) \/ TickEnds(d) \/ Crash(d)
      PROVE  UNCHANGED Delivery!deliveryVars
  BY <1>4, FrameRefines DEF Start, Stop, TickClaim, ClaimFails, TickEnds, Crash, rowVars
<1>5. ASSUME NEW d \in Drainers, ClaimCommit(d)
      PROVE  \E B \in SUBSET Events : Delivery!Try(B)
  <2>1. LockedBy(d) \in SUBSET Events
    BY DEF LockedBy
  <2> QED BY <1>5, <2>1, ClaimRefines
<1>6. CASE PurgeBatch
  BY <1>6, PurgeRefines DEF Delivery!Next
<1>7. CASE Elapse \/ UNCHANGED vars
  BY <1>7, FrameRefines DEF Elapse, vars, rowVars
<1> QED BY <1>1, <1>2, <1>3, <1>4, <1>5, <1>6, <1>7
        DEF Next, DrainerStep, Delivery!Next

\* The outbox implements the delivery promise, for any number of replicas,
\* any schedule of claims, retries and faults.
THEOREM Refinement == Spec => ImplementsDelivery
<1>1. Init => Delivery!Init
  BY DEF Init, Delivery!Init, deliveryStatus
<1>2. InductiveInvariant /\ [Next]_vars => [Delivery!Next]_(Delivery!deliveryVars)
  BY StepRefines
<1> QED BY <1>1, <1>2, InvariantHolds, PTL DEF Spec, ImplementsDelivery, Delivery!Spec
=============================================================================
