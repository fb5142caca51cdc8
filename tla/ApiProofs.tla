----------------------------- MODULE ApiProofs -----------------------------
(***************************************************************************)
(* Theorems on the idempotency layer and on the ERP operations whose       *)
(* endpoints it guards.                                                    *)
(*                                                                         *)
(* InterceptorInvariant is inductive, so a key takes effect at most once   *)
(* short of the listed faults, and a replay is always the original answer, *)
(* for any number of requests, tenants and keys.                           *)
(*                                                                         *)
(* ErpOpsInvariant is inductive, so a reconciliation run is reported once  *)
(* whatever its redeliveries, a repair stands for exactly one effect and a *)
(* rotated credential has no older one beside it, for any number of        *)
(* clients, workers, stores, runs and products.                            *)
(***************************************************************************)
EXTENDS Idempotency, ErpOps, SequenceTheorems, FiniteSetTheorems,
        WellFoundedInduction, TLAPS

-----------------------------------------------------------------------------
(* The idempotency layer.                                                    *)


\* The invariant holds before the first request.
LEMMA InitInvariant == InterceptorInit => InterceptorInvariant
BY RequestAssumption
   DEF InterceptorInit, InterceptorInvariant, InterceptorTypeOK, AtMostOnce, ReplayIsOriginal,
       ActiveOwnsMarker, RunningHasNoRecord, EffectIsRecorded,
       RecordsAreOfTheirKey, Active, Answers

\* A DEL of a marker leaves a marker or none.
LEMMA MarkerDelType ==
    ASSUME InterceptorTypeOK, NEW r \in Requests, MarkerDel(r)
    PROVE  marker' \in [Tuples -> Requests \cup {NoRequest}]
<1>1. PICK holder \in {NoRequest, marker[TupleOf[r]]} :
        marker' = [marker EXCEPT ![TupleOf[r]] = holder]
  BY DEF MarkerDel
<1> QED  BY <1>1, RequestAssumption DEF InterceptorTypeOK

\* What is stored for a request is a response or nothing.
LEMMA StoredType ==
    ASSUME InterceptorTypeOK, NEW r \in Requests
    PROVE  Stored(r) \in Requests \cup {NoRequest}
<1>1. TenantOf[r] \in Tenants /\ TupleOf[r] \in Tuples
  BY RequestAssumption
<1>2. record[TenantOf[r]] \in [Tuples -> Requests \cup {NoRequest}]
  BY <1>1 DEF InterceptorTypeOK
<1> QED  BY <1>1, <1>2 DEF Stored

\* MarkerSet keeps the invariant.
LEMMA MarkerSetKeeps ==
    ASSUME InterceptorInvariant, NEW r \in Requests, MarkerSet(r)
    PROVE  InterceptorInvariant'
<1> USE RequestAssumption DEF Active, Goto, Stored, SameKey
<1>1. InterceptorTypeOK'
  BY DEF MarkerSet, InterceptorInvariant, InterceptorTypeOK, Answers
<1>2. AtMostOnce'
  BY DEF MarkerSet, InterceptorInvariant, InterceptorTypeOK, AtMostOnce
<1>3. ReplayIsOriginal'
  BY DEF MarkerSet, InterceptorInvariant, InterceptorTypeOK, ReplayIsOriginal,
         RecordsAreOfTheirKey
<1>4. ActiveOwnsMarker'
  BY DEF MarkerSet, InterceptorInvariant, InterceptorTypeOK, ActiveOwnsMarker
<1>5. RunningHasNoRecord'
  BY DEF MarkerSet, InterceptorInvariant, InterceptorTypeOK, RunningHasNoRecord
<1>6. EffectIsRecorded'
  BY DEF MarkerSet, InterceptorInvariant, InterceptorTypeOK, EffectIsRecorded
<1>7. RecordsAreOfTheirKey'
  BY DEF MarkerSet, InterceptorInvariant, InterceptorTypeOK, RecordsAreOfTheirKey
<1> QED  BY <1>1, <1>2, <1>3, <1>4, <1>5, <1>6, <1>7 DEF InterceptorInvariant

\* InProgress keeps the invariant.
LEMMA InProgressKeeps ==
    ASSUME InterceptorInvariant, NEW r \in Requests, InProgress(r)
    PROVE  InterceptorInvariant'
<1> USE RequestAssumption DEF Active, Goto, Stored, SameKey
<1>1. InterceptorTypeOK'
  BY DEF InProgress, Answer, InterceptorInvariant, InterceptorTypeOK, Answers
<1>2. AtMostOnce'
  BY DEF InProgress, Answer, InterceptorInvariant, InterceptorTypeOK, AtMostOnce
<1>3. ReplayIsOriginal'
  BY DEF InProgress, Answer, InterceptorInvariant, InterceptorTypeOK, ReplayIsOriginal,
         RecordsAreOfTheirKey
<1>4. ActiveOwnsMarker'
  BY DEF InProgress, Answer, InterceptorInvariant, InterceptorTypeOK, ActiveOwnsMarker
<1>5. RunningHasNoRecord'
  BY DEF InProgress, Answer, InterceptorInvariant, InterceptorTypeOK, RunningHasNoRecord
<1>6. EffectIsRecorded'
  BY DEF InProgress, Answer, InterceptorInvariant, InterceptorTypeOK, EffectIsRecorded
<1>7. RecordsAreOfTheirKey'
  BY DEF InProgress, Answer, InterceptorInvariant, InterceptorTypeOK, RecordsAreOfTheirKey
<1> QED  BY <1>1, <1>2, <1>3, <1>4, <1>5, <1>6, <1>7 DEF InterceptorInvariant

\* MarkerSetFails keeps the invariant.
LEMMA MarkerSetFailsKeeps ==
    ASSUME InterceptorInvariant, NEW r \in Requests, MarkerSetFails(r)
    PROVE  InterceptorInvariant'
<1> USE RequestAssumption DEF Active, Goto, Stored, SameKey
<1>1. InterceptorTypeOK'
  <2>1. PICK holder \in {marker[TupleOf[r]], r} :
          marker' = [marker EXCEPT ![TupleOf[r]] = holder]
    BY DEF MarkerSetFails
  <2>2. marker' \in [Tuples -> Requests \cup {NoRequest}]
    BY <2>1 DEF InterceptorInvariant, InterceptorTypeOK
  <2> QED
    BY <2>2 DEF MarkerSetFails, Answer, Answers, InterceptorInvariant, InterceptorTypeOK
<1>2. AtMostOnce'
  BY DEF MarkerSetFails, Answer, InterceptorInvariant, InterceptorTypeOK, AtMostOnce
<1>3. ReplayIsOriginal'
  BY DEF MarkerSetFails, Answer, InterceptorInvariant, InterceptorTypeOK,
         ReplayIsOriginal, RecordsAreOfTheirKey
<1>4. ActiveOwnsMarker'
  BY DEF MarkerSetFails, Answer, InterceptorInvariant, InterceptorTypeOK, ActiveOwnsMarker
<1>5. RunningHasNoRecord'
  BY DEF MarkerSetFails, Answer, InterceptorInvariant, InterceptorTypeOK,
         RunningHasNoRecord
<1>6. EffectIsRecorded'
  BY DEF MarkerSetFails, Answer, InterceptorInvariant, InterceptorTypeOK, EffectIsRecorded
<1>7. RecordsAreOfTheirKey'
  BY DEF MarkerSetFails, Answer, InterceptorInvariant, InterceptorTypeOK,
         RecordsAreOfTheirKey
<1> QED  BY <1>1, <1>2, <1>3, <1>4, <1>5, <1>6, <1>7 DEF InterceptorInvariant

\* Miss keeps the invariant.
LEMMA MissKeeps ==
    ASSUME InterceptorInvariant, NEW r \in Requests, Miss(r)
    PROVE  InterceptorInvariant'
<1> USE RequestAssumption DEF Active, Goto, Stored, SameKey
<1>1. InterceptorTypeOK'
  BY DEF Miss, InterceptorInvariant, InterceptorTypeOK, Answers
<1>2. AtMostOnce'
  BY DEF Miss, InterceptorInvariant, InterceptorTypeOK, AtMostOnce
<1>3. ReplayIsOriginal'
  BY DEF Miss, InterceptorInvariant, InterceptorTypeOK, ReplayIsOriginal,
         RecordsAreOfTheirKey
<1>4. ActiveOwnsMarker'
  BY DEF Miss, InterceptorInvariant, InterceptorTypeOK, ActiveOwnsMarker
<1>5. RunningHasNoRecord'
  BY DEF Miss, InterceptorInvariant, InterceptorTypeOK, RunningHasNoRecord,
         RecordsAreOfTheirKey
<1>6. EffectIsRecorded'
  BY DEF Miss, InterceptorInvariant, InterceptorTypeOK, EffectIsRecorded
<1>7. RecordsAreOfTheirKey'
  BY DEF Miss, InterceptorInvariant, InterceptorTypeOK, RecordsAreOfTheirKey
<1> QED  BY <1>1, <1>2, <1>3, <1>4, <1>5, <1>6, <1>7 DEF InterceptorInvariant

\* Replay keeps the invariant.
LEMMA ReplayKeeps ==
    ASSUME InterceptorInvariant, NEW r \in Requests, Replay(r)
    PROVE  InterceptorInvariant'
<1> USE RequestAssumption DEF Active, Goto, Stored, SameKey
<1>1. InterceptorTypeOK'
  <2>1. marker' \in [Tuples -> Requests \cup {NoRequest}]
    BY MarkerDelType DEF Replay, InterceptorInvariant
  <2>2. answer' \in [Requests -> Answers]
    BY DEF Replay, Answer, Answers, InterceptorInvariant, InterceptorTypeOK
  <2>3. origin' \in [Requests -> Requests \cup {NoRequest}]
    BY StoredType DEF Replay, InterceptorInvariant, InterceptorTypeOK
  <2> QED
    BY <2>1, <2>2, <2>3 DEF Replay, InterceptorInvariant, InterceptorTypeOK
<1>2. AtMostOnce'
  BY DEF Replay, MarkerDel, SameFingerprint, Answer, InterceptorInvariant,
         InterceptorTypeOK, AtMostOnce
<1>3. ReplayIsOriginal'
  <2> SUFFICES ASSUME NEW q \in Requests, answer'[q] = "replay"
               PROVE  /\ origin'[q] \in executed'
                      /\ SameKey(origin'[q], q)
                      /\ BodyOf[origin'[q]] = BodyOf[q]
                      /\ answer'[origin'[q]] = "fresh"
    BY DEF ReplayIsOriginal
  <2>1. answer[r] = "none"
    BY DEF Replay, InterceptorInvariant, RecordsAreOfTheirKey
  <2>2. CASE q = r
    <3>1. Stored(r) \in executed /\ answer[Stored(r)] = "fresh" /\ SameKey(Stored(r), r)
      <4> DEFINE o == record[TenantOf[r]][TupleOf[r]]
      <4>1. TenantOf[r] \in Tenants /\ TupleOf[r] \in Tuples
        OBVIOUS
      <4>2. o # NoRequest
        BY DEF Replay
      <4>3. /\ o \in executed /\ answer[o] = "fresh"
            /\ TenantOf[o] = TenantOf[r] /\ TupleOf[o] = TupleOf[r]
        BY <4>1, <4>2 DEF InterceptorInvariant, RecordsAreOfTheirKey
      <4> QED  BY <4>3
    <3>2. Stored(r) \in Requests /\ Stored(r) # r
      BY <2>1, <3>1 DEF InterceptorInvariant, InterceptorTypeOK
    <3> QED
      BY <2>2, <3>1, <3>2 DEF Replay, Answer, SameFingerprint,
             InterceptorInvariant, InterceptorTypeOK
  <2>3. CASE q # r
    <3>1. answer[q] = "replay" /\ origin'[q] = origin[q]
      BY <2>3 DEF Replay, Answer, InterceptorInvariant, InterceptorTypeOK
    <3> QED
      BY <2>1, <2>3, <3>1
      DEF Replay, Answer, InterceptorInvariant, InterceptorTypeOK, ReplayIsOriginal
  <2> QED  BY <2>2, <2>3
<1>4. ActiveOwnsMarker'
  BY DEF Replay, MarkerDel, SameFingerprint, Answer, InterceptorInvariant,
         InterceptorTypeOK, ActiveOwnsMarker
<1>5. RunningHasNoRecord'
  BY DEF Replay, MarkerDel, SameFingerprint, Answer, InterceptorInvariant,
         InterceptorTypeOK, RunningHasNoRecord
<1>6. EffectIsRecorded'
  BY DEF Replay, MarkerDel, SameFingerprint, Answer, InterceptorInvariant,
         InterceptorTypeOK, EffectIsRecorded
<1>7. RecordsAreOfTheirKey'
  BY DEF Replay, MarkerDel, SameFingerprint, Answer, InterceptorInvariant,
         InterceptorTypeOK, RecordsAreOfTheirKey
<1> QED  BY <1>1, <1>2, <1>3, <1>4, <1>5, <1>6, <1>7 DEF InterceptorInvariant

\* Collision keeps the invariant.
LEMMA CollisionKeeps ==
    ASSUME InterceptorInvariant, NEW r \in Requests, Collision(r)
    PROVE  InterceptorInvariant'
<1> USE RequestAssumption DEF Active, Goto, Stored, SameKey
<1>1. InterceptorTypeOK'
  BY ZenonT(40) DEF Collision, MarkerDel, Answer, InterceptorInvariant, InterceptorTypeOK, Answers
<1>2. AtMostOnce'
  BY DEF Collision, MarkerDel, Answer, InterceptorInvariant, InterceptorTypeOK, AtMostOnce
<1>3. ReplayIsOriginal'
  BY DEF Collision, MarkerDel, Answer, InterceptorInvariant, InterceptorTypeOK,
         ReplayIsOriginal, RecordsAreOfTheirKey
<1>4. ActiveOwnsMarker'
  BY DEF Collision, MarkerDel, Answer, InterceptorInvariant, InterceptorTypeOK,
         ActiveOwnsMarker
<1>5. RunningHasNoRecord'
  BY DEF Collision, MarkerDel, Answer, InterceptorInvariant, InterceptorTypeOK,
         RunningHasNoRecord
<1>6. EffectIsRecorded'
  BY DEF Collision, MarkerDel, Answer, InterceptorInvariant, InterceptorTypeOK,
         EffectIsRecorded
<1>7. RecordsAreOfTheirKey'
  BY DEF Collision, MarkerDel, Answer, InterceptorInvariant, InterceptorTypeOK,
         RecordsAreOfTheirKey
<1> QED  BY <1>1, <1>2, <1>3, <1>4, <1>5, <1>6, <1>7 DEF InterceptorInvariant

\* LookupFails keeps the invariant.
LEMMA LookupFailsKeeps ==
    ASSUME InterceptorInvariant, NEW r \in Requests, LookupFails(r)
    PROVE  InterceptorInvariant'
<1> USE RequestAssumption DEF Active, Goto, Stored, SameKey
<1>1. InterceptorTypeOK'
  BY DEF LookupFails, MarkerDel, Answer, InterceptorInvariant, InterceptorTypeOK, Answers
<1>2. AtMostOnce'
  BY DEF LookupFails, MarkerDel, Answer, InterceptorInvariant, InterceptorTypeOK,
         AtMostOnce
<1>3. ReplayIsOriginal'
  BY DEF LookupFails, MarkerDel, Answer, InterceptorInvariant, InterceptorTypeOK,
         ReplayIsOriginal, RecordsAreOfTheirKey
<1>4. ActiveOwnsMarker'
  BY DEF LookupFails, MarkerDel, Answer, InterceptorInvariant, InterceptorTypeOK,
         ActiveOwnsMarker
<1>5. RunningHasNoRecord'
  BY DEF LookupFails, MarkerDel, Answer, InterceptorInvariant, InterceptorTypeOK,
         RunningHasNoRecord
<1>6. EffectIsRecorded'
  BY DEF LookupFails, MarkerDel, Answer, InterceptorInvariant, InterceptorTypeOK,
         EffectIsRecorded
<1>7. RecordsAreOfTheirKey'
  BY DEF LookupFails, MarkerDel, Answer, InterceptorInvariant, InterceptorTypeOK,
         RecordsAreOfTheirKey
<1> QED  BY <1>1, <1>2, <1>3, <1>4, <1>5, <1>6, <1>7 DEF InterceptorInvariant

\* HandlerActs keeps the invariant.
LEMMA HandlerActsKeeps ==
    ASSUME InterceptorInvariant, NEW r \in Requests, HandlerActs(r)
    PROVE  InterceptorInvariant'
<1> USE RequestAssumption DEF Active, Goto, Stored, SameKey
<1>1. InterceptorTypeOK'
  BY DEF HandlerActs, InterceptorInvariant, InterceptorTypeOK, Answers
<1>2. AtMostOnce'
  BY DEF HandlerActs, InterceptorInvariant, InterceptorTypeOK, AtMostOnce,
         EffectIsRecorded, RunningHasNoRecord, ActiveOwnsMarker
<1>3. ReplayIsOriginal'
  BY DEF HandlerActs, InterceptorInvariant, InterceptorTypeOK, ReplayIsOriginal,
         RecordsAreOfTheirKey
<1>4. ActiveOwnsMarker'
  BY DEF HandlerActs, InterceptorInvariant, InterceptorTypeOK, ActiveOwnsMarker
<1>5. RunningHasNoRecord'
  BY DEF HandlerActs, InterceptorInvariant, InterceptorTypeOK, RunningHasNoRecord
<1>6. EffectIsRecorded'
  BY DEF HandlerActs, InterceptorInvariant, InterceptorTypeOK, EffectIsRecorded
<1>7. RecordsAreOfTheirKey'
  BY DEF HandlerActs, InterceptorInvariant, InterceptorTypeOK, RecordsAreOfTheirKey
<1> QED  BY <1>1, <1>2, <1>3, <1>4, <1>5, <1>6, <1>7 DEF InterceptorInvariant

\* HandlerReturns keeps the invariant.
LEMMA HandlerReturnsKeeps ==
    ASSUME InterceptorInvariant, NEW r \in Requests, HandlerReturns(r)
    PROVE  InterceptorInvariant'
<1> USE RequestAssumption DEF Active, Goto, Stored, SameKey
<1>1. InterceptorTypeOK'
  BY DEF HandlerReturns, Answer, InterceptorInvariant, InterceptorTypeOK, Answers
<1>2. AtMostOnce'
  BY DEF HandlerReturns, Answer, InterceptorInvariant, InterceptorTypeOK, AtMostOnce
<1>3. ReplayIsOriginal'
  BY DEF HandlerReturns, Answer, InterceptorInvariant, InterceptorTypeOK,
         ReplayIsOriginal, RecordsAreOfTheirKey
<1>4. ActiveOwnsMarker'
  BY DEF HandlerReturns, Answer, InterceptorInvariant, InterceptorTypeOK, ActiveOwnsMarker
<1>5. RunningHasNoRecord'
  BY DEF HandlerReturns, Answer, InterceptorInvariant, InterceptorTypeOK,
         RunningHasNoRecord
<1>6. EffectIsRecorded'
  BY DEF HandlerReturns, Answer, InterceptorInvariant, InterceptorTypeOK, EffectIsRecorded
<1>7. RecordsAreOfTheirKey'
  BY DEF HandlerReturns, Answer, InterceptorInvariant, InterceptorTypeOK,
         RecordsAreOfTheirKey
<1> QED  BY <1>1, <1>2, <1>3, <1>4, <1>5, <1>6, <1>7 DEF InterceptorInvariant

\* HandlerThrows keeps the invariant.
LEMMA HandlerThrowsKeeps ==
    ASSUME InterceptorInvariant, NEW r \in Requests, HandlerThrows(r)
    PROVE  InterceptorInvariant'
<1> USE RequestAssumption DEF Active, Goto, Stored, SameKey
<1>1. InterceptorTypeOK'
  BY ZenonT(40) DEF HandlerThrows, MarkerDel, Degrade, Answer, InterceptorInvariant,
         InterceptorTypeOK, Answers
<1>2. AtMostOnce'
  BY DEF HandlerThrows, MarkerDel, Degrade, Answer, InterceptorInvariant,
         InterceptorTypeOK, AtMostOnce
<1>3. ReplayIsOriginal'
  BY DEF HandlerThrows, MarkerDel, Degrade, Answer, InterceptorInvariant,
         InterceptorTypeOK, ReplayIsOriginal, RecordsAreOfTheirKey
<1>4. ActiveOwnsMarker'
  BY DEF HandlerThrows, MarkerDel, Degrade, Answer, InterceptorInvariant,
         InterceptorTypeOK, ActiveOwnsMarker
<1>5. RunningHasNoRecord'
  BY DEF HandlerThrows, MarkerDel, Degrade, Answer, InterceptorInvariant,
         InterceptorTypeOK, RunningHasNoRecord
<1>6. EffectIsRecorded'
  BY DEF HandlerThrows, MarkerDel, Degrade, Answer, InterceptorInvariant,
         InterceptorTypeOK, EffectIsRecorded
<1>7. RecordsAreOfTheirKey'
  BY DEF HandlerThrows, MarkerDel, Degrade, Answer, InterceptorInvariant,
         InterceptorTypeOK, RecordsAreOfTheirKey
<1> QED  BY <1>1, <1>2, <1>3, <1>4, <1>5, <1>6, <1>7 DEF InterceptorInvariant

\* Save keeps the invariant.
LEMMA SaveKeeps ==
    ASSUME InterceptorInvariant, NEW r \in Requests, Save(r)
    PROVE  InterceptorInvariant'
<1> USE RequestAssumption DEF Active, Goto, Stored, SameKey
<1>1. InterceptorTypeOK'
  BY DEF Save, InterceptorInvariant, InterceptorTypeOK, Answers
<1>2. AtMostOnce'
  BY DEF Save, InterceptorInvariant, InterceptorTypeOK, AtMostOnce
<1>3. ReplayIsOriginal'
  BY DEF Save, InterceptorInvariant, InterceptorTypeOK, ReplayIsOriginal,
         RecordsAreOfTheirKey
<1>4. ActiveOwnsMarker'
  BY DEF Save, InterceptorInvariant, InterceptorTypeOK, ActiveOwnsMarker
<1>5. RunningHasNoRecord'
  BY DEF Save, InterceptorInvariant, InterceptorTypeOK, RunningHasNoRecord,
         ActiveOwnsMarker
<1>6. EffectIsRecorded'
  BY DEF Save, InterceptorInvariant, InterceptorTypeOK, EffectIsRecorded,
         RunningHasNoRecord, AtMostOnce
<1>7. RecordsAreOfTheirKey'
  BY DEF Save, InterceptorInvariant, InterceptorTypeOK, RecordsAreOfTheirKey
<1> QED  BY <1>1, <1>2, <1>3, <1>4, <1>5, <1>6, <1>7 DEF InterceptorInvariant

\* SaveFails keeps the invariant.
LEMMA SaveFailsKeeps ==
    ASSUME InterceptorInvariant, NEW r \in Requests, SaveFails(r)
    PROVE  InterceptorInvariant'
<1> USE RequestAssumption DEF Active, Goto, Stored, SameKey
<1>1. InterceptorTypeOK'
  BY DEF SaveFails, Degrade, InterceptorInvariant, InterceptorTypeOK, Answers
<1>2. AtMostOnce'
  BY DEF SaveFails, Degrade, InterceptorInvariant, InterceptorTypeOK, AtMostOnce
<1>3. ReplayIsOriginal'
  BY DEF SaveFails, Degrade, InterceptorInvariant, InterceptorTypeOK, ReplayIsOriginal,
         RecordsAreOfTheirKey
<1>4. ActiveOwnsMarker'
  BY DEF SaveFails, Degrade, InterceptorInvariant, InterceptorTypeOK, ActiveOwnsMarker
<1>5. RunningHasNoRecord'
  BY DEF SaveFails, Degrade, InterceptorInvariant, InterceptorTypeOK, RunningHasNoRecord
<1>6. EffectIsRecorded'
  BY DEF SaveFails, Degrade, InterceptorInvariant, InterceptorTypeOK, EffectIsRecorded
<1>7. RecordsAreOfTheirKey'
  BY DEF SaveFails, Degrade, InterceptorInvariant, InterceptorTypeOK, RecordsAreOfTheirKey
<1> QED  BY <1>1, <1>2, <1>3, <1>4, <1>5, <1>6, <1>7 DEF InterceptorInvariant

\* Finalize keeps the invariant.
LEMMA FinalizeKeeps ==
    ASSUME InterceptorInvariant, NEW r \in Requests, Finalize(r)
    PROVE  InterceptorInvariant'
<1> USE RequestAssumption DEF Active, Goto, Stored, SameKey
<1>1. InterceptorTypeOK'
  <2>1. marker' \in [Tuples -> Requests \cup {NoRequest}]
    BY MarkerDelType DEF Finalize, InterceptorInvariant
  <2>2. answer' \in [Requests -> Answers]
    BY DEF Finalize, Answer, Answers, InterceptorInvariant, InterceptorTypeOK
  <2>3. origin' \in [Requests -> Requests \cup {NoRequest}]
    BY DEF Finalize, InterceptorInvariant, InterceptorTypeOK
  <2> QED
    BY <2>1, <2>2, <2>3 DEF Finalize, InterceptorInvariant, InterceptorTypeOK
<1>2. AtMostOnce'
  BY DEF Finalize, MarkerDel, InterceptorInvariant, InterceptorTypeOK, AtMostOnce
<1>3. ReplayIsOriginal'
  BY DEF Finalize, MarkerDel, InterceptorInvariant, InterceptorTypeOK, ReplayIsOriginal,
         RecordsAreOfTheirKey
<1>4. ActiveOwnsMarker'
  BY DEF Finalize, MarkerDel, InterceptorInvariant, InterceptorTypeOK, ActiveOwnsMarker
<1>5. RunningHasNoRecord'
  BY DEF Finalize, MarkerDel, InterceptorInvariant, InterceptorTypeOK, RunningHasNoRecord
<1>6. EffectIsRecorded'
  BY DEF Finalize, MarkerDel, InterceptorInvariant, InterceptorTypeOK, EffectIsRecorded
<1>7. RecordsAreOfTheirKey'
  BY DEF Finalize, MarkerDel, InterceptorInvariant, InterceptorTypeOK,
         RecordsAreOfTheirKey
<1> QED  BY <1>1, <1>2, <1>3, <1>4, <1>5, <1>6, <1>7 DEF InterceptorInvariant

\* Crash keeps the invariant.
LEMMA CrashKeeps ==
    ASSUME InterceptorInvariant, NEW r \in Requests, Crash(r)
    PROVE  InterceptorInvariant'
<1> USE RequestAssumption DEF Active, Goto, Stored, SameKey
<1>1. InterceptorTypeOK'
  BY DEF Crash, Degrade, InterceptorInvariant, InterceptorTypeOK, Answers
<1>2. AtMostOnce'
  BY DEF Crash, Degrade, InterceptorInvariant, InterceptorTypeOK, AtMostOnce
<1>3. ReplayIsOriginal'
  BY DEF Crash, Degrade, InterceptorInvariant, InterceptorTypeOK, ReplayIsOriginal,
         RecordsAreOfTheirKey
<1>4. ActiveOwnsMarker'
  BY DEF Crash, Degrade, InterceptorInvariant, InterceptorTypeOK, ActiveOwnsMarker
<1>5. RunningHasNoRecord'
  BY DEF Crash, Degrade, InterceptorInvariant, InterceptorTypeOK, RunningHasNoRecord
<1>6. EffectIsRecorded'
  BY DEF Crash, Degrade, InterceptorInvariant, InterceptorTypeOK, EffectIsRecorded
<1>7. RecordsAreOfTheirKey'
  BY DEF Crash, Degrade, InterceptorInvariant, InterceptorTypeOK, RecordsAreOfTheirKey
<1> QED  BY <1>1, <1>2, <1>3, <1>4, <1>5, <1>6, <1>7 DEF InterceptorInvariant

\* MarkerExpires keeps the invariant.
LEMMA MarkerExpiresKeeps ==
    ASSUME InterceptorInvariant, NEW k \in Tuples, MarkerExpires(k)
    PROVE  InterceptorInvariant'
<1> USE RequestAssumption DEF Active, Stored, SameKey
<1>1. InterceptorTypeOK'
  BY DEF MarkerExpires, Degrade, InterceptorInvariant, InterceptorTypeOK, Answers,
         RecordsAreOfTheirKey
<1>2. AtMostOnce'
  BY DEF MarkerExpires, Degrade, InterceptorInvariant, InterceptorTypeOK, AtMostOnce,
         RecordsAreOfTheirKey
<1>3. ReplayIsOriginal'
  BY DEF MarkerExpires, Degrade, InterceptorInvariant, InterceptorTypeOK,
         ReplayIsOriginal, RecordsAreOfTheirKey
<1>4. ActiveOwnsMarker'
  BY DEF MarkerExpires, Degrade, InterceptorInvariant, InterceptorTypeOK,
         ActiveOwnsMarker, RecordsAreOfTheirKey
<1>5. RunningHasNoRecord'
  BY DEF MarkerExpires, Degrade, InterceptorInvariant, InterceptorTypeOK,
         RunningHasNoRecord, RecordsAreOfTheirKey
<1>6. EffectIsRecorded'
  BY DEF MarkerExpires, Degrade, InterceptorInvariant, InterceptorTypeOK,
         EffectIsRecorded, RecordsAreOfTheirKey
<1>7. RecordsAreOfTheirKey'
  BY DEF MarkerExpires, Degrade, InterceptorInvariant, InterceptorTypeOK,
         RecordsAreOfTheirKey
<1> QED  BY <1>1, <1>2, <1>3, <1>4, <1>5, <1>6, <1>7 DEF InterceptorInvariant

\* RecordExpires keeps the invariant.
LEMMA RecordExpiresKeeps ==
    ASSUME InterceptorInvariant, NEW t \in Tenants, NEW k \in Tuples, RecordExpires(t, k)
    PROVE  InterceptorInvariant'
<1> USE RequestAssumption DEF Active, Stored, SameKey
<1>1. InterceptorTypeOK'
  BY DEF RecordExpires, InterceptorInvariant, InterceptorTypeOK, Answers
<1>2. AtMostOnce'
  BY DEF RecordExpires, InterceptorInvariant, InterceptorTypeOK, AtMostOnce
<1>3. ReplayIsOriginal'
  BY DEF RecordExpires, InterceptorInvariant, InterceptorTypeOK, ReplayIsOriginal,
         RecordsAreOfTheirKey
<1>4. ActiveOwnsMarker'
  BY DEF RecordExpires, InterceptorInvariant, InterceptorTypeOK, ActiveOwnsMarker
<1>5. RunningHasNoRecord'
  BY DEF RecordExpires, InterceptorInvariant, InterceptorTypeOK, RunningHasNoRecord
<1>6. EffectIsRecorded'
  BY DEF RecordExpires, InterceptorInvariant, InterceptorTypeOK, EffectIsRecorded
<1>7. RecordsAreOfTheirKey'
  BY DEF RecordExpires, InterceptorInvariant, InterceptorTypeOK, RecordsAreOfTheirKey
<1> QED  BY <1>1, <1>2, <1>3, <1>4, <1>5, <1>6, <1>7 DEF InterceptorInvariant

\* A step that changes nothing keeps it.
LEMMA StutterKeeps ==
    ASSUME InterceptorInvariant, UNCHANGED interceptorVars
    PROVE  InterceptorInvariant'
BY DEF interceptorVars, InterceptorInvariant, InterceptorTypeOK, AtMostOnce, ReplayIsOriginal,
       ActiveOwnsMarker, RunningHasNoRecord, EffectIsRecorded,
       RecordsAreOfTheirKey, Stored, SameKey

\* The interceptor's invariant holds in every state: while a tuple has met no
\* fault, the request past the marker owns it and every effect is on record.
THEOREM InterceptorInvariantHolds == InterceptorSpec => []InterceptorInvariant
<1>1. InterceptorInit => InterceptorInvariant
  BY InitInvariant
<1>2. InterceptorInvariant /\ [InterceptorNext]_interceptorVars => InterceptorInvariant'
  <2> SUFFICES ASSUME InterceptorInvariant, [InterceptorNext]_interceptorVars
               PROVE  InterceptorInvariant'
    OBVIOUS
  <2>1. ASSUME NEW r \in Requests, MarkerSet(r) PROVE InterceptorInvariant'
    BY <2>1, MarkerSetKeeps
  <2>2. ASSUME NEW r \in Requests, InProgress(r) PROVE InterceptorInvariant'
    BY <2>2, InProgressKeeps
  <2>3. ASSUME NEW r \in Requests, MarkerSetFails(r) PROVE InterceptorInvariant'
    BY <2>3, MarkerSetFailsKeeps
  <2>4. ASSUME NEW r \in Requests, Miss(r) PROVE InterceptorInvariant'
    BY <2>4, MissKeeps
  <2>5. ASSUME NEW r \in Requests, Replay(r) PROVE InterceptorInvariant'
    BY <2>5, ReplayKeeps
  <2>6. ASSUME NEW r \in Requests, Collision(r) PROVE InterceptorInvariant'
    BY <2>6, CollisionKeeps
  <2>7. ASSUME NEW r \in Requests, LookupFails(r) PROVE InterceptorInvariant'
    BY <2>7, LookupFailsKeeps
  <2>8. ASSUME NEW r \in Requests, HandlerActs(r) PROVE InterceptorInvariant'
    BY <2>8, HandlerActsKeeps
  <2>9. ASSUME NEW r \in Requests, HandlerReturns(r) PROVE InterceptorInvariant'
    BY <2>9, HandlerReturnsKeeps
  <2>10. ASSUME NEW r \in Requests, HandlerThrows(r) PROVE InterceptorInvariant'
    BY <2>10, HandlerThrowsKeeps
  <2>11. ASSUME NEW r \in Requests, Save(r) PROVE InterceptorInvariant'
    BY <2>11, SaveKeeps
  <2>12. ASSUME NEW r \in Requests, SaveFails(r) PROVE InterceptorInvariant'
    BY <2>12, SaveFailsKeeps
  <2>13. ASSUME NEW r \in Requests, Finalize(r) PROVE InterceptorInvariant'
    BY <2>13, FinalizeKeeps
  <2>14. ASSUME NEW r \in Requests, Crash(r) PROVE InterceptorInvariant'
    BY <2>14, CrashKeeps
  <2>15. ASSUME NEW k \in Tuples, MarkerExpires(k) PROVE InterceptorInvariant'
    BY <2>15, MarkerExpiresKeeps
  <2>16. ASSUME NEW t \in Tenants, NEW k \in Tuples, RecordExpires(t, k)
         PROVE  InterceptorInvariant'
    BY <2>16, RecordExpiresKeeps
  <2>17. CASE UNCHANGED interceptorVars
    BY <2>17, StutterKeeps
  <2> QED
    BY <2>1, <2>2, <2>3, <2>4, <2>5, <2>6, <2>7, <2>8, <2>9, <2>10, <2>11,
       <2>12, <2>13, <2>14, <2>15, <2>16, <2>17 DEF InterceptorNext, Intercept
<1> QED  BY <1>1, <1>2, PTL DEF InterceptorSpec

\* However requests with one key overlap, retry and fail, the handler takes
\* effect for at most one of them until one of the listed faults.
THEOREM ExecutedAtMostOnce == InterceptorSpec => []AtMostOnce
<1>1. InterceptorInvariant => AtMostOnce
  BY DEF InterceptorInvariant
<1> QED  BY <1>1, InterceptorInvariantHolds, PTL

\* A replayed response is the one the tenant got for that key and body.
THEOREM ReplaysAreOriginal == InterceptorSpec => []ReplayIsOriginal
<1>1. InterceptorInvariant => ReplayIsOriginal
  BY DEF InterceptorInvariant
<1> QED  BY <1>1, InterceptorInvariantHolds, PTL

-----------------------------------------------------------------------------
(* The ERP operations.                                                       *)

\* A set of naturals that is not empty has a least element.
LEMMA LeastNatural ==
    ASSUME NEW T, T \subseteq Nat, T # {}
    PROVE  \E x \in T : \A y \in T : x <= y
  <1> DEFINE R == OpToRel(<, Nat)
  <1>1. \E x \in T : \A y \in T : <<y, x>> \notin R
    BY NatLessThanWellFounded, WFMin, Zenon
  <1>2. \A x, y \in Nat : <<y, x>> \notin R => x <= y
    BY DEF OpToRel
  <1> QED  BY <1>1, <1>2


-----------------------------------------------------------------------------
(* Which step writes which table.                                            *)

\* The item map is written by the catalogue's own endpoints and by repairs.
LEMMA ItemsWriters ==
    ASSUME [Next]_vars
    PROVE  \/ items' = items
           \/ \E p \in Products, n \in Refs : Suggest(p, n)
           \/ \E i \in DOMAIN items, v \in 1 .. 2 : Confirm(i, v) \/ Retire(i, v)
           \/ \E c \in Clients : RepairConfirms(c) \/ RepairSuggests(c)
  <1>1. ASSUME NEW c \in Clients, Operate(c) \/ RequestDies(c)  PROVE items' = items
    BY <1>1 DEF Operate, RequestDies, TriggerRun, TriggerProductRun, RepairBacklogItem,
                RepairResult, RepairStock, CheckInstance, maps
  <1>2. ASSUME NEW c \in Clients, Serve(c)
        PROVE  items' = items \/ RepairConfirms(c) \/ RepairSuggests(c)
    BY <1>2 DEF Serve, CommitTrigger, RepairFindsNothing, RepairConflicts, RepairEchoes,
                CloseStock, RevokeSeen, IssueCredential, maps
  <1>3. ASSUME NEW w \in Workers, Process(w) \/ ConsumerThrows(w) \/ WorkerDies(w)  PROVE items' = items
    BY <1>3 DEF Process, ConsumerThrows, WorkerDies, ClaimEvent, TakeRun, MarkDelivered, UnmappedStore, ReadOnHand, CompareStock,
                ReadConfirmed, CompareProducts, Complete, maps
  <1>4. ASSUME Connect  PROVE items' = items
    BY <1>4 DEF Connect, PullRequests, ReportSnapshot, Heartbeat, maps
  <1>5. ASSUME Maintain
        PROVE  \/ items' = items
               \/ \E p \in Products, n \in Refs : Suggest(p, n)
               \/ \E i \in DOMAIN items, v \in 1 .. 2 : Confirm(i, v) \/ Retire(i, v)
    BY <1>5 DEF Maintain, SetWarehouse, RetireWarehouse, Disable, HeartbeatLapses,
                RevokeCredential, ExpireCredential, maps
  <1>6. ASSUME UNCHANGED vars  PROVE items' = items
    BY <1>6 DEF vars
  <1> QED  BY <1>1, <1>2, <1>3, <1>4, <1>5, <1>6 DEF Next

\* The warehouse map is written by its own endpoints.
LEMMA WarehousesWriters ==
    ASSUME [Next]_vars
    PROVE  \/ warehouses' = warehouses
           \/ \E s \in Stores : SetWarehouse(s)
           \/ \E i \in DOMAIN warehouses : RetireWarehouse(i)
  <1>1. ASSUME NEW c \in Clients, Operate(c) \/ RequestDies(c)
        PROVE  warehouses' = warehouses
    BY <1>1 DEF Operate, RequestDies, TriggerRun, TriggerProductRun, RepairBacklogItem,
                RepairResult, RepairStock, CheckInstance, maps
  <1>2. ASSUME NEW c \in Clients, Serve(c)  PROVE warehouses' = warehouses
    BY <1>2 DEF Serve, CommitTrigger, RepairFindsNothing, RepairConflicts, RepairEchoes,
                RepairConfirms, RepairSuggests, Recorded, CloseStock, RevokeSeen,
                IssueCredential, maps
  <1>3. ASSUME NEW w \in Workers, Process(w) \/ ConsumerThrows(w) \/ WorkerDies(w)
        PROVE  warehouses' = warehouses
    BY <1>3 DEF Process, ConsumerThrows, WorkerDies, ClaimEvent, TakeRun, MarkDelivered, UnmappedStore, ReadOnHand, CompareStock,
                ReadConfirmed, CompareProducts, Complete, maps
  <1>4. ASSUME Connect  PROVE warehouses' = warehouses
    BY <1>4 DEF Connect, PullRequests, ReportSnapshot, Heartbeat, maps
  <1>5. ASSUME Maintain
        PROVE  \/ warehouses' = warehouses
               \/ \E s \in Stores : SetWarehouse(s)
               \/ \E i \in DOMAIN warehouses : RetireWarehouse(i)
    BY <1>5 DEF Maintain, Suggest, Confirm, Retire, Disable, HeartbeatLapses,
                RevokeCredential, ExpireCredential, maps
  <1>6. ASSUME UNCHANGED vars  PROVE warehouses' = warehouses
    BY <1>6 DEF vars
  <1> QED  BY <1>1, <1>2, <1>3, <1>4, <1>5, <1>6 DEF Next

\* Credentials are written where they are issued, revoked or found expired.
LEMMA CredentialWriters ==
    ASSUME [Next]_vars
    PROVE  \/ UNCHANGED <<creds, rotated>>
           \/ \E c \in Clients : IssueCredential(c)
           \/ \E i \in DOMAIN creds : RevokeCredential(i) \/ ExpireCredential(i)
  <1>1. ASSUME NEW c \in Clients, Operate(c) \/ RequestDies(c)
        PROVE  UNCHANGED <<creds, rotated>>
    BY <1>1 DEF Operate, RequestDies, TriggerRun, TriggerProductRun, RepairBacklogItem,
                RepairResult, RepairStock, CheckInstance, connector
  <1>2. ASSUME NEW c \in Clients, Serve(c)
        PROVE  UNCHANGED <<creds, rotated>> \/ IssueCredential(c)
    BY <1>2 DEF Serve, CommitTrigger, RepairFindsNothing, RepairConflicts, RepairEchoes,
                RepairConfirms, RepairSuggests, Recorded, CloseStock, RevokeSeen, connector
  <1>3. ASSUME NEW w \in Workers, Process(w) \/ ConsumerThrows(w) \/ WorkerDies(w)
        PROVE  UNCHANGED <<creds, rotated>>
    BY <1>3 DEF Process, ConsumerThrows, WorkerDies, ClaimEvent, TakeRun, MarkDelivered, UnmappedStore, ReadOnHand, CompareStock,
                ReadConfirmed, CompareProducts, Complete, connector
  <1>4. ASSUME Connect  PROVE UNCHANGED <<creds, rotated>>
    BY <1>4 DEF Connect, PullRequests, ReportSnapshot, Heartbeat, connector
  <1>5. ASSUME Maintain
        PROVE  \/ UNCHANGED <<creds, rotated>>
               \/ \E i \in DOMAIN creds : RevokeCredential(i) \/ ExpireCredential(i)
    BY <1>5 DEF Maintain, Suggest, Confirm, Retire, SetWarehouse, RetireWarehouse, Disable,
                HeartbeatLapses, connector
  <1>6. ASSUME UNCHANGED vars  PROVE UNCHANGED <<creds, rotated>>
    BY <1>6 DEF vars
  <1> QED  BY <1>1, <1>2, <1>3, <1>4, <1>5, <1>6 DEF Next

-----------------------------------------------------------------------------
(* Credentials.                                                              *)

\* A new credential is inserted only if no older one stays unrevoked.
LEMMA IssueCredentialKeeps ==
    ASSUME OlderRevoked, NEW c \in Clients, IssueCredential(c)
    PROVE  OlderRevoked'
  <1>1. creds \in Seq(CredentialRow) /\ rotated \in 0 .. Len(creds)
    BY DEF OlderRevoked
  <1>2. CASE UNCHANGED <<creds, rotated>>
    BY <1>2 DEF OlderRevoked
  <1>3. CASE \E revoking : /\ ~CredentialClash(revoking)
                           /\ creds' = Issued(revoking)
                           /\ rotated' = Len(creds) + 1 \/ rotated' = rotated
    <2>1. PICK revoking : /\ ~CredentialClash(revoking)
                          /\ creds' = Issued(revoking)
                          /\ rotated' = Len(creds) + 1 \/ rotated' = rotated
      BY <1>3
    <2> DEFINE old == [i \in DOMAIN creds |-> [creds[i] EXCEPT !.revoked = @ \/ i \in revoking]]
               new == [revoked |-> FALSE, expired |-> FALSE]
    <2>2. DOMAIN creds = 1 .. Len(creds) /\ Len(creds) \in Nat
      BY <1>1, LenProperties
    <2>3. \A i \in DOMAIN creds : creds[i] \in CredentialRow
      BY <1>1, ElementOfSeq, <2>2
    <2>4. \A i \in DOMAIN creds : old[i] \in CredentialRow /\ old[i].revoked
      <3> SUFFICES ASSUME NEW i \in DOMAIN creds
                   PROVE  old[i] \in CredentialRow /\ old[i].revoked
        OBVIOUS
      <3>1. creds[i].revoked \/ i \in revoking
        BY <2>1 DEF CredentialClash, Unrevoked
      <3>2. old[i] = [creds[i] EXCEPT !.revoked = TRUE]
        BY <3>1, <2>3 DEF CredentialRow
      <3> QED  BY <3>2, <2>3 DEF CredentialRow
    <2>5. old \in Seq(CredentialRow) /\ Len(old) = Len(creds)
      <3>1. old \in [1 .. Len(creds) -> CredentialRow]
        BY <2>2, <2>4
      <3> HIDE DEF old
      <3> QED  BY <3>1, <2>2, SeqDef, LenProperties
    <2>6. new \in CredentialRow
      BY DEF CredentialRow
    <2>7. creds' = Append(old, new)
      BY <2>1 DEF Issued
    <2> HIDE DEF old, new
    <2>8. /\ creds' \in Seq(CredentialRow)
          /\ Len(creds') = Len(creds) + 1
          /\ \A i \in 1 .. Len(creds) : creds'[i] = old[i]
      BY <2>5, <2>6, <2>7, AppendProperties
    <2>9. DOMAIN creds' = 1 .. Len(creds) + 1
      BY <2>8, LenProperties
    <2>10. rotated' \in 0 .. Len(creds')
      BY <2>1, <2>8, <2>2, <1>1
    <2>11. \A i \in DOMAIN creds' : i < rotated' => creds'[i].revoked
      <3> SUFFICES ASSUME NEW i \in DOMAIN creds', i < rotated'
                   PROVE  creds'[i].revoked
        OBVIOUS
      <3>1. i \in 1 .. Len(creds)
        BY <2>9, <2>10, <2>8, <2>2
      <3> QED  BY <3>1, <2>8, <2>4, <2>2
    <2> QED  BY <2>8, <2>10, <2>11 DEF OlderRevoked
  <1> QED  BY <1>2, <1>3 DEF IssueCredential

\* A credential that was revoked stays revoked, whatever else is written to it.
LEMMA RevokeCredentialKeeps ==
    ASSUME OlderRevoked, NEW i \in DOMAIN creds, RevokeCredential(i) \/ ExpireCredential(i)
    PROVE  OlderRevoked'
  <1>1. creds \in Seq(CredentialRow) /\ rotated \in 0 .. Len(creds) /\ rotated' = rotated
    BY DEF OlderRevoked, RevokeCredential, ExpireCredential
  <1>2. DOMAIN creds = 1 .. Len(creds) /\ Len(creds) \in Nat
    BY <1>1, LenProperties
  <1>3. creds[i] \in CredentialRow
    BY <1>1, <1>2, ElementOfSeq
  <1>4. PICK row \in CredentialRow : creds' = [creds EXCEPT ![i] = row]
                                     /\ (creds[i].revoked => row.revoked)
    <2>1. [creds[i] EXCEPT !.revoked = TRUE] \in CredentialRow
      BY <1>3 DEF CredentialRow
    <2>2. [creds[i] EXCEPT !.expired = TRUE] \in CredentialRow
      BY <1>3 DEF CredentialRow
    <2>3. [creds[i] EXCEPT !.revoked = TRUE].revoked
      BY <1>3 DEF CredentialRow
    <2>4. [creds[i] EXCEPT !.expired = TRUE].revoked = creds[i].revoked
      BY <1>3 DEF CredentialRow
    <2>5. CASE RevokeCredential(i)
      BY <2>5, <2>1, <2>3 DEF RevokeCredential
    <2>6. CASE ExpireCredential(i)
      BY <2>6, <2>2, <2>4 DEF ExpireCredential
    <2> QED  BY <2>5, <2>6
  <1>5. creds' \in Seq(CredentialRow) /\ Len(creds') = Len(creds)
    BY <1>1, <1>2, <1>4, ExceptSeq
  <1>6. DOMAIN creds' = DOMAIN creds
    BY <1>2, <1>5, LenProperties
  <1>7. \A j \in DOMAIN creds' : j < rotated' => creds'[j].revoked
    BY <1>1, <1>4, <1>6 DEF OlderRevoked
  <1> QED  BY <1>1, <1>5, <1>7 DEF OlderRevoked

\* Every step keeps what is older than the newest rotation revoked.
LEMMA OlderRevokedKeeps ==
    ASSUME OlderRevoked, [Next]_vars
    PROVE  OlderRevoked'
  <1>1. CASE UNCHANGED <<creds, rotated>>
    BY <1>1 DEF OlderRevoked
  <1> QED  BY <1>1, CredentialWriters, IssueCredentialKeeps, RevokeCredentialKeeps

-----------------------------------------------------------------------------
(* Warehouse maps.                                                           *)

\* Warehouse maps are added and retired, nothing else.
LEMMA WarehousesTypedKeeps ==
    ASSUME WarehousesTyped, [Next]_vars
    PROVE  WarehousesTyped'
  <1>1. CASE warehouses' = warehouses
    BY <1>1 DEF WarehousesTyped
  <1>2. ASSUME NEW s \in Stores, SetWarehouse(s)  PROVE WarehousesTyped'
    <2>1. [store |-> s, retired |-> FALSE] \in WarehouseMapRow
      BY DEF WarehouseMapRow
    <2> QED  BY <1>2, <2>1, AppendProperties DEF WarehousesTyped, SetWarehouse
  <1>3. ASSUME NEW i \in DOMAIN warehouses, RetireWarehouse(i)  PROVE WarehousesTyped'
    <2>1. DOMAIN warehouses = 1 .. Len(warehouses)
      BY LenProperties DEF WarehousesTyped
    <2>2. warehouses[i] \in WarehouseMapRow
      BY <2>1, ElementOfSeq DEF WarehousesTyped
    <2>3. [warehouses[i] EXCEPT !.retired = TRUE] \in WarehouseMapRow
      BY <2>2 DEF WarehouseMapRow
    <2>4. warehouses' = [warehouses EXCEPT ![i] = [warehouses[i] EXCEPT !.retired = TRUE]]
      BY <1>3 DEF RetireWarehouse
    <2> QED  BY <2>1, <2>3, <2>4, ExceptSeq DEF WarehousesTyped
  <1> QED  BY <1>1, <1>2, <1>3, WarehousesWriters

-----------------------------------------------------------------------------
(* Item maps.                                                                *)

\* The mappings a step leaves: none is dropped and none loses its confirmation.
ItemsStand ==
    /\ DOMAIN items \subseteq DOMAIN items'
    /\ \A i \in DOMAIN items :
        items[i].state = "confirmed" => items'[i].state = "confirmed"

\* There are no more confirmations than mappings.
LEMMA ConfirmationsBound ==
    ASSUME items \in Seq(ItemMapRow)
    PROVE  Confirmations \in Nat /\ Confirmations <= Len(items)
  <1>1. DOMAIN items = 1 .. Len(items) /\ Len(items) \in Nat
    BY LenProperties
  <1>2. IsFiniteSet(1 .. Len(items)) /\ Cardinality(1 .. Len(items)) = Len(items)
    BY <1>1, FS_Interval
  <1> DEFINE of == {i \in DOMAIN items : items[i].state = "confirmed"}
  <1>3. of \in SUBSET (1 .. Len(items))
    BY <1>1
  <1> HIDE DEF of
  <1>4. IsFiniteSet(of) /\ Cardinality(of) <= Cardinality(1 .. Len(items))
    BY <1>2, <1>3, FS_Subset
  <1>5. Cardinality(of) \in Nat
    BY <1>4, FS_CardinalityType
  <1> QED  BY <1>2, <1>4, <1>5 DEF Confirmations, of

\* What the confirming UPDATE makes of a suggestion.
LEMMA ConfirmedRow ==
    ASSUME items \in Seq(ItemMapRow),
           NEW row \in ItemMapRow, row.state = "suggested", row.confirms = 0
    PROVE  /\ Confirmed(row) \in ItemMapRow
           /\ Confirmed(row).state = "confirmed"
           /\ Confirmed(row).confirms = 1
           /\ Confirmed(row).confirmed <= Len(items) + 1
  <1>1. Confirmations \in Nat /\ Confirmations <= Len(items) /\ Len(items) \in Nat
    BY ConfirmationsBound, LenProperties
  <1>2. PICK n \in Nat : n = Confirmations + 1
    BY <1>1
  <1>3. PICK v \in Nat : v = row.version + 1
    BY DEF ItemMapRow
  <1>4. Confirmed(row) = [row EXCEPT !.state = "confirmed", !.version = v, !.confirms = 1,
                                     !.confirmed = n]
    BY <1>2, <1>3 DEF Confirmed, ItemMapRow
  <1>5. /\ Confirmed(row) \in ItemMapRow
        /\ Confirmed(row).state = "confirmed"
        /\ Confirmed(row).confirms = 1
        /\ Confirmed(row).confirmed = n
    <2> DEFINE one == [row EXCEPT !.state = "confirmed", !.version = v]
               new == [one EXCEPT !.confirms = 1, !.confirmed = n]
    <2>1. one \in ItemMapRow /\ one.state = "confirmed"
      BY DEF ItemMapRow
    <2>2. Confirmed(row) = new
      BY <1>4
    <2> HIDE DEF one
    <2>3. new \in ItemMapRow /\ new.state = "confirmed" /\ new.confirms = 1 /\ new.confirmed = n
      BY <2>1 DEF ItemMapRow
    <2> HIDE DEF new
    <2> QED  BY <2>2, <2>3
  <1> QED  BY <1>1, <1>2, <1>5

\* A mapping is rewritten.
LEMMA ItemRewritten ==
    ASSUME ItemsConfirmedOnce, NEW i \in DOMAIN items, NEW row \in ItemMapRow,
           items' = [items EXCEPT ![i] = row],
           row.confirmed <= Len(items) + 1,
           row.confirms = IF row.state = "confirmed" THEN 1 ELSE 0,
           items[i].state = "confirmed" => row.state = "confirmed"
    PROVE  ItemsConfirmedOnce' /\ ItemsStand
  <1>1. items \in Seq(ItemMapRow)
    BY DEF ItemsConfirmedOnce
  <1>2. DOMAIN items = 1 .. Len(items) /\ Len(items) \in Nat
    BY <1>1, LenProperties
  <1>3. items' \in Seq(ItemMapRow) /\ Len(items') = Len(items)
    BY <1>1, <1>2, ExceptSeq
  <1>4. DOMAIN items' = DOMAIN items
    OBVIOUS
  <1>5. \A j \in DOMAIN items' :
            /\ items'[j].confirmed <= Len(items') + 1
            /\ items'[j].confirms = IF items'[j].state = "confirmed" THEN 1 ELSE 0
    BY <1>3, <1>4 DEF ItemsConfirmedOnce
  <1> QED  BY <1>3, <1>4, <1>5 DEF ItemsConfirmedOnce, ItemsStand

\* A mapping is added.
LEMMA ItemAdded ==
    ASSUME ItemsConfirmedOnce, NEW row \in ItemMapRow,
           items' = Append(items, row),
           row.confirmed <= Len(items) + 1,
           row.confirms = IF row.state = "confirmed" THEN 1 ELSE 0
    PROVE  /\ ItemsConfirmedOnce' /\ ItemsStand
           /\ Len(items) + 1 \in DOMAIN items' /\ items'[Len(items) + 1] = row
  <1>1. items \in Seq(ItemMapRow)
    BY DEF ItemsConfirmedOnce
  <1>2. DOMAIN items = 1 .. Len(items) /\ Len(items) \in Nat
    BY <1>1, LenProperties
  <1>3. /\ items' \in Seq(ItemMapRow)
        /\ Len(items') = Len(items) + 1
        /\ \A j \in 1 .. Len(items) : items'[j] = items[j]
        /\ items'[Len(items) + 1] = row
    BY <1>1, AppendProperties
  <1>4. DOMAIN items' = 1 .. Len(items) + 1
    BY <1>3, LenProperties
  <1>5. \A j \in DOMAIN items' :
            /\ items'[j].confirmed <= Len(items') + 1
            /\ items'[j].confirms = IF items'[j].state = "confirmed" THEN 1 ELSE 0
    <2> SUFFICES ASSUME NEW j \in DOMAIN items'
                 PROVE  /\ items'[j].confirmed <= Len(items') + 1
                        /\ items'[j].confirms = IF items'[j].state = "confirmed" THEN 1 ELSE 0
      OBVIOUS
    <2>1. row.confirmed \in Nat
      BY DEF ItemMapRow
    <2>2. CASE j = Len(items) + 1
      BY <2>1, <2>2, <1>2, <1>3
    <2>3. CASE j \in DOMAIN items
      <3>1. items[j] \in ItemMapRow
        BY <2>3, <1>1, <1>2, ElementOfSeq
      <3>2. items[j].confirmed \in Nat /\ items[j].confirmed <= Len(items) + 1
        BY <2>3, <3>1 DEF ItemsConfirmedOnce, ItemMapRow
      <3>3. items'[j] = items[j]
        BY <2>3, <1>2, <1>3
      <3>4. items[j].confirms = IF items[j].state = "confirmed" THEN 1 ELSE 0
        BY <2>3 DEF ItemsConfirmedOnce
      <3> QED  BY <3>2, <3>3, <3>4, <1>2, <1>3
    <2> QED  BY <2>2, <2>3, <1>2, <1>4
  <1> QED  BY <1>2, <1>3, <1>4, <1>5 DEF ItemsConfirmedOnce, ItemsStand

\* What a suggestion is.
LEMMA SuggestionRow ==
    ASSUME NEW p \in Products, NEW n \in Refs
    PROVE  /\ Suggestion(p, n) \in ItemMapRow
           /\ Suggestion(p, n).state = "suggested"
           /\ Suggestion(p, n).confirms = 0
           /\ Suggestion(p, n).confirmed = 0
  BY DEF Suggestion, ItemMapRow

\* The rewriting of confirmOnClient, for the endpoint and for a repair.
LEMMA ConfirmKeeps ==
    ASSUME ItemsConfirmedOnce, NEW i \in DOMAIN items, NEW v, Confirmable(i, v),
           items' = [items EXCEPT ![i] = Confirmed(@)]
    PROVE  ItemsConfirmedOnce' /\ ItemsStand /\ items'[i].state = "confirmed"
  <1>1. items \in Seq(ItemMapRow)
    BY DEF ItemsConfirmedOnce
  <1>2. items[i] \in ItemMapRow
    BY <1>1, ElementOfSeq, LenProperties
  <1>3. items[i].state = "suggested" /\ items[i].confirms = 0
    BY DEF Confirmable, ItemsConfirmedOnce
  <1>4. PICK row \in ItemMapRow :
            /\ row = Confirmed(items[i])
            /\ row.state = "confirmed" /\ row.confirms = 1
            /\ row.confirmed <= Len(items) + 1
    BY <1>1, <1>2, <1>3, ConfirmedRow
  <1>5. items' = [items EXCEPT ![i] = row]
    BY <1>4
  <1> QED  BY <1>4, <1>5, ItemRewritten

\* Every step keeps the mappings' confirmations single and in place.
LEMMA ItemsConfirmedOnceKeeps ==
    ASSUME ItemsConfirmedOnce, RepairsHold, [Next]_vars
    PROVE  ItemsConfirmedOnce' /\ ItemsStand
  <1>0. items \in Seq(ItemMapRow)
    BY DEF ItemsConfirmedOnce
  <1>1. CASE items' = items
    BY <1>1 DEF ItemsConfirmedOnce, ItemsStand
  <1>2. ASSUME NEW p \in Products, NEW n \in Refs, Suggest(p, n)
        PROVE  ItemsConfirmedOnce' /\ ItemsStand
    <2>1. PICK row \in ItemMapRow :
              /\ row = Suggestion(p, n)
              /\ row.state = "suggested" /\ row.confirms = 0 /\ row.confirmed = 0
      BY SuggestionRow
    <2>2. row.confirmed <= Len(items) + 1
      BY <2>1, <1>0, LenProperties
    <2>3. items' = Append(items, row)
      BY <1>2, <2>1 DEF Suggest
    <2> QED  BY <2>1, <2>2, <2>3, ItemAdded
  <1>3. ASSUME NEW i \in DOMAIN items, NEW v \in 1 .. 2, Confirm(i, v)
        PROVE  ItemsConfirmedOnce' /\ ItemsStand
    BY <1>3, ConfirmKeeps DEF Confirm
  <1>4. ASSUME NEW i \in DOMAIN items, NEW v \in 1 .. 2, Retire(i, v)
        PROVE  ItemsConfirmedOnce' /\ ItemsStand
    <2>1. items[i] \in ItemMapRow
      BY <1>0, ElementOfSeq, LenProperties
    <2>2. PICK n \in Nat : n = items[i].version + 1
      BY <2>1 DEF ItemMapRow
    <2> DEFINE row == [items[i] EXCEPT !.retired = TRUE, !.version = n]
    <2>3. /\ row \in ItemMapRow /\ row.state = items[i].state
          /\ row.confirms = items[i].confirms /\ row.confirmed = items[i].confirmed
      BY <2>1, <2>2 DEF ItemMapRow
    <2>4. items' = [items EXCEPT ![i] = row]
      BY <1>4, <2>2 DEF Retire
    <2>5. /\ items[i].confirmed <= Len(items) + 1
          /\ items[i].confirms = IF items[i].state = "confirmed" THEN 1 ELSE 0
      BY DEF ItemsConfirmedOnce
    <2> HIDE DEF row
    <2> QED  BY <2>3, <2>4, <2>5, ItemRewritten
  <1>5. ASSUME NEW c \in Clients, RepairConfirms(c)
        PROVE  ItemsConfirmedOnce' /\ ItemsStand
    <2>1. req[c].mapping \in DOMAIN items
      BY <1>5 DEF RepairConfirms, At, RepairsHold, Asks
    <2>2. PICK i \in DOMAIN items : \E v : /\ Confirmable(i, v)
                                           /\ items' = [items EXCEPT ![i] = Confirmed(@)]
      BY <1>5, <2>1 DEF RepairConfirms
    <2> QED  BY <2>2, ConfirmKeeps
  <1>6. ASSUME NEW c \in Clients, RepairSuggests(c)
        PROVE  ItemsConfirmedOnce' /\ ItemsStand
    <2>1. req[c].product \in Products /\ req[c].ref \in Refs
      BY <1>6 DEF RepairSuggests, At, RepairsHold, Asks, RepairRequest
    <2>2. PICK row \in ItemMapRow :
              /\ row = Suggestion(req[c].product, req[c].ref)
              /\ row.state = "suggested" /\ row.confirms = 0
      BY <2>1, SuggestionRow
    <2>3. PICK new \in ItemMapRow :
              /\ new = Confirmed(row)
              /\ new.state = "confirmed" /\ new.confirms = 1
              /\ new.confirmed <= Len(items) + 1
      BY <1>0, <2>2, ConfirmedRow
    <2>4. items' = Append(items, new)
      BY <1>6, <2>2, <2>3 DEF RepairSuggests
    <2> QED  BY <2>3, <2>4, ItemAdded
  <1> QED  BY <1>1, <1>2, <1>3, <1>4, <1>5, <1>6, ItemsWriters

-----------------------------------------------------------------------------
(* Reports and results.                                                      *)

\* Of the confirmed mappings of an item name, one was confirmed last.
LEMMA LastConfirmed ==
    ASSUME ItemsConfirmedOnce, NEW of, of \subseteq DOMAIN items, of # {}
    PROVE  \E i \in of : \A j \in of : items[j].confirmed <= items[i].confirmed
  <1>1. items \in Seq(ItemMapRow)
    BY DEF ItemsConfirmedOnce
  <1>2. \A j \in of : items[j] \in ItemMapRow
    BY <1>1, ElementOfSeq, LenProperties
  <1>3. \A j \in of : items[j].confirmed \in Nat /\ items[j].confirmed <= Len(items) + 1
    BY <1>2 DEF ItemsConfirmedOnce, ItemMapRow
  <1> DEFINE bounds == {n \in Nat : \A j \in of : items[j].confirmed <= n}
  <1>4. Len(items) + 1 \in bounds
    BY <1>1, <1>3, LenProperties
  <1>5. bounds \subseteq Nat /\ bounds # {}
    BY <1>4
  <1>6. PICK n \in bounds : \A m \in bounds : n <= m
    <2> HIDE DEF bounds
    <2> QED  BY <1>5, LeastNatural
  <1>7. ASSUME \A i \in of : items[i].confirmed # n  PROVE FALSE
    <2>1. PICK m \in Int : m = n - 1
      BY <1>6
    <2>2. \A j \in of : items[j].confirmed <= m
      BY <1>3, <1>6, <1>7, <2>1
    <2>3. m \in Nat
      BY <1>3, <1>6, <1>7, <2>1
    <2>4. m \in bounds
      BY <2>2, <2>3
    <2> QED  BY <1>6, <2>1, <2>4
  <1>8. PICK i \in of : items[i].confirmed = n
    BY <1>7
  <1> QED  BY <1>6, <1>8

\* An item name stands for a product or for nothing.
LEMMA ProductOfType ==
    ASSUME ItemsConfirmedOnce, NEW name
    PROVE  ProductOf(name) \in Products \cup {None}
  <1> DEFINE of == {i \in DOMAIN items : items[i].ref = name /\ ConfirmedItem(i)}
             last == CHOOSE i \in of : \A j \in of : items[j].confirmed <= items[i].confirmed
  <1>1. CASE of = {}
    BY <1>1 DEF ProductOf
  <1>2. CASE of # {}
    <2>1. \E i \in of : \A j \in of : items[j].confirmed <= items[i].confirmed
      <3>1. of \subseteq DOMAIN items
        OBVIOUS
      <3> HIDE DEF of
      <3> QED  BY <1>2, <3>1, LastConfirmed
    <2>2. last \in of
      BY <2>1
    <2>3. items[last] \in ItemMapRow
      BY <2>2, ElementOfSeq, LenProperties DEF ItemsConfirmedOnce
    <2>4. items[last].product \in Products
      BY <2>3 DEF ItemMapRow
    <2>5. ProductOf(name) = items[last].product
      BY <1>2 DEF ProductOf
    <2> QED  BY <2>4, <2>5
  <1> QED  BY <1>1, <1>2

\* What is stored of a report.
LEMMA RecordedAsType ==
    ASSUME ItemsConfirmedOnce, NEW rep \in Reports
    PROVE  RecordedAs(rep) \in StoredReport /\ RecordedAs(rep).sent = rep
  <1>1. \A n \in Refs : (IF n \in DOMAIN rep.qty THEN ProductOf(n) ELSE None)
                            \in Products \cup {None}
    BY ProductOfType
  <1> DEFINE names == [n \in Refs |-> IF n \in DOMAIN rep.qty THEN ProductOf(n) ELSE None]
  <1>2. names \in [Refs -> Products \cup {None}]
    BY <1>1
  <1>3. RecordedAs(rep) = [sent |-> rep, product |-> names]
    BY DEF RecordedAs
  <1> HIDE DEF names
  <1> QED  BY <1>2, <1>3 DEF StoredReport

\* The results a processing of run q may write.
Found(q, x) ==
    /\ x \in ResultRow /\ x.run = q /\ x.by = 1 /\ x.state = "open" /\ Judged(x)

\* A new result.
LEMMA ResultType ==
    ASSUME RunsHold, NEW q \in DOMAIN runs, runs[q].status = "running",
           NEW p \in Products \cup {None}, NEW n \in Refs \cup {None}, NEW class \in StockClass \cup ProductClass
    PROVE  /\ Result(q, p, n, class) \in ResultRow
           /\ Result(q, p, n, class).run = q
           /\ Result(q, p, n, class).by = 1
           /\ Result(q, p, n, class).product = p
           /\ Result(q, p, n, class).class = class
           /\ Result(q, p, n, class).state = "open"
  <1>1. runs[q].written = 0
    BY DEF RunsHold
  <1>2. q \in Nat
    BY LenProperties DEF RunsHold
  <1>3. Result(q, p, n, class) =
            [run |-> q, by |-> 1, product |-> p, ref |-> n, class |-> class, state |-> "open"]
    BY <1>1 DEF Result
  <1> QED  BY <1>2, <1>3 DEF ResultRow

\* The one result of a store that is not mapped.
LEMMA UnmappedStoreFinds ==
    ASSUME RunsHold, NEW q \in DOMAIN runs, runs[q].status = "running"
    PROVE  \A x \in {Result(q, None, None, "unmapped_store")} : Found(q, x)
  <1>1. PICK x : x = Result(q, None, None, "unmapped_store")
    OBVIOUS
  <1>2. /\ x \in ResultRow /\ x.run = q /\ x.by = 1
        /\ x.class = "unmapped_store" /\ x.state = "open"
    <2>1. None \in Products \cup {None} /\ None \in Refs \cup {None}
      OBVIOUS
    <2>2. "unmapped_store" \in StockClass \cup ProductClass
      BY DEF StockClass
    <2> QED  BY <1>1, <2>1, <2>2, ResultType
  <1>3. Judged(x)
    BY <1>2 DEF Judged
  <1> QED  BY <1>1, <1>2, <1>3 DEF Found

\* What the bin view of run q says of a product.
BinsOf(q, p) == {b[2] : b \in {x \in BinView(q) : x[1] = p}}

\* A comparison with the bin view of the report that was told.
LEMMA ComparisonJudged ==
    ASSUME RunsHold, NEW q \in DOMAIN runs,
           NEW p \in Products, NEW mapped, NEW x, x.run = q, x.product = p,
           x.class = Classify(OnHand[runs[q].store][p], p \in mapped, BinsOf(q, p))
    PROVE  Judged(x)
  <1> SUFFICES ASSUME x.class \in {"match", "quantity_divergence"}
               PROVE  /\ runs[q].told # None
                      /\ \E n \in DOMAIN runs[q].told.qty :
                          /\ runs[q].report.product[n] = p
                          /\ x.class = "match" <=> runs[q].told.qty[n] = OnHand[runs[q].store][p]
    BY DEF Judged
  <1> DEFINE here == OnHand[runs[q].store][p]
  <1>0. PICK bin : bin = BinsOf(q, p)
    OBVIOUS
  <1>1. /\ bin # {}
        /\ x.class = "match" => here \in bin
        /\ x.class = "quantity_divergence" => here \notin bin
    BY <1>0 DEF Classify
  <1>2. \A b \in BinView(q) :
            /\ runs[q].report # None
            /\ \E n \in DOMAIN runs[q].report.sent.qty :
                b = <<runs[q].report.product[n], runs[q].report.sent.qty[n]>>
    BY DEF BinView
  <1>3. \A v \in bin : \E n \in DOMAIN runs[q].report.sent.qty :
            /\ runs[q].report.product[n] = p
            /\ runs[q].report.sent.qty[n] = v
    BY <1>0, <1>2 DEF BinsOf
  <1>4. runs[q].report # None
    BY <1>0, <1>1, <1>2 DEF BinsOf
  <1>5. runs[q] \in RunRow
    BY ElementOfSeq, LenProperties DEF RunsHold
  <1>6. runs[q].told = runs[q].report.sent /\ runs[q].told # None
    BY <1>4, <1>5, RowAssumption DEF RunsHold, RunRow, StoredReport
  <1>7. PICK v \in bin : x.class = "match" <=> v = here
    BY <1>1
  <1>8. PICK n \in DOMAIN runs[q].report.sent.qty :
            runs[q].report.product[n] = p /\ runs[q].report.sent.qty[n] = v
    BY <1>3, <1>7
  <1> QED  BY <1>6, <1>7, <1>8

\* The results of a comparison of stock, q being the run of the worker.
StockFindings(q, mapped) ==
    LET here == OnHand[runs[q].store]
    IN  {Result(q, p, None, Classify(here[p], p \in mapped, BinsOf(q, p))) :
            p \in {r \in Products : here[r] # None}}
        \cup
        {Result(q, p, None, "erpnext_only") :
            p \in {r \in Products : here[r] = None /\ BinsOf(q, r) # {}}}

\* They are open, written for the first time, and judged by the report.
LEMMA CompareStockFinds ==
    ASSUME RunsHold, NEW q \in DOMAIN runs, runs[q].status = "running", NEW mapped
    PROVE  \A x \in StockFindings(q, mapped) : Found(q, x)
  <1> DEFINE here == OnHand[runs[q].store]
  <1>1. SUFFICES ASSUME NEW x \in StockFindings(q, mapped)  PROVE Found(q, x)
    OBVIOUS
  <1>2. \/ \E p \in Products : x = Result(q, p, None, Classify(here[p], p \in mapped, BinsOf(q, p)))
        \/ \E p \in Products : x = Result(q, p, None, "erpnext_only")
    BY <1>1 DEF StockFindings
  <1>3. ASSUME NEW p \in Products, x = Result(q, p, None, "erpnext_only")
        PROVE  Found(q, x)
    <2>1. None \in Refs \cup {None} /\ p \in Products \cup {None}
      OBVIOUS
    <2>2. "erpnext_only" \in StockClass \cup ProductClass
      BY DEF StockClass
    <2>3. /\ x \in ResultRow /\ x.run = q /\ x.by = 1
          /\ x.class = "erpnext_only" /\ x.state = "open"
      BY <1>3, <2>1, <2>2, ResultType
    <2>4. Judged(x)
      BY <2>3 DEF Judged
    <2> QED  BY <2>3, <2>4 DEF Found
  <1>4. ASSUME NEW p \in Products,
               x = Result(q, p, None, Classify(here[p], p \in mapped, BinsOf(q, p)))
        PROVE  Found(q, x)
    <2>3. PICK class : class = Classify(OnHand[runs[q].store][p], p \in mapped, BinsOf(q, p))
      OBVIOUS
    <2>4. class \in StockClass \cup ProductClass
      BY <2>3 DEF Classify, StockClass
    <2>5. None \in Refs \cup {None} /\ p \in Products \cup {None}
      OBVIOUS
    <2>6. x = Result(q, p, None, class)
      BY <1>4, <2>3
    <2>7. /\ x \in ResultRow /\ x.run = q /\ x.by = 1 /\ x.product = p
          /\ x.class = class /\ x.state = "open"
      BY <2>4, <2>5, <2>6, ResultType
    <2>8. Judged(x)
      BY <2>3, <2>7, ComparisonJudged
    <2> QED  BY <2>7, <2>8 DEF Found
  <1> QED  BY <1>2, <1>3, <1>4

\* The results of a product run.
ProductFindings(q, view, rows) ==
    (IF view = None THEN {}
     ELSE {Result(q, row.product, row.ref, MappingClass(row, view)) : row \in rows}
          \cup {Result(q, None, n, "unmapped_erpnext_item") :
                    n \in DOMAIN view \ {row.ref : row \in rows}})
    \cup
    {Result(q, p, None, UnmappedClass(p)) : p \in {r \in Products : ConfirmedOf(r) = {}}}

\* They too are open and written for the first time.
LEMMA CompareProductsFinds ==
    ASSUME RunsHold, NEW q \in DOMAIN runs, runs[q].status = "running",
           runs[q].kind = "product",
           NEW view \in ItemViews, NEW rows, rows \subseteq ItemMapRow
    PROVE  \A x \in ProductFindings(q, view, rows) : Found(q, x)
  <1>1. SUFFICES ASSUME NEW x \in ProductFindings(q, view, rows)  PROVE Found(q, x)
    OBVIOUS
  <1>2. \/ \E row \in rows : x = Result(q, row.product, row.ref, MappingClass(row, view))
        \/ /\ view # None
           /\ \E n \in DOMAIN view : x = Result(q, None, n, "unmapped_erpnext_item")
        \/ \E p \in Products : x = Result(q, p, None, UnmappedClass(p))
    BY <1>1 DEF ProductFindings
  <1> DEFINE IsRow == \E p \in Products \cup {None}, n \in Refs \cup {None},
                        class \in StockClass \cup ProductClass : x = Result(q, p, n, class)
  <1>3. IsRow
    <2>1. ASSUME NEW row \in rows, x = Result(q, row.product, row.ref, MappingClass(row, view))
          PROVE  IsRow
      <3>1. row.product \in Products \cup {None} /\ row.ref \in Refs \cup {None}
        BY DEF ItemMapRow
      <3>2. MappingClass(row, view) \in StockClass \cup ProductClass
        BY DEF MappingClass, ProductClass
      <3> QED  BY <2>1, <3>1, <3>2
    <2>2. ASSUME view # None, NEW n \in DOMAIN view,
                 x = Result(q, None, n, "unmapped_erpnext_item")
          PROVE  IsRow
      <3>1. None \in Products \cup {None} /\ n \in Refs \cup {None}
        BY <2>2, RowAssumption
      <3>2. "unmapped_erpnext_item" \in StockClass \cup ProductClass
        BY DEF ProductClass
      <3> QED  BY <2>2, <3>1, <3>2
    <2>3. ASSUME NEW p \in Products, x = Result(q, p, None, UnmappedClass(p))
          PROVE  IsRow
      <3>1. p \in Products \cup {None} /\ None \in Refs \cup {None}
        OBVIOUS
      <3>2. UnmappedClass(p) \in StockClass \cup ProductClass
        BY DEF UnmappedClass, ProductClass
      <3> QED  BY <2>3, <3>1, <3>2
    <2> QED  BY <1>2, <2>1, <2>2, <2>3
  <1>4. PICK p \in Products \cup {None}, n \in Refs \cup {None},
             class \in StockClass \cup ProductClass : x = Result(q, p, n, class)
    BY <1>3
  <1>5. x \in ResultRow /\ x.run = q /\ x.by = 1 /\ x.state = "open"
    BY <1>4, ResultType
  <1>6. Judged(x)
    BY <1>5 DEF Judged
  <1> QED  BY <1>5, <1>6 DEF Found

-----------------------------------------------------------------------------
(* Who writes the runs.                                                      *)

\* A request other than a trigger goes on, or none does.
OtherRequest ==
    \/ req' = req
    \/ \E c \in Clients : \E r : /\ ~At(c, "trigger") /\ r.at # "trigger"
                                  /\ req' = [req EXCEPT ![c] = r]

\* The result a repair is about is closed.
ResultClosed(key) ==
    results' = {IF Key(x) = key THEN [x EXCEPT !.state = "repaired"] ELSE x : x \in results}

\* A step that is not about runs.
Bystander ==
    /\ UNCHANGED <<runs, events, work>>
    /\ asked' \subseteq asked \cup DOMAIN runs
    /\ OtherRequest
    /\ results' = results \/ \E key : ResultClosed(key)

\* Recording an attempt closes its result or none.
LEMMA RecordedCloses ==
    ASSUME NEW c, NEW i, NEW outcome, Recorded(c, i, outcome)
    PROVE  IF outcome = "mapped" THEN ResultClosed(req[c].target) ELSE results' = results
  <1>1. CASE outcome = "mapped"
    BY <1>1 DEF Recorded, ResultClosed
  <1>2. CASE outcome # "mapped"
    <2>1. results' = {x : x \in results}
      BY <1>2 DEF Recorded
    <2> QED  BY <1>2, <2>1
  <1> QED  BY <1>1, <1>2

\* Repairs leave the runs alone.
LEMMA RecordedBystander ==
    ASSUME NEW c \in Clients, NEW i, NEW outcome, Recorded(c, i, outcome), ~At(c, "trigger")
    PROVE  Bystander
  <1>1. UNCHANGED <<runs, events, work, asked>> /\ req' = [req EXCEPT ![c] = Idle]
    BY DEF Recorded, Finish, feed
  <1>2. OtherRequest
    BY <1>1 DEF OtherRequest, Idle
  <1> QED  BY <1>1, <1>2, RecordedCloses DEF Bystander

\* Runs are written by triggers, by the connector's report and by the workers.
LEMMA RunWriters ==
    ASSUME [Next]_vars
    PROVE  \/ Bystander
           \/ \E c \in Clients : \/ \E s \in Stores : TriggerRun(c, s)
                                 \/ TriggerProductRun(c)
                                 \/ CommitTrigger(c)
                                 \/ RequestDies(c) /\ At(c, "trigger")
           \/ \E w \in Workers : Process(w) \/ ConsumerThrows(w) \/ WorkerDies(w)
           \/ \E i \in DOMAIN creds, r \in asked, rep \in Reports : ReportSnapshot(i, r, rep)
  <1>1. ASSUME NEW c \in Clients, Operate(c)
        PROVE  \/ Bystander
               \/ \E s \in Stores : TriggerRun(c, s)
               \/ TriggerProductRun(c)
    <2>1. ASSUME RepairBacklogItem(c)  PROVE Bystander
      BY <2>1 DEF RepairBacklogItem, RepairRequests, Begin, At, Bystander, OtherRequest, feed
    <2>2. ASSUME RepairResult(c)  PROVE Bystander
      BY <2>2 DEF RepairResult, RepairRequests, Begin, At, Bystander, OtherRequest, feed
    <2>3. ASSUME RepairStock(c)  PROVE Bystander
      BY <2>3 DEF RepairStock, Begin, At, Bystander, OtherRequest, feed
    <2>4. ASSUME NEW op \in {"issue", "rotate"}, CheckInstance(c, op)  PROVE Bystander
      BY <2>4 DEF CheckInstance, Begin, At, Bystander, OtherRequest, feed
    <2> QED  BY <1>1, <2>1, <2>2, <2>3, <2>4 DEF Operate
  <1>2. ASSUME NEW c \in Clients, Serve(c)
        PROVE  Bystander \/ CommitTrigger(c)
    <2>1. ASSUME RepairConfirms(c)  PROVE Bystander
      BY <2>1, RecordedBystander DEF RepairConfirms, At
    <2>2. ASSUME RepairFindsNothing(c)  PROVE Bystander
      BY <2>2, RecordedBystander DEF RepairFindsNothing, At
    <2>3. ASSUME RepairSuggests(c)  PROVE Bystander
      BY <2>3, RecordedBystander DEF RepairSuggests, At
    <2>4. ASSUME RepairEchoes(c)  PROVE Bystander
      BY <2>4, RecordedBystander DEF RepairEchoes, At
    <2>5. ASSUME RepairConflicts(c)  PROVE Bystander
      <3>1. req' = [req EXCEPT ![c] = [req[c] EXCEPT !.at = "echo"]]
        BY <2>5 DEF RepairConflicts
      <3>2. [req[c] EXCEPT !.at = "echo"].at # "trigger"
        OBVIOUS
      <3> QED  BY <2>5, <3>1, <3>2 DEF RepairConflicts, At, Bystander, OtherRequest, feed
    <2>6. ASSUME CloseStock(c)  PROVE Bystander
      BY <2>6 DEF CloseStock, ResultClosed, Finish, Idle, At, Bystander, OtherRequest, feed
    <2>7. ASSUME RevokeSeen(c)  PROVE Bystander
      BY <2>7 DEF RevokeSeen, At, Bystander, OtherRequest, feed
    <2>8. ASSUME IssueCredential(c)  PROVE Bystander
      BY <2>8 DEF IssueCredential, Finish, Idle, At, Bystander, OtherRequest, feed
    <2> QED  BY <1>2, <2>1, <2>2, <2>3, <2>4, <2>5, <2>6, <2>7, <2>8 DEF Serve
  <1>3. ASSUME NEW c \in Clients, RequestDies(c), ~At(c, "trigger")  PROVE Bystander
    BY <1>3 DEF RequestDies, Finish, Idle, At, Bystander, OtherRequest, feed
  <1>4. ASSUME Maintain  PROVE Bystander
    BY <1>4 DEF Maintain, Suggest, Confirm, Retire, SetWarehouse, RetireWarehouse, Disable,
                HeartbeatLapses, RevokeCredential, ExpireCredential, Bystander, OtherRequest, feed
  <1>5. ASSUME Connect
        PROVE  Bystander \/ \E i \in DOMAIN creds, r \in asked, rep \in Reports : ReportSnapshot(i, r, rep)
    <2>1. ASSUME NEW i, PullRequests(i)  PROVE Bystander
      BY <2>1 DEF PullRequests, Bystander, OtherRequest
    <2>2. ASSUME NEW i, Heartbeat(i)  PROVE Bystander
      BY <2>2 DEF Heartbeat, Bystander, OtherRequest, feed
    <2> QED  BY <1>5, <2>1, <2>2 DEF Connect
  <1>6. ASSUME UNCHANGED vars  PROVE Bystander
    BY <1>6 DEF vars, Bystander, OtherRequest
  <1> QED  BY <1>1, <1>2, <1>3, <1>4, <1>5, <1>6 DEF Next

-----------------------------------------------------------------------------
(* What holds of the runs when they are written.                             *)

\* Runs are not dropped, keep their kind, and are left alone once completed.
RunsStand ==
    /\ DOMAIN runs \subseteq DOMAIN runs'
    /\ \A r \in DOMAIN runs :
        /\ runs'[r].kind = runs[r].kind
        /\ runs[r].status = "completed" => runs'[r] = runs[r]

\* Runs with a given status keep it.
Stay(status) ==
    \A r \in DOMAIN runs : runs[r].status = status => runs'[r].status = status

\* One run is rewritten, before its completion or for it.
LEMMA RunRewritten ==
    ASSUME RunsHold, NEW r \in DOMAIN runs, NEW row \in RunRow,
           runs' = [runs EXCEPT ![r] = row], asked' = asked,
           runs[r].status # "completed", row.kind = runs[r].kind,
           row.written = IF row.status = "completed" THEN 1 ELSE 0,
           row.report = None => row.told = None,
           row.report # None => row.told = row.report.sent
    PROVE  RunsHold' /\ RunsStand /\ DOMAIN runs' = DOMAIN runs
  <1>1. runs \in Seq(RunRow) /\ DOMAIN runs = 1 .. Len(runs)
    BY LenProperties DEF RunsHold
  <1>2. runs' \in Seq(RunRow)
    BY <1>1, ExceptSeq
  <1>3. DOMAIN runs' = DOMAIN runs /\ runs'[r] = row
    OBVIOUS
  <1>4. \A q \in DOMAIN runs : q # r => runs'[q] = runs[q]
    OBVIOUS
  <1>5. \A q \in DOMAIN runs' :
            /\ runs'[q].written = IF runs'[q].status = "completed" THEN 1 ELSE 0
            /\ runs'[q].report = None => runs'[q].told = None
            /\ runs'[q].report # None => runs'[q].told = runs'[q].report.sent
    BY <1>3, <1>4 DEF RunsHold
  <1>6. RunsHold'
    BY <1>2, <1>3, <1>5 DEF RunsHold
  <1> QED  BY <1>3, <1>4, <1>6 DEF RunsStand

\* A run is added.
LEMMA RunAdded ==
    ASSUME RunsHold, NEW kind \in {"product", "stock"}, NEW s \in Stores \cup {None},
           runs' = Append(runs, NewRun(kind, s)), asked' = asked
    PROVE  /\ RunsHold' /\ RunsStand
           /\ Len(runs) + 1 \notin DOMAIN runs
           /\ DOMAIN runs' = DOMAIN runs \cup {Len(runs) + 1}
           /\ \A r \in DOMAIN runs : runs'[r] = runs[r]
           /\ runs'[Len(runs) + 1].status = "uncommitted"
  <1>1. runs \in Seq(RunRow) /\ DOMAIN runs = 1 .. Len(runs) /\ Len(runs) \in Nat
    BY LenProperties DEF RunsHold
  <1>2. PICK row \in RunRow : /\ row = NewRun(kind, s)
                              /\ row.status = "uncommitted" /\ row.written = 0
                              /\ row.report = None /\ row.told = None
    BY DEF NewRun, RunRow
  <1>3. /\ runs' \in Seq(RunRow)
        /\ Len(runs') = Len(runs) + 1
        /\ \A q \in 1 .. Len(runs) : runs'[q] = runs[q]
        /\ runs'[Len(runs) + 1] = row
    BY <1>1, <1>2, AppendProperties
  <1>4. DOMAIN runs' = 1 .. Len(runs) + 1
    BY <1>3, LenProperties
  <1>5. DOMAIN runs' = DOMAIN runs \cup {Len(runs) + 1} /\ Len(runs) + 1 \notin DOMAIN runs
    BY <1>1, <1>4
  <1>6. \A q \in DOMAIN runs' :
            /\ runs'[q].written = IF runs'[q].status = "completed" THEN 1 ELSE 0
            /\ runs'[q].report = None => runs'[q].told = None
            /\ runs'[q].report # None => runs'[q].told = runs'[q].report.sent
    BY <1>1, <1>2, <1>3, <1>5 DEF RunsHold
  <1>7. RunsHold'
    BY <1>3, <1>5, <1>6 DEF RunsHold
  <1> QED  BY <1>1, <1>2, <1>3, <1>5, <1>7 DEF RunsStand

\* Triggers in flight keep their runs.
LEMMA TriggersUntouched ==
    ASSUME TriggersHold, req' = req, RunsStand, Stay("uncommitted")
    PROVE  TriggersHold'
  BY DEF TriggersHold, At, RunsStand, Stay

\* Another request does not matter to them.
LEMMA TriggersOthers ==
    ASSUME TriggersHold, OtherRequest, runs' = runs
    PROVE  TriggersHold'
  BY DEF TriggersHold, At, OtherRequest

\* A trigger that ends leaves the runs of the others uncommitted.
LEMMA TriggerEnds ==
    ASSUME TriggersHold, NEW c \in Clients, At(c, "trigger"),
           req' = [req EXCEPT ![c] = Idle],
           DOMAIN runs' = DOMAIN runs,
           \A r \in DOMAIN runs : r # req[c].run => runs'[r] = runs[r]
    PROVE  TriggersHold'
  BY DEF TriggersHold, At, Idle

\* Events are of runs there are.
EventsOfRuns == events \subseteq EventRow /\ \A e \in events : e.run \in DOMAIN runs

\* The steps in which a worker holds the lock of its run.
LockSteps == {"warehouse", "bin", "confirmed", "unmapped"}

\* What a worker may carry along.
Delivery(state) ==
    state.at # "idle" =>
        /\ state.run \in DOMAIN runs
        /\ state.event \in EventRow /\ state.event.run = state.run
        /\ state.at \in LockSteps => runs[state.run].status = "running"
        /\ state.at \in {"confirmed", "unmapped"} => runs[state.run].kind = "product"
        /\ state.at = "unmapped" =>
            state.view \in ItemViews /\ state.rows \subseteq ItemMapRow

\* Workers that go on processing keep their runs.
LEMMA WorkersUntouched ==
    ASSUME WorkersHold, work' = work, EventsOfRuns', RunsStand, Stay("running")
    PROVE  WorkersHold'
  BY DEF WorkersHold, RunsStand, Stay, EventsOfRuns, Processing

\* A worker that lets go of its run leaves the others'.
LEMMA WorkerLetsGo ==
    ASSUME WorkersHold, NEW w \in Workers, NEW state,
           work' = [work EXCEPT ![w] = state], state.at \in {"idle", "done"},
           state.at = "done" => /\ work[w].at # "idle" /\ state.run = work[w].run
                                /\ state.event = work[w].event,
           events' = events, DOMAIN runs' = DOMAIN runs,
           \A r \in DOMAIN runs :
               \/ Processing(w) /\ r = work[w].run /\ runs'[r].kind = runs[r].kind
               \/ runs'[r] = runs[r]
    PROVE  WorkersHold'
  <1>1. DOMAIN work' = Workers /\ EventsOfRuns'
    BY DEF WorkersHold, EventsOfRuns
  <1>2. \A v \in Workers : v # w => work'[v] = work[v]
    BY DEF WorkersHold
  <1>3. work'[w] = state
    BY DEF WorkersHold
  <1>4. \A v \in Workers : v # w /\ Processing(v) =>
            work[v].run \in DOMAIN runs /\ runs'[work[v].run] = runs[work[v].run]
    BY DEF WorkersHold, Processing
  <1>5. \A r \in DOMAIN runs : runs'[r].kind = runs[r].kind
    OBVIOUS
  <1>6. \A v \in Workers : Delivery(work[v])
    BY DEF WorkersHold, Processing, Delivery, LockSteps
  <1>7. \A v \in Workers : Delivery(work[v])'
    <2>1. Delivery(work[w])'
      BY <1>3, <1>6 DEF Delivery, LockSteps
    <2>2. ASSUME NEW v \in Workers, v # w  PROVE Delivery(work[v])'
      BY <1>2, <1>4, <1>5, <1>6, <2>2 DEF Delivery, LockSteps, Processing
    <2> QED  BY <2>1, <2>2
  <1>8. \A u, v \in Workers :
            (Processing(u) /\ Processing(v) /\ work[u].run = work[v].run)' => u = v
    BY <1>2, <1>3 DEF WorkersHold, Processing
  <1> QED  BY <1>1, <1>7, <1>8 DEF WorkersHold, Delivery, LockSteps, Processing, EventsOfRuns

\* Completed runs do not change, and with them what their results say.
LEMMA ResultsUntouched ==
    ASSUME ResultsHold, results' = results, RunsStand
    PROVE  ResultsHold'
  <1>1. \A x \in results : runs'[x.run] = runs[x.run] /\ x.run \in DOMAIN runs'
    BY DEF ResultsHold, RunsStand
  <1>2. \A x \in results : Judged(x)'
    BY <1>1 DEF ResultsHold, Judged
  <1> QED  BY <1>1, <1>2 DEF ResultsHold, Key

\* Closing a result changes its state and nothing else.
LEMMA ClosedRow ==
    ASSUME NEW x \in ResultRow
    PROVE  /\ Key(x) \in ResultRow
           /\ [x EXCEPT !.state = "repaired"] \in ResultRow
           /\ Key([x EXCEPT !.state = "repaired"]) = Key(x)
           /\ [x EXCEPT !.state = "repaired"].run = x.run
           /\ [x EXCEPT !.state = "repaired"].by = x.by
           /\ [x EXCEPT !.state = "repaired"].class = x.class
           /\ [x EXCEPT !.state = "repaired"].product = x.product
           /\ [x EXCEPT !.state = "repaired"].state = "repaired"
  BY DEF ResultRow, Key

\* The row x after a repair of the result named key.
After(key, x) == IF Key(x) = key THEN [x EXCEPT !.state = "repaired"] ELSE x

\* What a repair leaves of a row.
LEMMA AfterRow ==
    ASSUME NEW key, NEW x \in ResultRow
    PROVE  /\ After(key, x) \in ResultRow
           /\ Key(After(key, x)) = Key(x)
           /\ After(key, x).run = x.run
           /\ After(key, x).by = x.by
           /\ After(key, x).class = x.class
           /\ After(key, x).product = x.product
           /\ After(key, x).state = IF Key(x) = key THEN "repaired" ELSE x.state
  BY ClosedRow DEF After

\* Closing a result keeps what holds of the results.
LEMMA ResultClosedKeeps ==
    ASSUME ResultsHold, runs' = runs, NEW key, ResultClosed(key)
    PROVE  ResultsHold'
  <1>1. results' = {After(key, x) : x \in results}
    BY DEF ResultClosed, After
  <1>2. results' \subseteq ResultRow
    BY <1>1, AfterRow DEF ResultsHold
  <1>3. \A y \in results' : \E x \in results :
            /\ y = After(key, x) /\ Key(y) = Key(x)
            /\ y.run = x.run /\ y.by = x.by /\ y.class = x.class /\ y.product = x.product
    BY <1>1, AfterRow DEF ResultsHold
  <1>4. \A y \in results' : /\ y.run \in DOMAIN runs' /\ runs'[y.run].status = "completed"
                            /\ y.by = 1
    BY <1>3 DEF ResultsHold
  <1>5. \A y \in results' : Judged(y)'
    BY <1>3 DEF ResultsHold, Judged
  <1>6. \A y, z \in results' : Key(y) = Key(z) => y = z
    <2> SUFFICES ASSUME NEW y \in results', NEW z \in results', Key(y) = Key(z)
                 PROVE  y = z
      OBVIOUS
    <2>1. PICK x \in results : y = After(key, x) /\ Key(y) = Key(x)
      BY <1>3
    <2>2. PICK u \in results : z = After(key, u) /\ Key(z) = Key(u)
      BY <1>3
    <2>3. x = u
      BY <2>1, <2>2 DEF ResultsHold
    <2> QED  BY <2>1, <2>2, <2>3
  <1> QED  BY <1>2, <1>4, <1>5, <1>6 DEF ResultsHold, Key

\* What the steps about runs keep.
RunsInvariant == TriggersHold /\ WorkersHold /\ RunsHold /\ ResultsHold

\* A step that touches no run keeps it.
LEMMA BystanderKeeps ==
    ASSUME RunsInvariant, Bystander
    PROVE  RunsInvariant' /\ RunsStand
  <1> USE DEF RunsInvariant
  <1>1. UNCHANGED <<runs, events, work>>
    BY DEF Bystander
  <1>2. RunsStand /\ Stay("uncommitted") /\ Stay("running")
    BY <1>1 DEF RunsStand, Stay
  <1>3. TriggersHold'
    BY <1>1, TriggersOthers DEF Bystander
  <1>4. WorkersHold'
    <2>1. EventsOfRuns'
      BY <1>1 DEF EventsOfRuns, WorkersHold
    <2> QED  BY <1>1, <1>2, <2>1, WorkersUntouched
  <1>5. RunsHold'
    BY <1>1 DEF Bystander, RunsHold
  <1>6. ResultsHold'
    BY <1>1, <1>2, ResultsUntouched, ResultClosedKeeps DEF Bystander
  <1> QED  BY <1>2, <1>3, <1>4, <1>5, <1>6

\* A run is inserted, uncommitted.
LEMMA TriggerKeeps ==
    ASSUME RunsInvariant, NEW c \in Clients,
           (\E s \in Stores : TriggerRun(c, s)) \/ TriggerProductRun(c)
    PROVE  RunsInvariant' /\ RunsStand
  <1> USE DEF RunsInvariant
  <1> DEFINE Inserts(kind, s, emits) ==
        /\ runs' = Append(runs, NewRun(kind, s))
        /\ At(c, "idle")
        /\ req' = [req EXCEPT ![c] = [at |-> "trigger", run |-> Len(runs) + 1, emits |-> emits]]
        /\ UNCHANGED <<events, results, work, asked>>
  <1>1. PICK kind \in {"product", "stock"}, s \in Stores \cup {None} :
            \E emits : Inserts(kind, s, emits)
    <2>1. TriggerProductRun(c) => Inserts("product", None, TRUE)
      BY DEF TriggerProductRun, Begin, feed
    <2>2. ASSUME NEW s \in Stores, TriggerRun(c, s)  PROVE Inserts("stock", s, ~Mapped(s))
      BY <2>2 DEF TriggerRun, Begin, feed
    <2> HIDE DEF Inserts
    <2> QED  BY <2>1, <2>2
  <1>e. PICK emits : Inserts(kind, s, emits)
    BY <1>1
  <1>2. /\ RunsHold' /\ RunsStand
        /\ Len(runs) + 1 \notin DOMAIN runs
        /\ DOMAIN runs' = DOMAIN runs \cup {Len(runs) + 1}
        /\ \A r \in DOMAIN runs : runs'[r] = runs[r]
        /\ runs'[Len(runs) + 1].status = "uncommitted"
    BY <1>e, RunAdded
  <1>3. PICK new : new = Len(runs) + 1
    OBVIOUS
  <1>4. TriggersHold'
    <2>1. req' = [req EXCEPT ![c] = [at |-> "trigger", run |-> new, emits |-> emits]]
      BY <1>e, <1>3
    <2>2. DOMAIN req' = Clients
      BY <2>1 DEF TriggersHold
    <2>3. \A d \in Clients : d # c => req'[d] = req[d]
      BY <2>1 DEF TriggersHold
    <2>4. req'[c].at = "trigger" /\ req'[c].run = new
      BY <2>1 DEF TriggersHold
    <2>5. \A d \in Clients : d # c /\ At(d, "trigger") =>
              /\ req[d].run \in DOMAIN runs /\ runs[req[d].run].status = "uncommitted"
              /\ req[d].run # new
      BY <1>2, <1>3 DEF TriggersHold
    <2> QED  BY <1>2, <1>3, <2>2, <2>3, <2>4, <2>5 DEF TriggersHold, At
  <1>5. WorkersHold'
    <2>1. Stay("running")
      BY <1>2 DEF Stay
    <2>2. EventsOfRuns'
      BY <1>e, <1>2 DEF EventsOfRuns, WorkersHold
    <2> QED  BY <1>e, <1>2, <2>1, <2>2, WorkersUntouched
  <1>6. ResultsHold'
    BY <1>e, <1>2, ResultsUntouched
  <1> QED  BY <1>2, <1>4, <1>5, <1>6

\* The insert commits, or is rolled back.
LEMMA TriggerEndsKeeps ==
    ASSUME RunsInvariant, NEW c \in Clients,
           CommitTrigger(c) \/ (RequestDies(c) /\ At(c, "trigger"))
    PROVE  RunsInvariant' /\ RunsStand
  <1> USE DEF RunsInvariant
  <1>0. PICK r : r = req[c].run
    OBVIOUS
  <1>1. PICK status \in {"running", "gone"} :
            /\ At(c, "trigger")
            /\ runs' = [runs EXCEPT ![r].status = status]
            /\ events' \subseteq events \cup {Requested(r, "trigger")}
            /\ req' = [req EXCEPT ![c] = Idle]
            /\ UNCHANGED <<results, work, asked>>
    <2>1. CASE CommitTrigger(c)
      BY <1>0, <2>1 DEF CommitTrigger, Finish, feed
    <2>2. CASE RequestDies(c) /\ At(c, "trigger")
      BY <1>0, <2>2 DEF RequestDies, Finish, feed
    <2> QED  BY <2>1, <2>2
  <1>2. r \in DOMAIN runs /\ runs[r].status = "uncommitted"
    BY <1>0, <1>1 DEF TriggersHold
  <1>3. runs[r] \in RunRow
    BY <1>2, ElementOfSeq, LenProperties DEF RunsHold
  <1> DEFINE row == [runs[r] EXCEPT !.status = status]
  <1>4. /\ row \in RunRow /\ row.kind = runs[r].kind /\ row.status = status
        /\ row.written = runs[r].written /\ row.report = runs[r].report
        /\ row.told = runs[r].told
    BY <1>3 DEF RunRow
  <1>5. runs' = [runs EXCEPT ![r] = row]
    BY <1>1
  <1> HIDE DEF row
  <1>6. /\ row.written = IF row.status = "completed" THEN 1 ELSE 0
        /\ row.report = None => row.told = None
        /\ row.report # None => row.told = row.report.sent
    BY <1>1, <1>2, <1>4 DEF RunsHold
  <1>7. RunsHold' /\ RunsStand /\ DOMAIN runs' = DOMAIN runs
    BY <1>1, <1>2, <1>4, <1>5, <1>6, RunRewritten
  <1>8. \A q \in DOMAIN runs : q # r => runs'[q] = runs[q]
    BY <1>5
  <1>9. TriggersHold'
    BY <1>0, <1>1, <1>7, <1>8, TriggerEnds
  <1>10. WorkersHold'
    <2>1. Stay("running")
      BY <1>2, <1>8 DEF Stay
    <2>2. EventsOfRuns'
      <3>1. Requested(r, "trigger") \in EventRow /\ Requested(r, "trigger").run = r
        BY <1>2, LenProperties DEF RunsHold, Requested, EventRow
      <3> QED  BY <1>1, <1>2, <1>7, <3>1 DEF WorkersHold, EventsOfRuns
    <2> QED  BY <1>1, <1>7, <2>1, <2>2, WorkersUntouched
  <1>11. ResultsHold'
    BY <1>1, <1>7, ResultsUntouched
  <1> QED  BY <1>7, <1>9, <1>10, <1>11

\* A report is recorded, of a run that is running and has none.
LEMMA ReportSnapshotKeeps ==
    ASSUME RunsInvariant, ItemsConfirmedOnce,
           NEW i, NEW r \in asked, NEW rep \in Reports, ReportSnapshot(i, r, rep)
    PROVE  RunsInvariant' /\ RunsStand
  <1> USE DEF RunsInvariant
  <1>1. /\ r \in DOMAIN runs /\ runs[r].status = "running"
        /\ runs[r].report = None /\ runs[r].told = None
        /\ UNCHANGED <<results, work, asked, req>> /\ events' = events \cup {Requested(r, "report")}
    BY DEF ReportSnapshot, Wanted, Recordable, Driven, RunsHold, feed
  <1>2. runs[r] \in RunRow
    BY <1>1, ElementOfSeq, LenProperties DEF RunsHold
  <1>3. PICK stored \in StoredReport : stored = RecordedAs(rep) /\ stored.sent = rep
    BY RecordedAsType
  <1>4. rep # None /\ stored # None
    BY RowAssumption
  <1> DEFINE row == [runs[r] EXCEPT !.report = stored, !.told = rep]
  <1>5. /\ row \in RunRow /\ row.kind = runs[r].kind /\ row.status = runs[r].status
        /\ row.written = runs[r].written /\ row.report = stored /\ row.told = rep
    BY <1>2 DEF RunRow
  <1>6. runs' = [runs EXCEPT ![r] = row]
    BY <1>1, <1>3 DEF ReportSnapshot
  <1> HIDE DEF row
  <1>7. /\ row.written = IF row.status = "completed" THEN 1 ELSE 0
        /\ row.report = None => row.told = None
        /\ row.report # None => row.told = row.report.sent
    BY <1>1, <1>3, <1>4, <1>5 DEF RunsHold
  <1>8. RunsHold' /\ RunsStand /\ DOMAIN runs' = DOMAIN runs
    BY <1>1, <1>5, <1>6, <1>7, RunRewritten
  <1>9. Stay("running") /\ Stay("uncommitted")
    BY <1>1, <1>5, <1>6 DEF Stay
  <1>10. TriggersHold'
    BY <1>1, <1>8, <1>9, TriggersUntouched
  <1>11. WorkersHold'
    <2>1. Requested(r, "report") \in EventRow /\ Requested(r, "report").run = r
      BY <1>1, LenProperties DEF RunsHold, Requested, EventRow
    <2>2. EventsOfRuns'
      BY <1>1, <1>8, <2>1 DEF WorkersHold, EventsOfRuns
    <2> QED  BY <1>1, <1>8, <1>9, <2>2, WorkersUntouched
  <1>12. ResultsHold'
    BY <1>1, <1>8, ResultsUntouched
  <1> QED  BY <1>8, <1>10, <1>11, <1>12

\* A worker that writes nothing but its own state and the events, and holds a run
\* for which it is the only one.
LEMMA WorkerMoves ==
    ASSUME RunsInvariant, NEW w \in Workers, NEW state,
           work' = [work EXCEPT ![w] = state],
           UNCHANGED <<runs, results, asked, req>>, EventsOfRuns',
           Delivery(state),
           state.at \in LockSteps =>
               \A v \in Workers \ {w} : Processing(v) => work[v].run # state.run
    PROVE  RunsInvariant' /\ RunsStand
  <1> USE DEF RunsInvariant
  <1>1. RunsStand /\ Stay("uncommitted")
    BY DEF RunsStand, Stay
  <1>2. TriggersHold'
    BY <1>1, TriggersUntouched
  <1>3. DOMAIN work' = Workers /\ work'[w] = state
    BY DEF WorkersHold
  <1>4. \A v \in Workers : v # w => work'[v] = work[v]
    BY DEF WorkersHold
  <1>5. WorkersHold'
    <2>1. \A v \in Workers : Delivery(work[v])
      BY DEF WorkersHold, Processing, Delivery, LockSteps
    <2>2. \A v \in Workers : Delivery(work[v])'
      BY <1>3, <1>4, <2>1 DEF Delivery
    <2>3. \A u, v \in Workers :
              (Processing(u) /\ Processing(v) /\ work[u].run = work[v].run)' => u = v
      BY <1>3, <1>4 DEF WorkersHold, Processing, LockSteps
    <2> QED  BY <1>3, <2>2, <2>3 DEF WorkersHold, Delivery, LockSteps, Processing, EventsOfRuns
  <1>6. RunsHold' /\ ResultsHold'
    BY <1>1, ResultsUntouched DEF RunsHold
  <1> QED  BY <1>1, <1>2, <1>5, <1>6

\* An event is claimed ...
LEMMA ClaimEventKeeps ==
    ASSUME RunsInvariant, NEW w \in Workers, NEW e \in events, ClaimEvent(w, e)
    PROVE  RunsInvariant' /\ RunsStand
  <1>0. WorkersHold
    BY DEF RunsInvariant
  <1>1. PICK claimed : claimed = [e EXCEPT !.state = "claimed", !.tries = e.tries + 1]
    OBVIOUS
  <1>2. claimed \in EventRow /\ claimed.run = e.run /\ e.run \in DOMAIN runs
    <2>1. e \in EventRow /\ e.run \in DOMAIN runs
      BY <1>0 DEF WorkersHold
    <2>2. e.tries + 1 \in Nat
      BY <2>1 DEF EventRow
    <2>3. \A n \in Nat : [e EXCEPT !.state = "claimed", !.tries = n] \in EventRow
      BY <2>1 DEF EventRow
    <2>4. \A n \in Nat : [e EXCEPT !.state = "claimed", !.tries = n].run = e.run
      BY <2>1 DEF EventRow
    <2> QED  BY <1>1, <2>1, <2>2, <2>3, <2>4
  <1> DEFINE state == [at |-> "deliver", run |-> e.run, event |-> claimed]
  <1>3. /\ work' = [work EXCEPT ![w] = state]
        /\ events' = (events \ {e}) \cup {claimed}
        /\ UNCHANGED <<runs, results, asked, req>>
    BY <1>1 DEF ClaimEvent, feed
  <1>4. EventsOfRuns'
    BY <1>0, <1>2, <1>3 DEF WorkersHold, EventsOfRuns
  <1>5. Delivery(state) /\ state.at \notin LockSteps
    BY <1>2 DEF Delivery, LockSteps
  <1> HIDE DEF state
  <1> QED  BY <1>3, <1>4, <1>5, WorkerMoves

\* ... and marked, or given back.
LEMMA MarkKeeps ==
    ASSUME RunsInvariant, NEW w \in Workers, work[w].at # "idle",
           NEW mark \in {"open", "delivered", "dead"}, Mark(w, mark),
           UNCHANGED <<runs, results, asked, req>>
    PROVE  RunsInvariant' /\ RunsStand
  <1>0. WorkersHold
    BY DEF RunsInvariant
  <1>1. PICK marked : marked = [work[w].event EXCEPT !.state = mark]
    OBVIOUS
  <1>2. marked \in EventRow /\ marked.run \in DOMAIN runs
    BY <1>0, <1>1 DEF WorkersHold, EventRow
  <1>3. /\ work' = [work EXCEPT ![w] = Idle] /\ Idle.at = "idle"
        /\ events' = (events \ {work[w].event}) \cup {marked}
    BY <1>1 DEF Mark, Idle
  <1>4. EventsOfRuns'
    BY <1>0, <1>2, <1>3 DEF WorkersHold, EventsOfRuns
  <1>5. Delivery(Idle) /\ Idle.at \notin LockSteps
    BY <1>3 DEF Delivery, LockSteps
  <1> QED  BY <1>3, <1>4, <1>5, WorkerMoves

\* The worker that locks a run is the only one to hold it ...
LEMMA TakeRunKeeps ==
    ASSUME RunsInvariant, NEW w \in Workers, TakeRun(w)
    PROVE  RunsInvariant' /\ RunsStand
  <1>0. WorkersHold /\ RunsHold
    BY DEF RunsInvariant
  <1>r. PICK r : r = work[w].run
    OBVIOUS
  <1>a. PICK step : step = IF ~Processable(r) THEN "done"
                           ELSE IF runs[r].kind = "stock" THEN "warehouse" ELSE "confirmed"
    OBVIOUS
  <1> DEFINE state == [at |-> step, run |-> r, event |-> work[w].event]
  <1>1. /\ r \in DOMAIN runs
        /\ work[w].event \in EventRow /\ work[w].event.run = r
        /\ \A v \in Workers : Processing(v) => work[v].run # r
        /\ UNCHANGED <<runs, events, results, asked, req>>
        /\ work' = [work EXCEPT ![w] = state]
    BY <1>0, <1>r, <1>a DEF TakeRun, Moves, Locked, WorkersHold, feed
  <1>2. runs[r] \in RunRow
    BY <1>0, <1>1, ElementOfSeq, LenProperties DEF RunsHold
  <1>3. runs[r].kind \in {"product", "stock"}
    BY <1>2 DEF RunRow
  <1>4. Delivery(state) /\ state.run = r
    BY <1>1, <1>3, <1>a DEF Delivery, LockSteps, Processable
  <1>5. EventsOfRuns'
    BY <1>0, <1>1 DEF WorkersHold, EventsOfRuns
  <1> HIDE DEF state
  <1> QED  BY <1>1, <1>4, <1>5, WorkerMoves

\* ... keeps it while it reads ...
LEMMA ReadKeeps ==
    ASSUME RunsInvariant, ItemsConfirmedOnce, NEW w \in Workers,
           ReadOnHand(w) \/ \E view \in ItemViews : ReadConfirmed(w, view)
    PROVE  RunsInvariant' /\ RunsStand
  <1>0. WorkersHold
    BY DEF RunsInvariant
  <1> DEFINE Reads(state) ==
        /\ work' = [work EXCEPT ![w] = state]
        /\ state.run = work[w].run /\ state.event = work[w].event /\ Processing(w)
        /\ state.at = "bin" \/ /\ state.at = "unmapped" /\ work[w].at = "confirmed"
                               /\ state.view \in ItemViews
                               /\ state.rows \subseteq ItemMapRow
  <1>1. PICK state : Reads(state)
    <2>1. CASE ReadOnHand(w)
      <3>1. Reads([at |-> "bin", run |-> work[w].run, event |-> work[w].event,
                   mapped |-> {p \in Products : ConfirmedOf(p) # {}}])
        BY <2>1 DEF ReadOnHand, Processing
      <3> HIDE DEF Reads
      <3> QED  BY <3>1
    <2>2. ASSUME NEW view \in ItemViews, ReadConfirmed(w, view)  PROVE \E state : Reads(state)
      <3>1. PICK rows : rows = {items[i] : i \in {j \in DOMAIN items : ConfirmedItem(j)}}
        OBVIOUS
      <3>2. rows \subseteq ItemMapRow
        BY <3>1, ElementOfSeq, LenProperties DEF ItemsConfirmedOnce
      <3>3. /\ work[w].at = "confirmed"
            /\ work' = [work EXCEPT ![w] = [at |-> "unmapped", run |-> work[w].run,
                                            event |-> work[w].event, view |-> view, rows |-> rows]]
        BY <2>2, <3>1 DEF ReadConfirmed
      <3>4. Reads([at |-> "unmapped", run |-> work[w].run, event |-> work[w].event,
                   view |-> view, rows |-> rows])
        BY <3>2, <3>3 DEF Processing
      <3> HIDE DEF Reads
      <3> QED  BY <3>4
    <2> HIDE DEF Reads
    <2> QED  BY <2>1, <2>2
  <1>2. UNCHANGED <<runs, events, results, asked, req>>
    BY DEF ReadOnHand, ReadConfirmed, feed
  <1>3. \A v \in Workers \ {w} : Processing(v) => work[v].run # state.run
    BY <1>0, <1>1 DEF WorkersHold
  <1>4. Delivery(state)
    BY <1>0, <1>1 DEF WorkersHold, Delivery, LockSteps, Processing
  <1>5. EventsOfRuns'
    BY <1>0, <1>2 DEF WorkersHold, EventsOfRuns
  <1> QED  BY <1>1, <1>2, <1>3, <1>4, <1>5, WorkerMoves

\* ... and completes it with its results, all at once.
LEMMA CompleteKeeps ==
    ASSUME RunsInvariant, NEW w \in Workers, Processing(w),
           NEW q, q = work[w].run, NEW found, \A x \in found : Found(q, x),
           Complete(w, found)
    PROVE  RunsInvariant' /\ RunsStand
  <1> USE DEF RunsInvariant
  <1> DEFINE state == [at |-> "done", run |-> work[w].run, event |-> work[w].event]
  <1>0. work[w].at # "idle"
    BY DEF Processing
  <1>1. /\ q \in DOMAIN runs /\ runs[q].status = "running"
        /\ UNCHANGED <<events, asked, req>> /\ work' = [work EXCEPT ![w] = state]
        /\ results' = results \cup found
    BY <1>0 DEF Complete, Moves, WorkersHold, feed
  <1>2. runs[q] \in RunRow /\ runs[q].written = 0
    BY <1>1, ElementOfSeq, LenProperties DEF RunsHold
  <1>2a. PICK n : n = runs[q].written + 1
    OBVIOUS
  <1>2b. n = 1
    BY <1>2, <1>2a
  <1> DEFINE row == [runs[q] EXCEPT !.status = "completed", !.written = n]
  <1>3. /\ row \in RunRow /\ row.kind = runs[q].kind /\ row.status = "completed"
        /\ row.written = 1 /\ row.report = runs[q].report /\ row.told = runs[q].told
        /\ row.store = runs[q].store
    BY <1>2, <1>2b DEF RunRow
  <1>4. runs' = [runs EXCEPT ![q] = row]
    BY <1>1, <1>2a DEF Complete
  <1> HIDE DEF row
  <1>5. /\ row.written = IF row.status = "completed" THEN 1 ELSE 0
        /\ row.report = None => row.told = None
        /\ row.report # None => row.told = row.report.sent
    BY <1>1, <1>3 DEF RunsHold
  <1>6. RunsHold' /\ RunsStand /\ DOMAIN runs' = DOMAIN runs
    BY <1>1, <1>3, <1>4, <1>5, RunRewritten
  <1>7. \A r \in DOMAIN runs : r # q => runs'[r] = runs[r]
    BY <1>4
  <1>8. TriggersHold'
    <2>1. Stay("uncommitted")
      BY <1>1, <1>7 DEF Stay
    <2> QED  BY <1>1, <1>6, <2>1, TriggersUntouched
  <1>9. WorkersHold'
    <2>1. runs'[q].kind = runs[q].kind
      BY <1>1, <1>3, <1>4
    <2>2. /\ state.at = "done" /\ state.run = work[w].run
          /\ state.event = work[w].event
      OBVIOUS
    <2> HIDE DEF state
    <2> QED  BY <1>0, <1>1, <1>6, <1>7, <2>1, <2>2, WorkerLetsGo
  <1>10. \A x \in results : /\ x.run # q /\ x.run \in DOMAIN runs'
                            /\ runs'[x.run] = runs[x.run]
    BY <1>1, <1>6, <1>7 DEF ResultsHold
  <1>11. runs'[q] = row
    BY <1>1, <1>4
  <1>12. \A x \in results' : Judged(x)'
    <2>1. \A x \in results : Judged(x)'
      BY <1>10 DEF ResultsHold, Judged
    <2>2. \A x \in found : Judged(x)'
      <3> SUFFICES ASSUME NEW x \in found  PROVE Judged(x)'
        OBVIOUS
      <3>1. x.run = q /\ Judged(x)
        BY DEF Found
      <3>2. /\ runs'[x.run].kind = runs[x.run].kind /\ runs'[x.run].told = runs[x.run].told
            /\ runs'[x.run].report = runs[x.run].report
            /\ runs'[x.run].store = runs[x.run].store
        BY <1>3, <1>11, <3>1
      <3> QED  BY <3>1, <3>2 DEF Judged
    <2> QED  BY <1>1, <2>1, <2>2
  <1>13. \A x \in results' : /\ x \in ResultRow /\ x.by = 1
                             /\ x.run \in DOMAIN runs' /\ runs'[x.run].status = "completed"
    BY <1>1, <1>3, <1>6, <1>10, <1>11 DEF ResultsHold, Found
  <1>14. \A x, y \in results' : Key(x) = Key(y) => x = y
    <2>1. \A x \in ResultRow : Key(x).run = x.run
      BY DEF Key, ResultRow
    <2>2. \A x \in ResultRow : x.state = "open" => Key(x) = x
      BY DEF Key, ResultRow
    <2>3. \A x \in results : \A y \in found : Key(x) # Key(y)
      BY <1>10, <2>1 DEF Found, ResultsHold
    <2>4. \A x, y \in found : Key(x) = Key(y) => x = y
      BY <2>2 DEF Found
    <2> QED  BY <1>1, <2>3, <2>4 DEF ResultsHold
  <1>15. ResultsHold'
    BY <1>12, <1>13, <1>14 DEF ResultsHold, Key
  <1> QED  BY <1>6, <1>8, <1>9, <1>15

\* The three ways a run is completed.
LEMMA CompletionKeeps ==
    ASSUME RunsInvariant, NEW w \in Workers,
           UnmappedStore(w) \/ CompareStock(w) \/ CompareProducts(w)
    PROVE  RunsInvariant' /\ RunsStand
  <1>1. PICK q : q = work[w].run
    OBVIOUS
  <1>2. RunsHold /\ Processing(w)
    BY DEF RunsInvariant, UnmappedStore, CompareStock, CompareProducts, Processing
  <1>3. q \in DOMAIN runs /\ runs[q].status = "running"
    BY <1>1, <1>2 DEF RunsInvariant, WorkersHold, Processing
  <1>4. CASE UnmappedStore(w)
    <2>1. PICK found : found = {Result(q, None, None, "unmapped_store")}
      OBVIOUS
    <2>2. \A x \in found : Found(q, x)
      BY <1>2, <1>3, <2>1, UnmappedStoreFinds
    <2>3. Complete(w, found)
      BY <1>1, <1>4, <2>1 DEF UnmappedStore
    <2> QED  BY <1>1, <1>2, <2>2, <2>3, CompleteKeeps
  <1>5. CASE CompareStock(w)
    <2>1. PICK found : found = StockFindings(q, work[w].mapped)
      OBVIOUS
    <2>2. \A x \in found : Found(q, x)
      BY <1>2, <1>3, <2>1, CompareStockFinds
    <2>3. Complete(w, found)
      BY <1>1, <1>5, <2>1 DEF CompareStock, StockFindings, BinsOf
    <2> QED  BY <1>1, <1>2, <2>2, <2>3, CompleteKeeps
  <1>6. CASE CompareProducts(w)
    <2>1. PICK found : found = ProductFindings(q, work[w].view, work[w].rows)
      OBVIOUS
    <2>2. /\ work[w].view \in ItemViews /\ work[w].rows \subseteq ItemMapRow
          /\ runs[q].kind = "product"
      BY <1>1, <1>6 DEF CompareProducts, RunsInvariant, WorkersHold
    <2>3. \A x \in found : Found(q, x)
      BY <1>2, <1>3, <2>1, <2>2, CompareProductsFinds
    <2>4. Complete(w, found)
      BY <1>1, <1>6, <2>1 DEF CompareProducts, ProductFindings
    <2> QED  BY <1>1, <1>2, <2>3, <2>4, CompleteKeeps
  <1> QED  BY <1>4, <1>5, <1>6

\* Every step keeps what holds of the runs.
LEMMA RunsInvariantKeeps ==
    ASSUME RunsInvariant, ItemsConfirmedOnce, [Next]_vars
    PROVE  RunsInvariant' /\ RunsStand
  <1>1. ASSUME NEW w \in Workers, Process(w)  PROVE RunsInvariant' /\ RunsStand
    <2>1. ASSUME MarkDelivered(w)  PROVE RunsInvariant' /\ RunsStand
      BY <2>1, MarkKeeps DEF MarkDelivered, feed
    <2> QED  BY <1>1, <2>1, ClaimEventKeeps, TakeRunKeeps, ReadKeeps, CompletionKeeps DEF Process
  <1>2. ASSUME NEW w \in Workers, ConsumerThrows(w)  PROVE RunsInvariant' /\ RunsStand
    BY <1>2, MarkKeeps DEF ConsumerThrows, feed
  <1>3. ASSUME NEW w \in Workers, WorkerDies(w)  PROVE RunsInvariant' /\ RunsStand
    <2>1. work' = [work EXCEPT ![w] = Idle] /\ Idle.at = "idle"
      BY <1>3 DEF WorkerDies, Idle
    <2>2. UNCHANGED <<runs, events, results, asked, req>>
      BY <1>3 DEF WorkerDies, feed
    <2>3. EventsOfRuns'
      BY <2>2 DEF RunsInvariant, WorkersHold, EventsOfRuns
    <2>4. Delivery(Idle) /\ Idle.at \notin LockSteps
      BY <2>1 DEF Delivery, LockSteps
    <2> QED  BY <2>1, <2>2, <2>3, <2>4, WorkerMoves
  <1> QED  BY <1>1, <1>2, <1>3, RunWriters, BystanderKeeps, TriggerKeeps, TriggerEndsKeeps,
              ReportSnapshotKeeps

-----------------------------------------------------------------------------
(* Repairs.                                                                  *)

\* The steps of a repair.
RepairStep(c) ==
    \/ RepairBacklogItem(c) \/ RepairResult(c) \/ RepairStock(c)
    \/ RepairConflicts(c)
    \/ RepairConfirms(c) \/ RepairFindsNothing(c) \/ RepairSuggests(c) \/ RepairEchoes(c)
    \/ CloseStock(c)

\* A request that is not a repair goes on, or none does.
NoRepair ==
    \/ req' = req
    \/ \E c \in Clients : \E r : /\ r.at \notin {"repair", "echo", "stock"}
                                  /\ req' = [req EXCEPT ![c] = r]

\* Results are only added, open.
ResultsAdded ==
    /\ results \subseteq results'
    /\ \A x \in results' \ results : x.state = "open"

\* What the other steps leave of repairs, results and attempts.
LEMMA RepairWriters ==
    ASSUME [Next]_vars
    PROVE  \/ \E c \in Clients : RepairStep(c)
           \/ attempts' = attempts /\ ResultsAdded /\ NoRepair
  <1> DEFINE Aside == attempts' = attempts /\ ResultsAdded /\ NoRepair
  <1>1. ASSUME NEW c \in Clients, Operate(c)  PROVE RepairStep(c) \/ Aside
    <2>1. ASSUME NEW s \in Stores, TriggerRun(c, s)  PROVE Aside
      BY <2>1 DEF TriggerRun, Begin, ResultsAdded, NoRepair
    <2>2. ASSUME TriggerProductRun(c)  PROVE Aside
      BY <2>2 DEF TriggerProductRun, Begin, ResultsAdded, NoRepair
    <2>3. ASSUME NEW op \in {"issue", "rotate"}, CheckInstance(c, op)  PROVE Aside
      BY <2>3 DEF CheckInstance, Begin, ResultsAdded, NoRepair
    <2> QED  BY <1>1, <2>1, <2>2, <2>3 DEF Operate, RepairStep
  <1>2. ASSUME NEW c \in Clients, Serve(c) \/ RequestDies(c)  PROVE RepairStep(c) \/ Aside
    <2>1. ASSUME CommitTrigger(c)  PROVE Aside
      BY <2>1 DEF CommitTrigger, Finish, Idle, ResultsAdded, NoRepair
    <2>2. ASSUME RevokeSeen(c)  PROVE Aside
      BY <2>2 DEF RevokeSeen, ResultsAdded, NoRepair
    <2>3. ASSUME IssueCredential(c)  PROVE Aside
      BY <2>3 DEF IssueCredential, Finish, Idle, ResultsAdded, NoRepair
    <2>4. ASSUME RequestDies(c)  PROVE Aside
      BY <2>4 DEF RequestDies, Finish, Idle, ResultsAdded, NoRepair
    <2> QED  BY <1>2, <2>1, <2>2, <2>3, <2>4 DEF Serve, RepairStep
  <1>3. ASSUME NEW w \in Workers, Process(w) \/ ConsumerThrows(w) \/ WorkerDies(w)  PROVE Aside
    <2>1. ASSUME NEW found, Complete(w, found), \A x \in found : x.state = "open"  PROVE Aside
      BY <2>1 DEF Complete, ResultsAdded, NoRepair
    <2>2. ASSUME UnmappedStore(w)  PROVE Aside
      <3>1. PICK found : /\ found = {Result(work[w].run, None, None, "unmapped_store")}
                         /\ Complete(w, found)
        BY <2>2 DEF UnmappedStore
      <3> QED  BY <2>1, <3>1 DEF Result
    <2>3. ASSUME CompareStock(w)  PROVE Aside
      <3>1. PICK found : /\ found = StockFindings(work[w].run, work[w].mapped)
                         /\ Complete(w, found)
        BY <2>3 DEF CompareStock, StockFindings, BinsOf
      <3>2. \A q, p, n, class : Result(q, p, n, class).state = "open"
        BY DEF Result
      <3>3. \A x \in found : x.state = "open"
        <4> SUFFICES ASSUME NEW x \in found  PROVE x.state = "open"
          OBVIOUS
        <4>1. \/ \E p : x = Result(work[w].run, p, None,
                                  Classify(OnHand[runs[work[w].run].store][p],
                                           p \in work[w].mapped, BinsOf(work[w].run, p)))
              \/ \E p : x = Result(work[w].run, p, None, "erpnext_only")
          BY <3>1 DEF StockFindings
        <4> QED  BY <3>2, <4>1
      <3> QED  BY <2>1, <3>1, <3>3
    <2>4. ASSUME CompareProducts(w)  PROVE Aside
      <3>1. PICK found : /\ found = ProductFindings(work[w].run, work[w].view, work[w].rows)
                         /\ Complete(w, found)
        BY <2>4 DEF CompareProducts, ProductFindings
      <3>2. \A x \in found : x.state = "open"
        BY <3>1 DEF ProductFindings, Result
      <3> QED  BY <2>1, <3>1, <3>2
    <2>5. ASSUME TakeRun(w) \/ MarkDelivered(w) \/ ConsumerThrows(w)  PROVE Aside
      BY <2>5 DEF TakeRun, MarkDelivered, ConsumerThrows, ResultsAdded, NoRepair
    <2>8. ASSUME NEW e, ClaimEvent(w, e)  PROVE Aside
      BY <2>8 DEF ClaimEvent, ResultsAdded, NoRepair
    <2>6. ASSUME NEW view, ReadConfirmed(w, view)  PROVE Aside
      BY <2>6 DEF ReadConfirmed, ResultsAdded, NoRepair
    <2>7. ASSUME ReadOnHand(w) \/ WorkerDies(w)  PROVE Aside
      BY <2>7 DEF ReadOnHand, WorkerDies, ResultsAdded, NoRepair
    <2> QED  BY <1>3, <2>2, <2>3, <2>4, <2>5, <2>6, <2>7, <2>8 DEF Process
  <1>4. ASSUME Maintain \/ Connect  PROVE Aside
    BY <1>4 DEF Maintain, Suggest, Confirm, Retire, SetWarehouse, RetireWarehouse, Disable,
                HeartbeatLapses, RevokeCredential, ExpireCredential, Connect, PullRequests,
                ReportSnapshot, Heartbeat, ResultsAdded, NoRepair
  <1>5. ASSUME UNCHANGED vars  PROVE Aside
    BY <1>5 DEF vars, ResultsAdded, NoRepair
  <1> QED  BY <1>1, <1>2, <1>3, <1>4, <1>5 DEF Next

\* Steps that are not of a repair leave repairs and attempts as they were.
LEMMA AsideKeeps ==
    ASSUME ResultsHold, ResultsHold', RepairsHold, AttemptsHold, DOMAIN req = Clients,
           RunsStand, ItemsStand, attempts' = attempts, ResultsAdded, NoRepair
    PROVE  RepairsHold' /\ AttemptsHold'
  <1>1. \A x \in results : x \in results' /\ runs'[x.run].kind = runs[x.run].kind
    BY DEF ResultsAdded, ResultsHold, RunsStand
  <1>2. \A kind, key : IsResult(kind, key) => IsResult(kind, key)'
    BY <1>1 DEF IsResult, Key
  <1>3. \A d \in Clients : req'[d].at \in {"repair", "echo", "stock"} => req'[d] = req[d]
    BY DEF NoRepair
  <1>4. DOMAIN items \subseteq DOMAIN items'
    BY DEF ItemsStand
  <1>5. RepairsHold'
    <2>1. \A r : Asks(r) => Asks(r)'
      BY <1>2, <1>4 DEF Asks
    <2>2. \A r : Sees(r) => Sees(r)'
      BY <1>1 DEF Sees, Key
    <2>3. ASSUME NEW d \in Clients  PROVE (Asks(req[d]) /\ Sees(req[d]))'
      <3>1. CASE req'[d].at \in {"repair", "echo", "stock"}
        BY <3>1, <1>3, <2>1, <2>2 DEF RepairsHold
      <3>2. CASE req'[d].at \notin {"repair", "echo", "stock"}
        BY <3>2 DEF Asks, Sees
      <3> QED  BY <3>1, <3>2
    <2>4. \A c, d \in Clients :
              req'[c].at = "stock" /\ req'[d].at = "stock" /\ req'[c].target = req'[d].target
                  => c = d
      BY <1>3 DEF RepairsHold, At
    <2> QED  BY <2>3, <2>4 DEF RepairsHold, At
  <1>6. AttemptsHold'
    <2>1. \A k \in DOMAIN attempts :
              /\ attempts[k].mapping # 0 => /\ attempts[k].mapping \in DOMAIN items'
                                            /\ items'[attempts[k].mapping].state = "confirmed"
              /\ attempts[k].outcome = "eligible_again" => IsResult("stock", attempts[k].target)'
      BY <1>2, <1>4 DEF AttemptsHold, ItemsStand
    <2>2. \A x \in results' \ results : \A k \in DOMAIN attempts : ~Closes(k, Key(x))
      <3> SUFFICES ASSUME NEW x \in results' \ results, NEW k \in DOMAIN attempts,
                          Closes(k, Key(x))
                   PROVE  FALSE
        OBVIOUS
      <3>1. PICK z \in results : Key(z) = Key(x)
        BY DEF Closes, AttemptsHold, IsResult
      <3>2. z = x
        BY <3>1, <1>1 DEF ResultsHold, Key
      <3> QED  BY <3>1, <3>2
    <2>3. \A x \in results' : runs'[x.run].kind = "stock" =>
              /\ x.state = "open" => \A k \in DOMAIN attempts : ~Closes(k, Key(x))
              /\ x.state = "repaired" => \E k \in DOMAIN attempts : Closes(k, Key(x))
              /\ \A j, k \in DOMAIN attempts : Closes(j, Key(x)) /\ Closes(k, Key(x)) => j = k
      BY <1>1, <2>2 DEF AttemptsHold, ResultsAdded
    <2>4. \A k \in DOMAIN attempts' :
              /\ attempts'[k].mapping # 0 => /\ attempts'[k].mapping \in DOMAIN items'
                                             /\ items'[attempts'[k].mapping].state = "confirmed"
              /\ attempts'[k].outcome = "eligible_again" => IsResult("stock", attempts[k].target)'
      BY <2>1
    <2>5. \A k, key : Closes(k, key)' = Closes(k, key)
      BY DEF Closes
    <2>6. attempts' \in Seq(AttemptRow)
      BY DEF AttemptsHold
    <2> QED  BY <2>3, <2>4, <2>5, <2>6 DEF AttemptsHold, IsResult, Key
  <1> QED  BY <1>5, <1>6

\* What a repair of a target may ask for.
Asked(target, p, r) ==
    /\ r \in RepairRequest
    /\ r.at = "repair" /\ r.target = target /\ r.product = p
    /\ r.kind = "confirm" => r.mapping = 0 \/ r.mapping \in DOMAIN items
    /\ r.kind # "confirm" => r.ref \in Refs

\* What a repair endpoint asks for is such a request.
LEMMA RepairRequestsType ==
    ASSUME items \in Seq(ItemMapRow), NEW target \in ResultRow \cup Products, NEW p \in Products,
           NEW r \in RepairRequests(target, p)
    PROVE  Asked(target, p, r)
  <1>1. CASE \E i \in {0} \cup DOMAIN items :
            r = [at |-> "repair", target |-> target, kind |-> "confirm", product |-> p,
                 mapping |-> i, version |-> 1, ref |-> None]
    <2>1. \A i \in {0} \cup DOMAIN items : i \in Nat
      BY LenProperties
    <2> QED  BY <1>1, <2>1 DEF Asked, RepairRequest
  <1>2. CASE \E name \in Refs :
            r = [at |-> "repair", target |-> target, kind |-> "suggest_confirm", product |-> p,
                 mapping |-> 0, version |-> 0, ref |-> name]
    BY <1>2 DEF Asked, RepairRequest
  <1> QED  BY <1>1, <1>2 DEF RepairRequests

\* What is known of attempts speaks of nothing else than the tables.
LEMMA AttemptsSame ==
    ASSUME AttemptsHold, UNCHANGED <<items, runs, results, attempts>>
    PROVE  AttemptsHold'
  <1>1. attempts' \in Seq(AttemptRow)
    BY DEF AttemptsHold
  <1>2. (\A k \in DOMAIN attempts :
          /\ attempts[k].mapping # 0 =>
              /\ attempts[k].mapping \in DOMAIN items
              /\ items[attempts[k].mapping].state = "confirmed"
          /\ attempts[k].outcome = "eligible_again" => IsResult("stock", attempts[k].target))'
    BY DEF AttemptsHold, IsResult, Key
  <1>3. (\A x \in results : runs[x.run].kind = "stock" =>
          /\ x.state = "open" => \A k \in DOMAIN attempts : ~Closes(k, Key(x))
          /\ x.state = "repaired" => \E k \in DOMAIN attempts : Closes(k, Key(x))
          /\ \A k, l \in DOMAIN attempts : Closes(k, Key(x)) /\ Closes(l, Key(x)) => k = l)'
    <2> SUFFICES ASSUME NEW x \in results, runs[x.run].kind = "stock"
                 PROVE  (/\ x.state = "open" => \A k \in DOMAIN attempts : ~Closes(k, Key(x))
                         /\ x.state = "repaired" => \E k \in DOMAIN attempts : Closes(k, Key(x))
                         /\ \A k, l \in DOMAIN attempts :
                              Closes(k, Key(x)) /\ Closes(l, Key(x)) => k = l)'
      OBVIOUS
    <2>1. \A k : Closes(k, Key(x))' <=> Closes(k, Key(x))
      BY DEF Closes, Key
    <2>2. /\ x.state = "open" => \A k \in DOMAIN attempts : ~Closes(k, Key(x))
          /\ x.state = "repaired" => \E k \in DOMAIN attempts : Closes(k, Key(x))
          /\ \A k, l \in DOMAIN attempts : Closes(k, Key(x)) /\ Closes(l, Key(x)) => k = l
      BY DEF AttemptsHold
    <2> QED  BY <2>1, <2>2
  <1> QED  BY <1>1, <1>2, <1>3 DEF AttemptsHold

\* A repair that begins: the request is what was asked for, and the repair of a
\* stock result has the lock alone and has read the state the result has.
LEMMA RepairBeginsKeeps ==
    ASSUME ItemsConfirmedOnce, ResultsHold, RepairsHold, AttemptsHold, TriggersHold,
           NEW c \in Clients,
           RepairBacklogItem(c) \/ RepairResult(c) \/ RepairStock(c)
    PROVE  RepairsHold' /\ AttemptsHold'
  <1>0. DOMAIN req = Clients
    BY DEF TriggersHold
  <1>b. items \in Seq(ItemMapRow)
    BY DEF ItemsConfirmedOnce
  <1>1. UNCHANGED <<items, runs, results, attempts>>
    BY DEF RepairBacklogItem, RepairResult, RepairStock, maps
  <1>2. AttemptsHold'
    BY <1>1, AttemptsSame
  <1>3. PICK r : req' = [req EXCEPT ![c] = r] /\ At(c, "idle")
    BY DEF RepairBacklogItem, RepairResult, RepairStock, Begin
  <1>4. req'[c] = r /\ \A d \in Clients \ {c} : req'[d] = req[d]
    BY <1>0, <1>3
  <1>a. \A q : (Asks(q)' <=> Asks(q)) /\ (Sees(q)' <=> Sees(q))
    BY <1>1 DEF Asks, Sees, IsResult, Key
  <1>5. CASE r.at = "stock" /\ Sees(r) /\ \A d \in Clients : At(d, "stock") => req[d].target # r.target
    <2>1. Asks(r)
      BY <1>5 DEF Asks
    <2>2. \A d \in Clients : (Asks(req[d]) /\ Sees(req[d]))'
      BY <1>4, <1>5, <1>a, <2>1 DEF RepairsHold
    <2>3. \A d, e \in Clients :
              req'[d].at = "stock" /\ req'[e].at = "stock" /\ req'[d].target = req'[e].target
                  => d = e
      BY <1>4, <1>5 DEF RepairsHold, At
    <2> QED  BY <1>2, <2>2, <2>3 DEF RepairsHold, At
  <1>6. CASE r.at = "repair" /\ Asks(r)
    <2>1. Sees(r)
      BY <1>6 DEF Sees
    <2>2. \A d \in Clients : (Asks(req[d]) /\ Sees(req[d]))'
      BY <1>4, <1>6, <1>a, <2>1 DEF RepairsHold
    <2>3. \A d, e \in Clients :
              req'[d].at = "stock" /\ req'[e].at = "stock" /\ req'[d].target = req'[e].target
                  => d = e
      BY <1>4, <1>6 DEF RepairsHold, At
    <2> QED  BY <1>2, <2>2, <2>3 DEF RepairsHold, At
  <1>7. CASE RepairStock(c)
    <2>1. PICK key \in Results("stock") :
              Unlocked(key) /\ Begin(c, [at |-> "stock", target |-> key, saw |-> StateOf(key)])
      BY <1>7 DEF RepairStock
    <2>2. PICK x \in results : Key(x) = key /\ runs[x.run].kind = "stock"
      BY <2>1 DEF Results
    <2>3. StateOf(key) = x.state
      <3>1. \A y \in results : Key(y) = key => y = x
        BY <2>2 DEF ResultsHold
      <3> QED  BY <2>2, <3>1 DEF StateOf
    <2>4. r.at = "stock" /\ r.target = key /\ r.saw = x.state
      BY <1>0, <1>4, <2>1, <2>3 DEF Begin
    <2>5. \A d \in Clients : At(d, "stock") => req[d].target # key
      BY <2>1 DEF Unlocked, At
    <2>6. Sees(r)
      BY <2>2, <2>4 DEF Sees
    <2> QED  BY <1>5, <2>4, <2>5, <2>6
  <1>8. CASE RepairBacklogItem(c)
    <2>1. PICK p \in Products : \E q \in RepairRequests(p, p) : Begin(c, q)
      BY <1>8 DEF RepairBacklogItem, Backlog
    <2>2. r \in RepairRequests(p, p)
      BY <1>0, <1>4, <2>1 DEF Begin
    <2>3. Asked(p, p, r)
      BY <1>b, <2>2, RepairRequestsType
    <2> QED  BY <1>6, <2>3 DEF Asked, Asks
  <1>9. CASE RepairResult(c)
    <2>1. PICK key \in Results("product") :
              key.product # None /\ \E q \in RepairRequests(key, key.product) : Begin(c, q)
      BY <1>9 DEF RepairResult
    <2>2. PICK p : p = key.product
      OBVIOUS
    <2>3. r \in RepairRequests(key, p)
      BY <1>0, <1>4, <2>1, <2>2 DEF Begin
    <2>5. PICK x \in results : Key(x) = key /\ runs[x.run].kind = "product"
      BY <2>1 DEF Results
    <2>6. key \in ResultRow
      BY <2>5, ClosedRow DEF ResultsHold
    <2>7. p \in Products
      BY <2>1, <2>2, <2>6 DEF ResultRow
    <2>8. IsResult("product", key)
      BY <2>5 DEF IsResult
    <2>9. Asked(key, p, r)
      BY <1>b, <2>3, <2>6, <2>7, RepairRequestsType
    <2> QED  BY <1>6, <2>8, <2>9 DEF Asked, Asks
  <1> QED  BY <1>2, <1>7, <1>8, <1>9

\* A conflict is answered by a second statement, for the same request.
LEMMA RepairConflictsKeeps ==
    ASSUME RepairsHold, AttemptsHold, TriggersHold, NEW c \in Clients, RepairConflicts(c)
    PROVE  RepairsHold' /\ AttemptsHold'
  <1>0. DOMAIN req = Clients
    BY DEF TriggersHold
  <1>1. UNCHANGED <<items, runs, results, attempts>>
    BY DEF RepairConflicts, maps
  <1>2. AttemptsHold'
    BY <1>1, AttemptsSame
  <1>3. PICK r : r = [req[c] EXCEPT !.at = "echo"]
    OBVIOUS
  <1>4. req' = [req EXCEPT ![c] = r]
    BY <1>3 DEF RepairConflicts
  <1>5. req'[c] = r /\ \A d \in Clients \ {c} : req'[d] = req[d]
    BY <1>0, <1>4
  <1>6. /\ req[c].at = "repair" /\ req[c] \in RepairRequest /\ Asks(req[c])
        /\ req[c].kind = "confirm" => req[c].mapping # 0
    BY DEF RepairConflicts, At, RepairsHold, Asks
  <1>7. /\ r \in RepairRequest /\ r.at = "echo" /\ r.target = req[c].target
        /\ r.kind = req[c].kind /\ r.mapping = req[c].mapping /\ r.ref = req[c].ref
    BY <1>3, <1>6 DEF RepairRequest
  <1>8. Asks(r) /\ Sees(r)
    BY <1>6, <1>7 DEF Asks, Sees
  <1>9. \A q : (Asks(q)' <=> Asks(q)) /\ (Sees(q)' <=> Sees(q))
    BY <1>1 DEF Asks, Sees, IsResult, Key
  <1>10. \A d \in Clients : (Asks(req[d]) /\ Sees(req[d]))'
    BY <1>5, <1>8, <1>9 DEF RepairsHold
  <1>11. \A d, e \in Clients :
            req'[d].at = "stock" /\ req'[e].at = "stock" /\ req'[d].target = req'[e].target
                => d = e
    BY <1>5, <1>7 DEF RepairsHold, At
  <1> QED  BY <1>2, <1>10, <1>11 DEF RepairsHold, At

\* An attempt is added; the ones before it stay.
LEMMA AttemptAdded ==
    ASSUME attempts \in Seq(AttemptRow), NEW row \in AttemptRow,
           attempts' = Append(attempts, row)
    PROVE  /\ attempts' \in Seq(AttemptRow)
           /\ Len(attempts) + 1 \notin DOMAIN attempts
           /\ DOMAIN attempts' = DOMAIN attempts \cup {Len(attempts) + 1}
           /\ \A k \in DOMAIN attempts : attempts'[k] = attempts[k]
           /\ attempts'[Len(attempts) + 1] = row
  <1>1. DOMAIN attempts = 1 .. Len(attempts) /\ Len(attempts) \in Nat
    BY LenProperties
  <1>2. /\ attempts' \in Seq(AttemptRow)
        /\ Len(attempts') = Len(attempts) + 1
        /\ \A k \in 1 .. Len(attempts) : attempts'[k] = attempts[k]
        /\ attempts'[Len(attempts) + 1] = row
    BY AppendProperties
  <1>3. DOMAIN attempts' = 1 .. Len(attempts) + 1
    BY <1>2, LenProperties
  <1> QED  BY <1>1, <1>2, <1>3

\* Closing a result leaves every result known by its key and the others as they are.
LEMMA ResultClosedStands ==
    ASSUME ResultsHold, NEW key, ResultClosed(key)
    PROVE  /\ results' = {After(key, x) : x \in results}
           /\ \A x \in results : After(key, x) \in results'
           /\ \A x \in results : Key(x) # key => x \in results'
           /\ \A x \in results' : Key(x) # key => x \in results
           /\ \A x \in results' : \E z \in results : x = After(key, z)
  <1>1. results' = {After(key, x) : x \in results}
    BY DEF ResultClosed, After
  <1>2. \A x \in results : Key(After(key, x)) = Key(x)
    BY AfterRow DEF ResultsHold
  <1>3. \A x \in results : Key(x) # key => After(key, x) = x
    BY DEF After
  <1> QED  BY <1>1, <1>2, <1>3

\* Results keep their keys and their runs.
LEMMA ClosedIsResult ==
    ASSUME ResultsHold, runs' = runs, NEW key, results' = results \/ ResultClosed(key),
           NEW kind, NEW other, IsResult(kind, other)
    PROVE  IsResult(kind, other)'
  <1>1. PICK x \in results : Key(x) = other /\ runs[x.run].kind = kind
    BY DEF IsResult
  <1>2. CASE results' = results
    BY <1>1, <1>2 DEF IsResult, Key
  <1>3. CASE ResultClosed(key)
    <2>1. After(key, x) \in results'
      BY <1>3, ResultClosedStands
    <2>2. Key(After(key, x)) = other /\ After(key, x).run = x.run
      BY <1>1, AfterRow DEF ResultsHold
    <2>3. \E y \in results' : Key(y) = other /\ runs'[y.run].kind = kind
      BY <1>1, <2>1, <2>2
    <2> QED  BY <2>3 DEF IsResult, Key
  <1> QED  BY <1>2, <1>3

\* The repair of a product or of a product run's result leaves stock results alone.
LEMMA StockResultsStand ==
    ASSUME ResultsHold, NEW key, key \in Products \/ IsResult("product", key),
           results' = results \/ ResultClosed(key), NEW x, runs[x.run].kind = "stock"
    PROVE  x \in results <=> x \in results'
  <1>1. CASE results' = results
    BY <1>1
  <1>2. CASE ResultClosed(key)
    <2>1. \A z \in results : runs[z.run].kind = "stock" => Key(z) # key
      <3> SUFFICES ASSUME NEW z \in results, runs[z.run].kind = "stock", Key(z) = key
                   PROVE  FALSE
        OBVIOUS
      <3>1. Key(z) \in ResultRow
        BY ClosedRow DEF ResultsHold
      <3>2. IsResult("product", key)
        BY <3>1, RowAssumption
      <3>3. PICK y \in results : Key(y) = key /\ runs[y.run].kind = "product"
        BY <3>2 DEF IsResult
      <3>4. y = z
        BY <3>3 DEF ResultsHold
      <3> QED  BY <3>3, <3>4
    <2>2. x \in results => x \in results'
      BY <1>2, <2>1, ResultClosedStands
    <2>3. x \in results' => x \in results
      <3> SUFFICES ASSUME x \in results'  PROVE x \in results
        OBVIOUS
      <3>1. PICK z \in results : x = After(key, z)
        BY <1>2, ResultClosedStands
      <3>2. x.run = z.run
        BY <3>1, AfterRow DEF ResultsHold
      <3>3. Key(z) # key
        BY <3>2, <2>1
      <3> QED  BY <3>1, <3>3 DEF After
    <2> QED  BY <2>2, <2>3
  <1> QED  BY <1>1, <1>2

\* A repair of a mapping ends: its attempt names a mapping that is confirmed, or none.
LEMMA RecordedKeeps ==
    ASSUME ResultsHold, RepairsHold, AttemptsHold, TriggersHold, ItemsStand,
           NEW c \in Clients, req[c].at \in {"repair", "echo"},
           NEW i, NEW outcome \in Outcome, outcome # "eligible_again",
           i = 0 \/ (i \in Nat /\ i \in DOMAIN items' /\ items'[i].state = "confirmed"),
           Recorded(c, i, outcome)
    PROVE  RepairsHold' /\ AttemptsHold'
  <1>0. DOMAIN req = Clients /\ attempts \in Seq(AttemptRow)
    BY DEF TriggersHold, AttemptsHold
  <1>1. PICK key : key = req[c].target
    OBVIOUS
  <1>2. /\ key \in ResultRow \cup Products
        /\ key \in Products \/ IsResult("product", key)
    BY <1>1 DEF RepairsHold, Asks, RepairRequest
  <1>3. results' = results \/ ResultClosed(key)
    BY <1>1, RecordedCloses
  <1>4. runs' = runs /\ req' = [req EXCEPT ![c] = Idle]
    BY DEF Recorded, Finish
  <1>5. req'[c] = Idle /\ \A d \in Clients \ {c} : req'[d] = req[d]
    BY <1>0, <1>4
  <1>6. \A kind, other : IsResult(kind, other) => IsResult(kind, other)'
    BY <1>3, <1>4, ClosedIsResult
  <1>7. \A x : runs[x.run].kind = "stock" => (x \in results <=> x \in results')
    BY <1>2, <1>3, StockResultsStand
  <1>8. RepairsHold'
    <2>1. \A r : Asks(r) => Asks(r)'
      BY <1>6 DEF Asks, ItemsStand
    <2>2. \A r : Sees(r) => Sees(r)'
      BY <1>4, <1>7 DEF Sees, Key
    <2>3. (Asks(req[c]) /\ Sees(req[c]))'
      BY <1>5 DEF Asks, Sees, Idle
    <2>4. \A d \in Clients \ {c} : (Asks(req[d]) /\ Sees(req[d]))'
      BY <1>5, <2>1, <2>2 DEF RepairsHold
    <2>5. \A d, e \in Clients :
              req'[d].at = "stock" /\ req'[e].at = "stock" /\ req'[d].target = req'[e].target
                  => d = e
      BY <1>5 DEF RepairsHold, At, Idle
    <2> QED  BY <2>3, <2>4, <2>5 DEF RepairsHold, At
  <1>9. AttemptsHold'
    <2> DEFINE row == [target |-> key, mapping |-> i, outcome |-> outcome]
    <2>1. row \in AttemptRow /\ row.mapping = i /\ row.outcome # "eligible_again"
      BY <1>2 DEF AttemptRow
    <2>2. attempts' = Append(attempts, row)
      BY <1>1 DEF Recorded
    <2> HIDE DEF row
    <2>3. PICK last : last = Len(attempts) + 1
      OBVIOUS
    <2>4. /\ attempts' \in Seq(AttemptRow)
          /\ last \notin DOMAIN attempts
          /\ DOMAIN attempts' = DOMAIN attempts \cup {last}
          /\ \A k \in DOMAIN attempts : attempts'[k] = attempts[k]
          /\ attempts'[last] = row
      BY <1>0, <2>1, <2>2, <2>3, AttemptAdded
    <2>5. \A k \in DOMAIN attempts' :
              /\ attempts'[k].mapping # 0 => /\ attempts'[k].mapping \in DOMAIN items'
                                             /\ items'[attempts'[k].mapping].state = "confirmed"
              /\ attempts'[k].outcome = "eligible_again" => IsResult("stock", attempts[k].target)'
      BY <1>6, <2>1, <2>4 DEF AttemptsHold, ItemsStand
    <2>6. \A k \in DOMAIN attempts' : \A other :
              Closes(k, other)' <=> k \in DOMAIN attempts /\ Closes(k, other)
      BY <2>1, <2>4 DEF Closes
    <2>7. \A x \in results' : runs'[x.run].kind = "stock" =>
              /\ x.state = "open" => \A k \in DOMAIN attempts : ~Closes(k, Key(x))
              /\ x.state = "repaired" => \E k \in DOMAIN attempts : Closes(k, Key(x))
              /\ \A j, k \in DOMAIN attempts : Closes(j, Key(x)) /\ Closes(k, Key(x)) => j = k
      BY <1>4, <1>7 DEF AttemptsHold
    <2>8. \A x \in results' : runs'[x.run].kind = "stock" =>
              /\ x.state = "open" => \A k \in DOMAIN attempts' : ~Closes(k, Key(x))'
              /\ x.state = "repaired" => \E k \in DOMAIN attempts' : Closes(k, Key(x))'
              /\ \A j, k \in DOMAIN attempts' : Closes(j, Key(x))' /\ Closes(k, Key(x))' => j = k
      BY <2>4, <2>6, <2>7
    <2> QED  BY <2>4, <2>5, <2>8 DEF AttemptsHold, IsResult
  <1> QED  BY <1>8, <1>9

\* The four ways a repair of a mapping ends.
LEMMA RepairEndsKeeps ==
    ASSUME ItemsConfirmedOnce, ResultsHold, RepairsHold, AttemptsHold, TriggersHold,
           ItemsStand, NEW c \in Clients,
           RepairConfirms(c) \/ RepairFindsNothing(c) \/ RepairSuggests(c) \/ RepairEchoes(c)
    PROVE  RepairsHold' /\ AttemptsHold'
  <1>0. items \in Seq(ItemMapRow) /\ DOMAIN items = 1 .. Len(items) /\ Len(items) \in Nat
    BY LenProperties DEF ItemsConfirmedOnce
  <1>1. Asks(req[c])
    BY DEF RepairsHold
  <1> DEFINE Ends(i, outcome) ==
        /\ outcome \in Outcome /\ outcome # "eligible_again"
        /\ i = 0 \/ (i \in Nat /\ i \in DOMAIN items' /\ items'[i].state = "confirmed")
        /\ req[c].at \in {"repair", "echo"}
        /\ Recorded(c, i, outcome)
  <1>2. CASE RepairConfirms(c)
    <2>1. PICK i : i = req[c].mapping
      OBVIOUS
    <2>2. /\ i \in DOMAIN items /\ Confirmable(i, req[c].version)
          /\ items' = [items EXCEPT ![i] = Confirmed(@)]
          /\ Recorded(c, i, "mapped") /\ req[c].at = "repair"
      BY <1>1, <1>2, <2>1 DEF RepairConfirms, At, Asks
    <2>3. items'[i].state = "confirmed" /\ i \in DOMAIN items' /\ i \in Nat
      <3>1. PICK v : v = req[c].version
        OBVIOUS
      <3>2. Confirmable(i, v) /\ i \in DOMAIN items
        BY <2>2, <3>1
      <3>3. items' = [items EXCEPT ![i] = Confirmed(@)]
        BY <2>2
      <3>4. items'[i].state = "confirmed" /\ ItemsStand
        BY <3>2, <3>3, ConfirmKeeps
      <3> QED  BY <1>0, <3>2, <3>4 DEF ItemsStand
    <2>4. Ends(i, "mapped")
      BY <2>2, <2>3 DEF Outcome
    <2> HIDE DEF Ends
    <2> QED  BY <2>4, RecordedKeeps DEF Ends
  <1>3. CASE RepairFindsNothing(c)
    BY <1>3, RecordedKeeps DEF RepairFindsNothing, At, Outcome
  <1>4. CASE RepairSuggests(c)
    <2>1. req[c].product \in Products /\ req[c].ref \in Refs /\ req[c].at = "repair"
      BY <1>1, <1>4 DEF RepairSuggests, At, Asks, RepairRequest
    <2>2. PICK row \in ItemMapRow :
              /\ row = Suggestion(req[c].product, req[c].ref)
              /\ row.state = "suggested" /\ row.confirms = 0
      BY <2>1, SuggestionRow
    <2>3. PICK new \in ItemMapRow :
              /\ new = Confirmed(row)
              /\ new.state = "confirmed" /\ new.confirms = 1
              /\ new.confirmed <= Len(items) + 1
      BY <1>0, <2>2, ConfirmedRow
    <2>4. items' = Append(items, new)
      BY <1>4, <2>2, <2>3 DEF RepairSuggests
    <2>5. PICK i \in Nat : i = Len(items) + 1
      BY <1>0
    <2>6. i \in DOMAIN items' /\ items'[i] = new
      BY <2>3, <2>4, <2>5, ItemAdded
    <2>7. Recorded(c, i, "mapped")
      BY <1>4, <2>5 DEF RepairSuggests
    <2>8. Ends(i, "mapped")
      BY <2>1, <2>3, <2>6, <2>7 DEF Outcome
    <2> HIDE DEF Ends
    <2> QED  BY <2>8, RecordedKeeps DEF Ends
  <1>5. CASE RepairEchoes(c)
    <2>1. items' = items /\ req[c].at = "echo"
      BY <1>5 DEF RepairEchoes, At
    <2>2. \/ Recorded(c, 0, "conflict")
          \/ \E i \in DOMAIN items : ConfirmedItem(i) /\ Recorded(c, i, "no_op_echo")
      <3>1. CASE req[c].kind = "confirm"
        <4>1. req[c].mapping \in DOMAIN items
          BY <1>1, <2>1, <3>1 DEF Asks
        <4> QED  BY <1>5, <3>1, <4>1 DEF RepairEchoes
      <3>2. CASE req[c].kind # "confirm"
        BY <1>5, <3>2 DEF RepairEchoes, ConfirmedOf, ActiveOf
      <3> QED  BY <3>1, <3>2
    <2>3. CASE Recorded(c, 0, "conflict")
      BY <2>1, <2>3, RecordedKeeps DEF Outcome
    <2>4. ASSUME NEW i \in DOMAIN items, ConfirmedItem(i), Recorded(c, i, "no_op_echo")
          PROVE  RepairsHold' /\ AttemptsHold'
      <3>1. Ends(i, "no_op_echo")
        BY <1>0, <2>1, <2>4 DEF ConfirmedItem, Outcome
      <3> HIDE DEF Ends
      <3> QED  BY <3>1, RecordedKeeps DEF Ends
    <2> QED  BY <2>2, <2>3, <2>4
  <1> QED  BY <1>2, <1>3, <1>4, <1>5

\* A stock result is closed by the repair that saw it open, and by it alone.
LEMMA CloseStockKeeps ==
    ASSUME ResultsHold, RepairsHold, AttemptsHold, TriggersHold, NEW c \in Clients,
           CloseStock(c)
    PROVE  RepairsHold' /\ AttemptsHold'
  <1>0. DOMAIN req = Clients /\ attempts \in Seq(AttemptRow)
    BY DEF TriggersHold, AttemptsHold
  <1>1. PICK key : key = req[c].target
    OBVIOUS
  <1>2. PICK x \in results :
            Key(x) = key /\ x.state = req[c].saw /\ runs[x.run].kind = "stock"
    BY <1>1 DEF CloseStock, At, RepairsHold, Sees
  <1>3. x \in ResultRow /\ key \in ResultRow
    BY <1>2, ClosedRow DEF ResultsHold
  <1>4. x.state \in {"open", "repaired"}
    BY <1>3 DEF ResultRow
  <1>5. PICK outcome \in {"eligible_again", "no_op_echo"} :
            /\ outcome = "eligible_again" <=> x.state = "open"
            /\ attempts' = Append(attempts, [target |-> key, mapping |-> 0, outcome |-> outcome])
    BY <1>1, <1>2, <1>4 DEF CloseStock
  <1>6. /\ ResultClosed(key) /\ UNCHANGED <<runs, items>>
        /\ req' = [req EXCEPT ![c] = Idle] /\ req[c].at = "stock"
    BY <1>1 DEF CloseStock, ResultClosed, Finish, At, maps
  <1>7. req'[c] = Idle /\ \A d \in Clients \ {c} : req'[d] = req[d]
    BY <1>0, <1>6
  <1>8. \A kind, other : IsResult(kind, other) => IsResult(kind, other)'
    BY <1>6, ClosedIsResult
  <1>9. RepairsHold'
    <2>1. \A r : Asks(r) => Asks(r)'
      BY <1>6, <1>8 DEF Asks
    <2>2. \A r : Sees(r) /\ r.target # key => Sees(r)'
      BY <1>6, ResultClosedStands DEF Sees, Key
    <2>3. (Asks(req[c]) /\ Sees(req[c]))'
      BY <1>7 DEF Asks, Sees, Idle
    <2>4. ASSUME NEW d \in Clients \ {c}  PROVE (Asks(req[d]) /\ Sees(req[d]))'
      <3>1. req[d].at = "stock" => req[d].target # key
        BY <1>1, <1>6 DEF RepairsHold, At
      <3>2. req[d].at # "stock" => Sees(req[d])'
        BY <1>7 DEF Sees
      <3>3. Asks(req[d]) /\ Sees(req[d])
        BY DEF RepairsHold
      <3>4. PICK r : r = req[d]
        OBVIOUS
      <3>5. Asks(r)' /\ (r.at = "stock" => Sees(r)')
        BY <2>1, <2>2, <3>1, <3>3, <3>4
      <3> QED  BY <1>7, <3>2, <3>4, <3>5
    <2>5. \A d, e \in Clients :
              req'[d].at = "stock" /\ req'[e].at = "stock" /\ req'[d].target = req'[e].target
                  => d = e
      BY <1>7 DEF RepairsHold, At, Idle
    <2> QED  BY <2>3, <2>4, <2>5 DEF RepairsHold, At
  <1>10. AttemptsHold'
    <2> DEFINE row == [target |-> key, mapping |-> 0, outcome |-> outcome]
    <2>1. row \in AttemptRow /\ row.mapping = 0 /\ row.target = key /\ row.outcome = outcome
      BY <1>3 DEF AttemptRow, Outcome
    <2>2. attempts' = Append(attempts, row)
      BY <1>5
    <2> HIDE DEF row
    <2>3. PICK last : last = Len(attempts) + 1
      OBVIOUS
    <2>4. /\ attempts' \in Seq(AttemptRow)
          /\ last \notin DOMAIN attempts
          /\ DOMAIN attempts' = DOMAIN attempts \cup {last}
          /\ \A k \in DOMAIN attempts : attempts'[k] = attempts[k]
          /\ attempts'[last] = row
      BY <1>0, <2>1, <2>2, <2>3, AttemptAdded
    <2>5. IsResult("stock", key)
      BY <1>2 DEF IsResult
    <2>6. \A k \in DOMAIN attempts' :
              /\ attempts'[k].mapping # 0 => /\ attempts'[k].mapping \in DOMAIN items'
                                             /\ items'[attempts'[k].mapping].state = "confirmed"
              /\ attempts'[k].outcome = "eligible_again" => IsResult("stock", attempts[k].target)'
      BY <1>6, <1>8, <2>1, <2>4, <2>5 DEF AttemptsHold
    <2>7. \A k \in DOMAIN attempts : \A other : Closes(k, other)' <=> Closes(k, other)
      BY <2>4 DEF Closes
    <2>8. \A other : Closes(last, other)' <=> other = key /\ outcome = "eligible_again"
      BY <2>1, <2>4 DEF Closes
    <2>9. ASSUME NEW y \in results', runs'[y.run].kind = "stock"
          PROVE  /\ y.state = "open" => \A k \in DOMAIN attempts' : ~Closes(k, Key(y))'
                 /\ y.state = "repaired" => \E k \in DOMAIN attempts' : Closes(k, Key(y))'
                 /\ \A j, k \in DOMAIN attempts' : Closes(j, Key(y))' /\ Closes(k, Key(y))' => j = k
      <3>1. PICK z \in results : y = After(key, z)
        BY <1>6, ResultClosedStands
      <3>2. /\ Key(y) = Key(z) /\ y.run = z.run
            /\ y.state = IF Key(z) = key THEN "repaired" ELSE z.state
        BY <3>1, AfterRow DEF ResultsHold
      <3>3. runs[z.run].kind = "stock"
        BY <1>6, <2>9, <3>2
      <3>4. /\ z.state = "open" => \A k \in DOMAIN attempts : ~Closes(k, Key(y))
            /\ z.state = "repaired" => \E k \in DOMAIN attempts : Closes(k, Key(y))
            /\ \A j, k \in DOMAIN attempts : Closes(j, Key(y)) /\ Closes(k, Key(y)) => j = k
        BY <3>2, <3>3 DEF AttemptsHold
      <3>5. CASE Key(z) # key
        BY <2>4, <2>7, <2>8, <3>2, <3>4, <3>5
      <3>6. CASE Key(z) = key
        <4>1. z = x /\ Key(y) = key /\ y.state = "repaired"
          BY <1>2, <3>2, <3>6 DEF ResultsHold
        <4>2. CASE x.state = "open"
          <5>1. outcome = "eligible_again" /\ \A k \in DOMAIN attempts : ~Closes(k, key)
            BY <1>5, <3>4, <4>1, <4>2
          <5>2. \A k \in DOMAIN attempts' : Closes(k, key)' <=> k = last
            BY <2>4, <2>7, <2>8, <5>1
          <5> QED  BY <2>4, <4>1, <5>2
        <4>3. CASE x.state = "repaired"
          <5>1. outcome # "eligible_again"
            BY <1>5, <4>3
          <5> QED  BY <2>4, <2>7, <2>8, <3>4, <4>1, <4>3, <5>1
        <4> QED  BY <1>4, <4>2, <4>3
      <3> QED  BY <3>5, <3>6
    <2> QED  BY <2>4, <2>6, <2>9 DEF AttemptsHold, IsResult
  <1> QED  BY <1>9, <1>10

-----------------------------------------------------------------------------
(* The theorems.                                                             *)

\* A behaviour starts from tables that hold it.
LEMMA ErpOpsStarts == Init => ErpOpsInvariant
  <1> SUFFICES ASSUME Init  PROVE ErpOpsInvariant
    OBVIOUS
  <1> USE DEF Init
  <1>1. ItemsConfirmedOnce
    <2>1. /\ items \in Seq(ItemMapRow)
          /\ \A i \in DOMAIN items :
              /\ items[i].confirmed <= Len(items)
              /\ items[i].confirms = IF items[i].state = "confirmed" THEN 1 ELSE 0
      BY RowAssumption
    <2>2. \A i \in DOMAIN items : items[i] \in ItemMapRow
      BY <2>1, ElementOfSeq, LenProperties
    <2>3. \A i \in DOMAIN items : items[i].confirmed \in Nat
      BY <2>2 DEF ItemMapRow
    <2>4. Len(items) \in Nat
      BY <2>1, LenProperties
    <2> QED  BY <2>1, <2>3, <2>4 DEF ItemsConfirmedOnce
  <1>2. WarehousesTyped
    BY RowAssumption DEF WarehousesTyped
  <1>3. OlderRevoked
    <2>1. creds \in Seq(CredentialRow)
      BY RowAssumption
    <2>2. DOMAIN creds = 1 .. Len(creds) /\ Len(creds) \in Nat
      BY <2>1, LenProperties
    <2> QED  BY <2>1, <2>2 DEF OlderRevoked
  <1>4. DOMAIN runs = {} /\ runs \in Seq(RunRow) /\ DOMAIN attempts = {}
        /\ attempts \in Seq(AttemptRow)
    BY EmptySeq
  <1>5. TriggersHold /\ WorkersHold
    BY DEF TriggersHold, WorkersHold, Processing, At, Idle
  <1>6. RunsHold /\ ResultsHold
    BY <1>4 DEF RunsHold, ResultsHold
  <1>7. RepairsHold
    BY DEF RepairsHold, Asks, Sees, At, Idle
  <1>8. AttemptsHold
    BY <1>4 DEF AttemptsHold
  <1> QED  BY <1>1, <1>2, <1>3, <1>5, <1>6, <1>7, <1>8 DEF ErpOpsInvariant

\* Every step keeps the invariant.
LEMMA ErpOpsStep ==
    ASSUME ErpOpsInvariant, [Next]_vars
    PROVE  ErpOpsInvariant'
  <1>1. /\ ItemsConfirmedOnce /\ WarehousesTyped /\ OlderRevoked /\ TriggersHold
        /\ WorkersHold /\ RunsHold /\ ResultsHold /\ RepairsHold /\ AttemptsHold
    BY DEF ErpOpsInvariant
  <1>2. ItemsConfirmedOnce' /\ ItemsStand
    BY <1>1, ItemsConfirmedOnceKeeps
  <1>3. WarehousesTyped' /\ OlderRevoked'
    BY <1>1, WarehousesTypedKeeps, OlderRevokedKeeps
  <1>4. TriggersHold' /\ WorkersHold' /\ RunsHold' /\ ResultsHold' /\ RunsStand
    BY <1>1, RunsInvariantKeeps DEF RunsInvariant
  <1>5. RepairsHold' /\ AttemptsHold'
    <2>1. CASE attempts' = attempts /\ ResultsAdded /\ NoRepair
      <3>1. DOMAIN req = Clients
        BY <1>1 DEF TriggersHold
      <3> QED  BY <1>1, <1>2, <1>4, <2>1, <3>1, AsideKeeps
    <2>2. ASSUME NEW c \in Clients, RepairStep(c)  PROVE RepairsHold' /\ AttemptsHold'
      BY <1>1, <1>2, <2>2, RepairBeginsKeeps, RepairConflictsKeeps, RepairEndsKeeps,
         CloseStockKeeps DEF RepairStep
    <2> QED  BY <2>1, <2>2, RepairWriters
  <1> QED  BY <1>2, <1>3, <1>4, <1>5 DEF ErpOpsInvariant

\* The operations of the back office keep ErpOpsInvariant, for any products, stores,
\* reports, workers and operators and any number of runs, repairs and credentials.
THEOREM ErpOpsInvariantHolds == Spec => []ErpOpsInvariant
  <1>1. ErpOpsInvariant /\ [Next]_vars => ErpOpsInvariant'
    BY ErpOpsStep
  <1> QED  BY ErpOpsStarts, <1>1, PTL DEF Spec

\* A reconciliation run is reported once: however often its events are delivered and
\* to however many workers, its results are those of the one processing that
\* completed it, judged by the report the connector was first told is recorded.
THEOREM RunReportedOnceHolds == Spec => []RunReportedOnce
  <1>1. ErpOpsInvariant => RunReportedOnce
    <2> SUFFICES ASSUME ErpOpsInvariant  PROVE RunReportedOnce
      OBVIOUS
    <2>1. TypeOK
      BY DEF ErpOpsInvariant, TypeOK, ItemsConfirmedOnce, WarehousesTyped, WorkersHold, RunsHold,
             ResultsHold, AttemptsHold, OlderRevoked
    <2>2. \A r \in DOMAIN runs :
              runs[r].written = IF runs[r].status = "completed" THEN 1 ELSE 0
      BY DEF ErpOpsInvariant, RunsHold
    <2>3. \A x \in results : x.by = 1 /\ Judged(x)
      BY DEF ErpOpsInvariant, ResultsHold
    <2> QED  BY <2>1, <2>2, <2>3 DEF RunReportedOnce, Judged
  <1> QED  BY <1>1, ErpOpsInvariantHolds, PTL

\* A stock result is closed by one repair, a mapping is confirmed by one operator,
\* and a repair that names a mapping names a confirmed one.
THEOREM RepairsStandHolds == Spec => []RepairsStand
  <1>1. ErpOpsInvariant => RepairsStand
    <2> SUFFICES ASSUME ErpOpsInvariant  PROVE RepairsStand
      OBVIOUS
    <2>1. ItemsConfirmedOnce /\ ResultsHold /\ AttemptsHold
      BY DEF ErpOpsInvariant
    <2>2. ASSUME NEW key \in Results("stock")
          PROVE  Cardinality({k \in DOMAIN attempts :
                     attempts[k].target = key /\ attempts[k].outcome = "eligible_again"})
                 = IF StateOf(key) = "repaired" THEN 1 ELSE 0
      <3>1. PICK x \in results : Key(x) = key /\ runs[x.run].kind = "stock"
        BY DEF Results
      <3>2. StateOf(key) = x.state
        <4>1. \A y \in results : Key(y) = key => y = x
          BY <2>1, <3>1 DEF ResultsHold
        <4> QED  BY <3>1, <4>1 DEF StateOf
      <3>3. x.state \in {"open", "repaired"}
        BY <2>1 DEF ResultsHold, ResultRow
      <3> DEFINE closers == {k \in DOMAIN attempts :
                       attempts[k].target = key /\ attempts[k].outcome = "eligible_again"}
      <3>4. CASE x.state = "open"
        <4>1. closers = {}
          BY <2>1, <3>1, <3>4 DEF AttemptsHold, Closes
        <4> HIDE DEF closers
        <4>2. Cardinality(closers) = 0
          BY <4>1, FS_EmptySet
        <4> QED  BY <3>2, <3>4, <4>2 DEF closers
      <3>5. CASE x.state = "repaired"
        <4>1. PICK k \in DOMAIN attempts : Closes(k, key)
          BY <2>1, <3>1, <3>5 DEF AttemptsHold
        <4>2. \A j \in DOMAIN attempts : Closes(j, key) => j = k
          BY <2>1, <3>1, <4>1 DEF AttemptsHold
        <4>3. closers = {k}
          BY <4>1, <4>2 DEF Closes
        <4> HIDE DEF closers
        <4>4. Cardinality(closers) = 1
          BY <4>3, FS_Singleton
        <4> QED  BY <3>2, <3>5, <4>4 DEF closers
      <3> QED  BY <3>3, <3>4, <3>5
    <2>3. \A i \in DOMAIN items : items[i].confirms <= 1
      BY <2>1 DEF ItemsConfirmedOnce
    <2>4. \A k \in DOMAIN attempts :
              attempts[k].mapping # 0 => items[attempts[k].mapping].state = "confirmed"
      BY <2>1 DEF AttemptsHold
    <2> QED  BY <2>2, <2>3, <2>4 DEF RepairsStand
  <1> QED  BY <1>1, ErpOpsInvariantHolds, PTL

\* Once a rotation has handed out its credential no older one is admitted, however
\* rotations, issues, revocations and expiries overlap.
THEOREM RotationSupersedesHolds == Spec => []RotationSupersedes
  <1>1. ErpOpsInvariant => RotationSupersedes
    BY DEF ErpOpsInvariant, OlderRevoked, RotationSupersedes, Admitted
  <1> QED  BY <1>1, ErpOpsInvariantHolds, PTL
=============================================================================
