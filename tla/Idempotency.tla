---------------------------- MODULE Idempotency ----------------------------
(***************************************************************************)
(* The HTTP idempotency layer: IdempotencyInterceptor with its in-progress *)
(* marker and its store of replay records, both in one Redis.  Requests    *)
(* run concurrently, on any number of API processes, and every await is a  *)
(* point where the others go on, the marker may expire or the process may  *)
(* die.  The handler behind the interceptor is external: it has its effect *)
(* or not, and returns or throws.                                          *)
(*                                                                         *)
(* The marker's value in Redis is "1"; the model keeps the request that    *)
(* wrote it, which the code cannot see.                                    *)
(***************************************************************************)
EXTENDS Naturals, FiniteSets

CONSTANTS
    Requests,       \* requests with a well-formed Idempotency-Key
    NoRequest,
    Tenants,
    Tuples,         \* method:route:clientId:key
    Bodies,         \* fingerprints of request bodies
    TenantOf,       \* [Requests -> Tenants]
    TupleOf,        \* [Requests -> Tuples]
    BodyOf          \* [Requests -> Bodies]

ASSUME RequestAssumption ==
    /\ NoRequest \notin Requests
    /\ TenantOf \in [Requests -> Tenants]
    /\ TupleOf \in [Requests -> Tuples]
    /\ BodyOf \in [Requests -> Bodies]

VARIABLES
    pc,         \* [Requests -> step of the interceptor]
    answer,     \* [Requests -> what the client was told]
    origin,     \* [Requests -> the request whose response was replayed to it]
    marker,     \* [Tuples -> the request whose marker is set]
    record,     \* [Tenants -> [Tuples -> the request whose response is stored]]
    executed,   \* requests whose handler has had its effect
    degraded    \* tuples that met a fault which lifts the protection

interceptorVars == <<pc, answer, origin, marker, record, executed, degraded>>

Active == {"marked", "running", "acted", "saving", "saved"}
Answers == {"none", "fresh", "replay", "409", "425", "error"}

InterceptorInit ==
    /\ pc = [r \in Requests |-> "new"]
    /\ answer = [r \in Requests |-> "none"]
    /\ origin = [r \in Requests |-> NoRequest]
    /\ marker = [k \in Tuples |-> NoRequest]
    /\ record = [t \in Tenants |-> [k \in Tuples |-> NoRequest]]
    /\ executed = {}
    /\ degraded = {}

Goto(r, step) == pc' = [pc EXCEPT ![r] = step]

Answer(r, a) == answer' = [answer EXCEPT ![r] = a]

Stored(r) == record[TenantOf[r]][TupleOf[r]]

\* The end of a request without protection from now on.
Degrade(r, lifted) ==
    degraded' = IF lifted THEN degraded \cup {TupleOf[r]} ELSE degraded

-----------------------------------------------------------------------------
(* The marker.                                                             *)

\* Variant of MarkerSet: SET without NX.
MarkerSetAlways(r) ==
    /\ pc[r] = "new"
    /\ marker' = [marker EXCEPT ![TupleOf[r]] = r]
    /\ Goto(r, "marked")
    /\ UNCHANGED <<answer, origin, record, executed, degraded>>

\* trySet: SET NX EX.
MarkerSet(r) ==
    /\ pc[r] = "new"
    /\ marker[TupleOf[r]] = NoRequest
    /\ marker' = [marker EXCEPT ![TupleOf[r]] = r]
    /\ Goto(r, "marked")
    /\ UNCHANGED <<answer, origin, record, executed, degraded>>

\* Another request is in flight: 425.
InProgress(r) ==
    /\ pc[r] = "new"
    /\ marker[TupleOf[r]] # NoRequest
    /\ Goto(r, "done")
    /\ Answer(r, "425")
    /\ UNCHANGED <<origin, marker, record, executed, degraded>>

\* The call to Redis throws before the try block, its SET done or not.
MarkerSetFails(r) ==
    /\ pc[r] = "new"
    /\ \E holder \in {marker[TupleOf[r]], r} :
        /\ holder = r => marker[TupleOf[r]] = NoRequest
        /\ marker' = [marker EXCEPT ![TupleOf[r]] = holder]
    /\ Goto(r, "done")
    /\ Answer(r, "error")
    /\ UNCHANGED <<origin, record, executed, degraded>>

\* marker.del: an unconditional DEL, whose failure is swallowed.
MarkerDel(r) ==
    \E holder \in {NoRequest, marker[TupleOf[r]]} :
        marker' = [marker EXCEPT ![TupleOf[r]] = holder]

\* The TTL runs out; nothing renews it while the handler runs.
MarkerExpires(k) ==
    /\ marker[k] # NoRequest
    /\ marker' = [marker EXCEPT ![k] = NoRequest]
    /\ Degrade(marker[k], pc[marker[k]] \in Active)
    /\ UNCHANGED <<pc, answer, origin, record, executed>>

-----------------------------------------------------------------------------
(* The lookup in the store.                                                *)

\* findOrCreate misses: the handler is invoked.
Miss(r) ==
    /\ pc[r] = "marked"
    /\ Stored(r) = NoRequest
    /\ Goto(r, "running")
    /\ UNCHANGED <<answer, origin, marker, record, executed, degraded>>

\* Variant of SameFingerprint: every record is a hit.
AnyFingerprint(r) == TRUE

SameFingerprint(r) == BodyOf[Stored(r)] = BodyOf[r]

\* A hit: the stored status and body are sent again.
Replay(r) ==
    /\ pc[r] = "marked"
    /\ Stored(r) # NoRequest
    /\ SameFingerprint(r)
    /\ MarkerDel(r)
    /\ Goto(r, "done")
    /\ Answer(r, "replay")
    /\ origin' = [origin EXCEPT ![r] = Stored(r)]
    /\ UNCHANGED <<record, executed, degraded>>

Collision(r) ==
    /\ pc[r] = "marked"
    /\ Stored(r) # NoRequest
    /\ ~SameFingerprint(r)
    /\ MarkerDel(r)
    /\ Goto(r, "done")
    /\ Answer(r, "409")
    /\ UNCHANGED <<origin, record, executed, degraded>>

\* The store throws: the catch block deletes the marker and rethrows.
LookupFails(r) ==
    /\ pc[r] = "marked"
    /\ MarkerDel(r)
    /\ Goto(r, "done")
    /\ Answer(r, "error")
    /\ UNCHANGED <<origin, record, executed, degraded>>

\* The replay window of a record ends.
RecordExpires(t, k) ==
    /\ record[t][k] # NoRequest
    /\ record' = [record EXCEPT ![t][k] = NoRequest]
    /\ degraded' = degraded \cup {k}
    /\ UNCHANGED <<pc, answer, origin, marker, executed>>

-----------------------------------------------------------------------------
(* The handler and what follows it.                                        *)

HandlerActs(r) ==
    /\ pc[r] = "running"
    /\ Goto(r, "acted")
    /\ executed' = executed \cup {r}
    /\ UNCHANGED <<answer, origin, marker, record, degraded>>

\* The response goes out; the tap is not awaited.
HandlerReturns(r) ==
    /\ pc[r] = "acted"
    /\ Goto(r, "saving")
    /\ Answer(r, "fresh")
    /\ UNCHANGED <<origin, marker, record, executed, degraded>>

\* The error passes through; finalize deletes the marker, nothing is saved.
HandlerThrows(r) ==
    /\ pc[r] \in {"running", "acted"}
    /\ Degrade(r, pc[r] = "acted")
    /\ MarkerDel(r)
    /\ Goto(r, "done")
    /\ Answer(r, "error")
    /\ UNCHANGED <<origin, record, executed>>

\* store.save; its SET is issued before the DEL of finalize, on the same
\* connection, and replaces whatever is stored.
Save(r) ==
    /\ pc[r] = "saving"
    /\ record' = [record EXCEPT ![TenantOf[r]][TupleOf[r]] = r]
    /\ Goto(r, "saved")
    /\ UNCHANGED <<answer, origin, marker, executed, degraded>>

\* The SET fails: logged and swallowed.
SaveFails(r) ==
    /\ pc[r] = "saving"
    /\ Goto(r, "saved")
    /\ Degrade(r, TRUE)
    /\ UNCHANGED <<answer, origin, marker, record, executed>>

Finalize(r) ==
    /\ pc[r] = "saved"
    /\ MarkerDel(r)
    /\ Goto(r, "done")
    /\ UNCHANGED <<answer, origin, record, executed, degraded>>

\* The API process dies; the marker is left to its TTL.
Crash(r) ==
    /\ pc[r] \in Active
    /\ Goto(r, "done")
    /\ Degrade(r, pc[r] \in {"acted", "saving"})
    /\ UNCHANGED <<answer, origin, marker, record, executed>>

-----------------------------------------------------------------------------
Intercept(r) ==
    \/ MarkerSet(r) \/ InProgress(r) \/ MarkerSetFails(r)
    \/ Miss(r) \/ Replay(r) \/ Collision(r) \/ LookupFails(r)
    \/ HandlerActs(r) \/ HandlerReturns(r) \/ HandlerThrows(r)
    \/ Save(r) \/ SaveFails(r) \/ Finalize(r)

InterceptorNext ==
    \/ \E r \in Requests : Intercept(r) \/ Crash(r)
    \/ \E k \in Tuples : MarkerExpires(k) \/ \E t \in Tenants : RecordExpires(t, k)

InterceptorSpec == InterceptorInit /\ [][InterceptorNext]_interceptorVars

-----------------------------------------------------------------------------
(* Properties.                                                             *)

\* Every variable has its type.
InterceptorTypeOK ==
    /\ pc \in [Requests -> {"new", "done"} \cup Active]
    /\ answer \in [Requests -> Answers]
    /\ origin \in [Requests -> Requests \cup {NoRequest}]
    /\ marker \in [Tuples -> Requests \cup {NoRequest}]
    /\ record \in [Tenants -> [Tuples -> Requests \cup {NoRequest}]]
    /\ executed \in SUBSET Requests
    /\ degraded \in SUBSET Tuples

SameKey(q, r) == TenantOf[q] = TenantOf[r] /\ TupleOf[q] = TupleOf[r]

\* Of all the requests with one key, however they overlap and retry, the
\* handler takes effect for one, unless a marker ran out under its request,
\* a replay record could not be saved or ran out, or a handler or its process
\* failed between the effect and the save.
AtMostOnce ==
    \A q, r \in executed :
        SameKey(q, r) /\ q # r => TupleOf[r] \in degraded

\* A replay is the response that the same tenant got for the same key and
\* body when the handler took effect, faults or not.
ReplayIsOriginal ==
    \A r \in Requests :
        answer[r] = "replay" =>
            /\ origin[r] \in executed
            /\ SameKey(origin[r], r)
            /\ BodyOf[origin[r]] = BodyOf[r]
            /\ answer[origin[r]] = "fresh"

\* While a tuple is not degraded, a request past the marker owns it, ...
ActiveOwnsMarker ==
    \A r \in Requests :
        pc[r] \in Active /\ TupleOf[r] \notin degraded => marker[TupleOf[r]] = r

\* ... the handler runs only where nothing is stored, ...
RunningHasNoRecord ==
    \A r \in Requests :
        pc[r] \in {"running", "acted", "saving"} /\ TupleOf[r] \notin degraded
            => Stored(r) = NoRequest /\ (r \in executed <=> pc[r] # "running")

\* ... and an effect is on record or about to be.
EffectIsRecorded ==
    \A r \in executed :
        TupleOf[r] \notin degraded =>
            pc[r] \in {"acted", "saving"} \/ Stored(r) = r

\* Whatever is stored is the response of a request with that key.
RecordsAreOfTheirKey ==
    /\ \A t \in Tenants, k \in Tuples :
        LET o == record[t][k] IN
        o # NoRequest => /\ o \in executed
                         /\ TenantOf[o] = t
                         /\ TupleOf[o] = k
                         /\ answer[o] = "fresh"
    /\ \A k \in Tuples : marker[k] # NoRequest => TupleOf[marker[k]] = k
    /\ \A r \in Requests :
        /\ pc[r] \in {"new", "marked", "running"} =>
             r \notin executed /\ answer[r] = "none"
        /\ pc[r] \in {"acted", "saving"} => r \in executed
        /\ pc[r] = "acted" => answer[r] = "none"
        /\ pc[r] = "saving" => answer[r] = "fresh"

\* The inductive invariant of the safety proofs.
InterceptorInvariant ==
    /\ InterceptorTypeOK
    /\ AtMostOnce
    /\ ReplayIsOriginal
    /\ ActiveOwnsMarker
    /\ RunningHasNoRecord
    /\ EffectIsRecorded
    /\ RecordsAreOfTheirKey

=============================================================================
