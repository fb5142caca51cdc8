----------------------------- MODULE PosIdentity ------------------------------
(***************************************************************************)
(* Identity at the till.  A terminal redeems a one-time pairing code for a  *)
(* device token (PairingService, PairingRepository); an operator signs in   *)
(* at a paired terminal, signs out, or takes the terminal over from another *)
(* (PosOperatorsService); the terminal uploads its audit events, which open *)
(* shifts (PosAuditEventsService); the operator's envelope is verified      *)
(* again on every sale (PosOperatorEnvelopeSaleGuard).                      *)
(*                                                                         *)
(* No operation holds a lock between its statements: each statement, or     *)
(* short transaction, below is one step and any other request may run in    *)
(* between.  A request may die after any step.  Time is two actions that    *)
(* expire a code or a session.  Users deleted or unknown to the identity    *)
(* provider, and tokens it rejects, are requests that change nothing.       *)
(***************************************************************************)
EXTENDS Accounts

CONSTANTS
    Terminals,
    Codes,            \* pairing codes
    CodeStore,        \* [Codes -> store]
    CodeTerminal,     \* [Codes -> terminal]
    MaxAttempts,      \* MAX_ATTEMPTS_PER_CODE
    TakeoverEvents,   \* event_id of a takeover
    AuditEvents       \* [action, store, terminal, actor, shift] uploaded by tills

ASSUME PosIdentityAssumption ==
    /\ CodeStore \in [Codes -> Stores] /\ CodeTerminal \in [Codes -> Terminals]
    /\ MaxAttempts \in Nat
    /\ None \notin Codes

VARIABLES
    code,       \* [Codes -> row of pairing_codes]
    device,     \* [Terminals -> row of devices]
    handed,     \* <<token, terminal>> of the answers "ok"
    tried,      \* [Codes -> redemptions that passed the attempt limit]
    sessions,   \* pos_operator rows of auth_tokens, in order of issue
    key,        \* [TakeoverEvents -> row of idempotency_keys]
    replayed,   \* <<event, user, session>> answered from the key
    ended,      \* <<session, client>>: whoever was told it ended the session
    events,     \* audit_events uploaded by tills
    shifts,     \* rows of shifts: the events that opened them
    accepted,   \* [AuditEvents -> times reported as accepted]
    sales       \* sales let in by the guard: TRUE if barred throughout

pairing == <<code, device, handed, tried>>
operators == <<sessions, key, replayed, ended>>
uploads == <<events, shifts, accepted>>
pos == <<pairing, operators, uploads, sales>>
vars == <<accounts, pos, req, mix>>

-----------------------------------------------------------------------------
(* Rows.                                                                     *)

PairingCodeRow ==
    [status : {"none", "pending", "used", "cancelled"}, expired : BOOLEAN,
     attempts : Nat]

\* A row of devices; token is the plaintext whose hash is stored.
DeviceRow ==
    [state : {"none", "live", "revoked"}, store : Stores \cup {None},
     token : ((Clients \cup {None}) \X Codes) \cup {None}]

\* A session of auth_tokens.  event and floor are history: the takeover that
\* issued it, and how many sessions existed when its request looked at the
\* terminal, in the check of a sign-in or the revocation of a takeover.
OperatorSessionRow ==
    [user : Users, terminal : Terminals, store : Stores,
     state : {"live", "revoked", "expired"},
     event : TakeoverEvents \cup {None}, floor : Nat]

\* The pos_takeover rows of idempotency_keys; session 0 is a null session_id.
TakeoverKeyRow == [operator : Users, session : Nat]

\* None stands for a row that is missing.
ASSUME KeyAssumption == None \notin TakeoverKeyRow

\* Nothing is paired, or every terminal was paired by one of its codes.
Init ==
    /\ AccountsInit
    /\ \E by \in IF "paired" \in mix.does
                 THEN {f \in [Terminals -> Codes] : \A t \in Terminals : CodeTerminal[f[t]] = t}
                 ELSE {[t \in Terminals |-> None]} :
         /\ code = [k \in Codes |->
              [status |-> IF \E t \in Terminals : by[t] = k THEN "used" ELSE "none",
               expired |-> FALSE, attempts |-> 0]]
         /\ device = [t \in Terminals |->
              IF by[t] = None THEN [state |-> "none", store |-> None, token |-> None]
              ELSE [state |-> "live", store |-> CodeStore[by[t]], token |-> <<None, by[t]>>]]
    /\ handed = {}
    /\ tried = [k \in Codes |-> 0]
    /\ sessions = <<>>
    /\ key = [e \in TakeoverEvents |-> None]
    /\ replayed = {}
    /\ ended = {}
    /\ events = {}
    /\ shifts = {}
    /\ accepted = [a \in AuditEvents |-> 0]
    /\ sales = {}

-----------------------------------------------------------------------------
(* Pairing.                                                                  *)

\* bootstrap-pairing-code: a pending code, valid for a while.
SeedCode(k) ==
    /\ code[k].status = "none"
    /\ code' = [code EXCEPT ![k].status = "pending"]
    /\ UNCHANGED <<device, handed, tried, accounts, operators, uploads, sales, req>>

\* findByCode: the row is read once; later steps use this copy of its status.
FindByCode(c, k) ==
    /\ At(c, "idle")
    /\ code[k].status # "none"
    /\ code[k].attempts <= MaxAttempts             \* bound: one refused attempt
    /\ req' = [req EXCEPT ![c] = [at |-> "attempt", code |-> k,
                                  status |-> code[k].status,
                                  attempts |-> code[k].attempts]]
    /\ UNCHANGED <<pairing, accounts, operators, uploads, sales>>

\* recordAttempt: UPDATE ... SET attempt_count = attempt_count + 1 RETURNING.
AttemptsAfter(c, k) == code[k].attempts + 1

\* isSpent, on the row findByCode read and the clock of now.
IsSpent(c, k) == req[c].status # "pending" \/ code[k].expired

RecordAttempt(c) ==
    /\ At(c, "attempt")
    /\ LET k == req[c].code IN
       /\ code' = [code EXCEPT ![k].attempts = AttemptsAfter(c, k)]
       /\ IF AttemptsAfter(c, k) > MaxAttempts
            THEN Finish(c) /\ UNCHANGED tried            \* rate_limited
            ELSE /\ tried' = [tried EXCEPT ![k] = @ + 1]
                 /\ IF IsSpent(c, k) THEN Finish(c) ELSE GoTo(c, "branch")
    /\ UNCHANGED <<device, handed, accounts, operators, uploads, sales>>

\* findPairedBranch: a live device answers already_paired or branch_mismatch.
FindPairedBranch(c) ==
    /\ At(c, "branch")
    /\ IF device[CodeTerminal[req[c].code]].state = "live"
         THEN Finish(c) ELSE GoTo(c, "provision")
    /\ UNCHANGED <<pairing, accounts, operators, uploads, sales>>

Burnable(k) == code[k].status = "pending" /\ ~code[k].expired

Provisioned(c, k) ==
    [state |-> "live", store |-> CodeStore[k], token |-> <<c, k>>]

\* Variant of OnAlreadyProvisioned: the unique violation is contained and the burn commits with it.
OnAlreadyProvisionedKept(k) == code' = [code EXCEPT ![k].status = "used"]

\* A unique violation aborts the transaction: its COMMIT rolls the burn back.
OnAlreadyProvisioned(k) == UNCHANGED code

\* INSERT INTO devices: the primary key is the terminal, revoked or not.
TerminalFree(t) == device[t].state = "none"

\* burnAndProvision: one transaction.  A rival on the code's row or on the
\* terminal's key waits for it, so each outcome is one of a serial order.  The
\* answer carries the token; it may be lost on the way.
BurnAndProvision(c) ==
    /\ At(c, "provision")
    /\ LET k == req[c].code  t == CodeTerminal[k] IN
       \/ /\ ~Burnable(k)                                    \* lost_race
          /\ UNCHANGED pairing
       \/ /\ Burnable(k) /\ ~TerminalFree(t)                 \* already_provisioned
          /\ OnAlreadyProvisioned(k)
          /\ UNCHANGED <<device, handed, tried>>
       \/ /\ Burnable(k) /\ TerminalFree(t)
          /\ code' = [code EXCEPT ![k].status = "used"]
          /\ device' = [device EXCEPT ![t] = Provisioned(c, k)]
          /\ handed' \in {handed, handed \cup {<<<<c, k>>, t>>}}
          /\ UNCHANGED tried
    /\ Finish(c)
    /\ UNCHANGED <<accounts, operators, uploads, sales>>

ExpireCode(k) ==
    /\ code[k].status = "pending" /\ ~code[k].expired
    /\ code' = [code EXCEPT ![k].expired = TRUE]
    /\ UNCHANGED <<device, handed, tried, accounts, operators, uploads, sales, req>>

\* A device is revoked by hand: no code in the repository does it.
RevokeDevice(t) ==
    /\ device[t].state = "live"
    /\ device' = [device EXCEPT ![t].state = "revoked"]
    /\ UNCHANGED <<code, handed, tried, accounts, operators, uploads, sales, req>>

-----------------------------------------------------------------------------
(* Who may operate a till.                                                   *)

EligibleRoles == {"owner", "tenant_admin", "store_manager"}

\* findActiveMembership of PosOperatorsService and of OperatorContextResolver,
\* and what both ask of the row: active, an eligible role, and the store.
Verified(u, s) ==
    LET row == membership[u][TenantOf[s]] IN
    /\ row.state = "active"
    /\ row.role \in EligibleRoles
    /\ row.kind = "all" \/ s \in row.stores

-----------------------------------------------------------------------------
(* Operator sessions.                                                        *)

Live(t, s) ==
    {i \in 1..Len(sessions) : /\ sessions[i].state = "live"
                              /\ sessions[i].terminal = t /\ sessions[i].store = s}

\* The terminal authenticates with its device token.
FindActiveByAttestation(t) == device[t].state = "live"

\* signIn and takeoverConfirm: token, user and device are verified.
StartPipeline(c, kind, u, t, e) ==
    /\ At(c, "idle")
    /\ FindActiveByAttestation(t)
    /\ req' = [req EXCEPT ![c] =
                 [at |-> "membership", kind |-> kind, user |-> u, terminal |-> t,
                  store |-> device[t].store, event |-> e, floor |-> 0, session |-> 0]]
    /\ UNCHANGED <<pairing, accounts, operators, uploads, sales>>

SignIn(c, u, t) == StartPipeline(c, "sign_in", u, t, None)
TakeoverConfirm(c, u, t, e) == StartPipeline(c, "takeover", u, t, e)

\* Membership, role and store access.
CheckMembership(c) ==
    /\ At(c, "membership")
    /\ IF ~Verified(req[c].user, req[c].store)
         THEN Finish(c)
         ELSE GoTo(c, IF req[c].kind = "sign_in" THEN "check" ELSE "key")
    /\ UNCHANGED <<pairing, accounts, operators, uploads, sales>>

ActiveOperatorSessionExists(c) == Live(req[c].terminal, req[c].store) # {}

\* The check of runPipeline: takeover_required, or go on to issue.
CheckActiveSession(c) ==
    /\ At(c, "check")
    /\ IF ActiveOperatorSessionExists(c)
         THEN Finish(c)
         ELSE req' = [req EXCEPT ![c].at = "issue", ![c].floor = Len(sessions)]
    /\ UNCHANGED <<pairing, accounts, operators, uploads, sales>>

KeyConflict(e, u) == key[e].operator # u

\* upsertTakeoverIdempotencyKey: a new key, or one whose session is still
\* null, is fresh; another operator's is refused; a recorded session answers
\* the request if it is still live.
UpsertTakeoverKey(c) ==
    /\ At(c, "key")
    /\ LET e == req[c].event  u == req[c].user IN
       \/ /\ key[e] = None
          /\ key' = [key EXCEPT ![e] = [operator |-> u, session |-> 0]]
          /\ GoTo(c, "revoke") /\ UNCHANGED replayed
       \/ /\ key[e] # None
          /\ KeyConflict(e, u)
          /\ Finish(c) /\ UNCHANGED <<key, replayed>>
       \/ /\ key[e] # None
          /\ ~KeyConflict(e, u) /\ key[e].session = 0
          /\ GoTo(c, "revoke") /\ UNCHANGED <<key, replayed>>
       \/ /\ key[e] # None
          /\ ~KeyConflict(e, u) /\ key[e].session # 0
          /\ replayed' = IF sessions[key[e].session].state = "live"
                         THEN replayed \cup {<<e, u, key[e].session>>} ELSE replayed
          /\ Finish(c) /\ UNCHANGED key
    /\ UNCHANGED <<pairing, accounts, sessions, ended, uploads, sales>>

\* Variant of Superseded: only another operator's session is superseded.
SupersededOthers(c) ==
    {i \in Live(req[c].terminal, req[c].store) : sessions[i].user # req[c].user}

\* The rows the UPDATE of revokeActiveOperatorSession matches.
Superseded(c) == Live(req[c].terminal, req[c].store)

\* revokeActiveOperatorSession; with nothing to supersede the takeover ends,
\* its key left behind.
RevokeActiveOperatorSession(c) ==
    /\ At(c, "revoke")
    /\ IF Live(req[c].terminal, req[c].store) = {}
         THEN Finish(c) /\ UNCHANGED <<sessions, ended>>
         ELSE /\ sessions' = [i \in 1..Len(sessions) |->
                                IF i \in Superseded(c)
                                THEN [sessions[i] EXCEPT !.state = "revoked"]
                                ELSE sessions[i]]
              /\ ended' = ended \cup {<<i, c>> : i \in Superseded(c)}
              /\ req' = [req EXCEPT ![c].at = "issue", ![c].floor = Len(sessions)]
    /\ UNCHANGED <<pairing, accounts, key, replayed, uploads, sales>>

NewSession(c) ==
    [user |-> req[c].user, terminal |-> req[c].terminal, store |-> req[c].store,
     state |-> "live", event |-> req[c].event, floor |-> req[c].floor]

\* issueOperatorSessionRow.
IssueOperatorSession(c) ==
    /\ At(c, "issue") /\ Len(sessions) < mix.sessions
    /\ sessions' = Append(sessions, NewSession(c))
    /\ IF req[c].kind = "sign_in" THEN Finish(c)
       ELSE req' = [req EXCEPT ![c].at = "record", ![c].session = Len(sessions) + 1]
    /\ UNCHANGED <<pairing, accounts, key, replayed, ended, uploads, sales>>

\* updateIdempotencyKeyWithSession, then the audit record, whose failure is
\* swallowed and which no operation here reads.
RecordTakeoverSession(c) ==
    /\ At(c, "record")
    /\ key' = [key EXCEPT ![req[c].event].session = req[c].session]
    /\ Finish(c)
    /\ UNCHANGED <<pairing, accounts, sessions, replayed, ended, uploads, sales>>

\* signOut reads the session and checks that it is the user's and live.
ReadSessionToSignOut(c, i) ==
    /\ At(c, "idle") /\ sessions[i].state = "live"
    /\ req' = [req EXCEPT ![c] = [at |-> "sign_out", session |-> i]]
    /\ UNCHANGED <<pairing, accounts, operators, uploads, sales>>

Revocable(i) == sessions[i].state # "revoked"

\* markSessionRevoked: signed_out, or session_revoke_race.
MarkSessionRevoked(c) ==
    /\ At(c, "sign_out")
    /\ LET i == req[c].session IN
       IF Revocable(i)
         THEN /\ sessions' = [sessions EXCEPT ![i].state = "revoked"]
              /\ ended' = ended \cup {<<i, c>>}
         ELSE UNCHANGED <<sessions, ended>>
    /\ Finish(c)
    /\ UNCHANGED <<pairing, accounts, key, replayed, uploads, sales>>

ExpireSession(i) ==
    /\ sessions[i].state = "live"
    /\ sessions' = [sessions EXCEPT ![i].state = "expired"]
    /\ UNCHANGED <<pairing, accounts, key, replayed, ended, uploads, sales, req>>

-----------------------------------------------------------------------------
(* Sales under an operator's envelope.                                       *)

MemberOf(i) == membership[sessions[i].user][TenantOf[sessions[i].store]]

\* History: the session's user may not sell at this moment.
Barred(i) ==
    LET s == sessions[i] IN
    \/ s.state # "live"
    \/ device[s.terminal].state # "live"
    \/ ~Verified(s.user, s.store)

\* AuthGuard finds the envelope among the live tokens.
FindActiveByRawToken(c, i) ==
    /\ At(c, "idle") /\ sessions[i].state = "live"
    /\ req' = [req EXCEPT ![c] = [at |-> "reverify", session |-> i,
                                  barred |-> Barred(i), device |-> FALSE,
                                  edits |-> MemberOf(i).edits]]
    /\ UNCHANGED <<pairing, accounts, operators, uploads, sales>>

\* recoverDeviceId and the first half of reverify: the device.
ReverifyDevice(c) ==
    /\ At(c, "reverify") /\ ~req[c].device
    /\ IF device[sessions[req[c].session].terminal].state = "live"
         THEN req' = [req EXCEPT ![c].device = TRUE] ELSE Finish(c)
    /\ UNCHANGED <<pairing, accounts, operators, uploads, sales>>

\* Variant of Reverified: the envelope alone is enough.
ReverifiedByEnvelope(s) == TRUE

\* The second half: membership, role and store access as they are now.
Reverified(s) == Verified(s.user, s.store)

AdmitSale(c) ==
    /\ At(c, "reverify") /\ req[c].device
    /\ LET i == req[c].session IN
       sales' = IF Reverified(sessions[i])
                THEN sales \cup {req[c].barred /\ MemberOf(i).edits = req[c].edits}
                ELSE sales
    /\ Finish(c)
    /\ UNCHANGED <<pairing, accounts, operators, uploads>>

-----------------------------------------------------------------------------
(* Audit events and shifts.                                                  *)

\* syncBatch: the terminal is authenticated once for the whole batch.
SyncBatch(c, t, batch) ==
    /\ At(c, "idle") /\ batch # {}
    /\ FindActiveByAttestation(t)
    /\ req' = [req EXCEPT ![c] = [at |-> "events", store |-> device[t].store,
                                  todo |-> batch, ok |-> {}]]
    /\ UNCHANGED <<pairing, accounts, operators, uploads, sales>>

OpensShift(a) == a.action = "shift.open"

\* The checks before the transaction: scope, and an actor with an active row.
EventAcceptable(c, a) ==
    /\ a.action \in {"shift.open", "shift.close"}
    /\ a.store = req[c].store
    /\ FindActiveMembership(a.actor, TenantOf[a.store])

\* shifts.opening_device_id references a row of devices.
DeviceKnown(a) == device[a.terminal].state # "none"

\* INSERT INTO shifts ... ON CONFLICT (shift_id) DO NOTHING inserts a row.
InsertsShift(a) == OpensShift(a) /\ \A b \in shifts : b.shift # a.shift

\* Variant of InsertEvent: the shift is written after the commit and may be lost.
InsertEventApart(a) ==
    /\ events' = events \cup {a}
    /\ shifts' \in {shifts, IF InsertsShift(a) THEN shifts \cup {a} ELSE shifts}

\* The transaction of processEvent: the event, and the shift it opens unless an
\* event stored before opened it.
InsertEvent(a) ==
    /\ events' = events \cup {a}
    /\ shifts' = IF InsertsShift(a) THEN shifts \cup {a} ELSE shifts

\* ON CONFLICT (id) DO NOTHING RETURNING id.
FreshEvent(a) == a \notin events

\* processEvent: rejected, duplicate or accepted; a missing device aborts the
\* transaction and the event is reported as rejected.
ProcessEvent(c, a) ==
    /\ At(c, "events") /\ a \in req[c].todo
    /\ LET fresh == FreshEvent(a)
           rejected == \/ ~EventAcceptable(c, a)
                       \/ fresh /\ InsertsShift(a) /\ ~DeviceKnown(a)
       IN /\ IF rejected \/ ~fresh
               THEN UNCHANGED <<events, shifts>> ELSE InsertEvent(a)
          /\ req' = [req EXCEPT ![c].todo = @ \ {a},
                                ![c].ok = IF rejected \/ ~fresh THEN @ ELSE @ \cup {a}]
    /\ UNCHANGED <<pairing, accounts, operators, accepted, sales>>

\* The answer lists what was accepted.
AnswerBatch(c) ==
    /\ At(c, "events") /\ req[c].todo = {}
    /\ accepted' = [a \in AuditEvents |->
                      IF a \in req[c].ok THEN accepted[a] + 1 ELSE accepted[a]]
    /\ Finish(c)
    /\ UNCHANGED <<pairing, accounts, operators, events, shifts, sales>>

-----------------------------------------------------------------------------
Pair(c) ==
    \/ \E k \in Codes : FindByCode(c, k)
    \/ RecordAttempt(c)
    \/ FindPairedBranch(c)
    \/ BurnAndProvision(c)

Operate(c) ==
    \/ \E u \in Users, t \in Terminals : SignIn(c, u, t)
    \/ /\ "takeover" \in mix.does
       /\ \E u \in Users, t \in Terminals, e \in TakeoverEvents : TakeoverConfirm(c, u, t, e)
    \/ CheckMembership(c)
    \/ CheckActiveSession(c)
    \/ UpsertTakeoverKey(c)
    \/ RevokeActiveOperatorSession(c)
    \/ IssueOperatorSession(c)
    \/ RecordTakeoverSession(c)
    \/ \E i \in 1..Len(sessions) : ReadSessionToSignOut(c, i)
    \/ MarkSessionRevoked(c)

Sell(c) ==
    \/ \E i \in 1..Len(sessions) : FindActiveByRawToken(c, i)
    \/ ReverifyDevice(c)
    \/ AdmitSale(c)

Upload(c) ==
    \/ \E t \in Terminals, batch \in SUBSET AuditEvents : SyncBatch(c, t, batch)
    \/ \E a \in AuditEvents : ProcessEvent(c, a)
    \/ AnswerBatch(c)

Next ==
    /\ UNCHANGED mix
    /\ \/ AccountsNext /\ UNCHANGED pos
       \/ \E c \in Clients :
            \/ "pair" \in mix.does /\ Pair(c)
            \/ "operate" \in mix.does /\ Operate(c)
            \/ "sell" \in mix.does /\ Sell(c)
            \/ "upload" \in mix.does /\ Upload(c)
       \/ "pair" \in mix.does /\ \E k \in Codes : SeedCode(k) \/ ExpireCode(k)
       \/ "revoke" \in mix.does /\ \E t \in Terminals : RevokeDevice(t)
       \/ "expire" \in mix.does /\ \E i \in 1..Len(sessions) : ExpireSession(i)

Spec == Init /\ [][Next]_vars

-----------------------------------------------------------------------------
(* Properties.                                                               *)

\* The tables hold what the schema declares.
TypeOK ==
    /\ code \in [Codes -> PairingCodeRow]
    /\ device \in [Terminals -> DeviceRow]
    /\ sessions \in Seq(OperatorSessionRow)
    /\ key \in [TakeoverEvents -> {None} \cup TakeoverKeyRow]
    /\ membership \in [Users -> [Tenants -> MembershipRow]]
    /\ logins \in Seq(LoginRow) /\ invitations \in Seq(InvitationRow) /\ tokens \in Seq(TokenRow)
    /\ events \subseteq AuditEvents /\ shifts \subseteq AuditEvents

\* The rows of shifts are the stored events that opened one, each shift_id once.
ShiftsStand ==
    /\ shifts \subseteq {a \in events : OpensShift(a)}
    /\ \A a \in events : OpensShift(a) => \E b \in shifts : b.shift = a.shift
    /\ \A a, b \in shifts : a.shift = b.shift => a = b

\* A used code, its device and the answer "ok" stand for each other, whichever
\* codes race for a terminal: the device a code was burned for exists in the
\* code's store, a device's code is used, and a terminal that was handed a token
\* finds it in its row.  burnAndProvision commits all of it or nothing, and
\* however many redemptions of a code overlap at most MaxAttempts of them get
\* past the limit, which recordAttempt counts in the database.
BurnedIffProvisioned ==
    /\ TypeOK
    /\ \A k \in Codes : code[k].status = "used" =>
         /\ device[CodeTerminal[k]].state # "none"
         /\ device[CodeTerminal[k]].token[2] = k
         /\ device[CodeTerminal[k]].store = CodeStore[k]
    /\ \A t \in Terminals : device[t].state # "none" => code[device[t].token[2]].status = "used"
    /\ \A h \in handed : device[h[2]].token = h[1]
    /\ \A k \in Codes : tried[k] <= MaxAttempts

\* Two sessions are live at one terminal only by a race: the request that issued
\* the later one had looked at the terminal, in its check or its revocation,
\* before the earlier one was issued, and found or left nothing live.  Whatever
\* operators sign in, out and take over, no finished request leaves a second
\* session behind that it could have seen.  Of a sign-out and a takeover that race
\* for a session one is told it ended it, and a replayed takeover answers with a
\* session that this very event issued to this very operator.
TwoSessionsOnlyByRace ==
    /\ \A i, j \in 1..Len(sessions) :
         (/\ i < j /\ sessions[i].state = "live" /\ sessions[j].state = "live"
          /\ sessions[i].terminal = sessions[j].terminal
          /\ sessions[i].store = sessions[j].store) => sessions[j].floor < i
    /\ \A x, y \in ended : x[1] = y[1] => x[2] = y[2]
    /\ \A r \in replayed : sessions[r[3]].event = r[1] /\ sessions[r[3]].user = r[2]

\* pos-operators.openapi.yaml: "Re-submitting the same `event_id` with the same
\* `operator_id` returns the same signed-in envelope without creating a second
\* session row."
OneSessionPerTakeover ==
    \A i, j \in 1..Len(sessions) :
        sessions[i].event # None /\ sessions[i].event = sessions[j].event => i = j

\* A sale is never let in for an operator who, when the request began and ever
\* since, had lost the membership, the store or the terminal.
NoSaleOnceBarred == TRUE \notin sales

\* Over retries, partly stored and overlapping batches an event is reported as
\* accepted at most once; every shift.open event stored has its shift, no other
\* shift exists, and two events that open one shift make one row: a retry
\* answered as duplicate never stands for a shift that was lost.
ShiftIffOpened ==
    /\ ShiftsStand
    /\ \A a \in AuditEvents : accepted[a] <= 1

-----------------------------------------------------------------------------
(* The inductive invariant of the proofs.                                    *)

HistoryTypeOK ==
    /\ handed \subseteq (Clients \X Codes) \X Terminals
    /\ tried \in [Codes -> Nat]
    /\ replayed \subseteq TakeoverEvents \X Users \X Nat
    /\ ended \subseteq Nat \X Clients
    /\ accepted \in [AuditEvents -> Nat]

\* A device's row names the code it was burned for, and stays; tried follows
\* the attempts the database counts.
Paired ==
    /\ \A k \in Codes : code[k].status = "used" =>
         /\ device[CodeTerminal[k]].state # "none"
         /\ device[CodeTerminal[k]].token[2] = k
    /\ \A t \in Terminals : device[t].state # "none" =>
         /\ device[t].token \in (Clients \cup {None}) \X Codes
         /\ CodeTerminal[device[t].token[2]] = t
         /\ device[t].store = CodeStore[device[t].token[2]]
         /\ code[device[t].token[2]].status = "used"
    /\ \A h \in handed : device[h[2]].state # "none" /\ device[h[2]].token = h[1]
    /\ \A k \in Codes : tried[k] <= code[k].attempts /\ tried[k] <= MaxAttempts

\* Of the sessions up to n none is live at the terminal in the store.
ClearUpTo(n, t, s) ==
    /\ n <= Len(sessions)
    /\ \A j \in 1..n :
         sessions[j].terminal = t /\ sessions[j].store = s => sessions[j].state # "live"

SessionsStand ==
    /\ \A i \in 1..Len(sessions) :
         /\ HasRow(sessions[i].user, TenantOf[sessions[i].store])
         /\ device[sessions[i].terminal].state # "none"
         /\ ClearUpTo(sessions[i].floor, sessions[i].terminal, sessions[i].store)
    /\ \A x \in ended : x[1] \in 1..Len(sessions) /\ sessions[x[1]].state = "revoked"
    /\ \A x, y \in ended : x[1] = y[1] => x[2] = y[2]

\* Session i was issued by takeover e to user u.
IssuedBy(i, e, u) ==
    i \in 1..Len(sessions) /\ sessions[i].event = e /\ sessions[i].user = u

KeysStand ==
    /\ \A e \in TakeoverEvents :
         key[e] # None /\ key[e].session # 0 => IssuedBy(key[e].session, e, key[e].operator)
    /\ \A r \in replayed : IssuedBy(r[3], r[1], r[2])

PairSteps == {"attempt", "branch", "provision"}
OperateSteps == {"membership", "check", "key", "revoke", "issue", "record"}
TillSteps == PairSteps \cup OperateSteps \cup {"sign_out", "reverify", "events"}

PairShape(r) ==
    r.at \in PairSteps =>
        r \in [at : PairSteps, code : Codes,
              status : {"none", "pending", "used", "cancelled"}, attempts : Nat]

\* A request past the membership check is of a user with a row; a takeover past
\* its key owns the key; one that has looked at its terminal saw or left nothing
\* live behind it; one that has issued knows its session.
OperateShape(r) ==
    r.at \in OperateSteps =>
        /\ r \in [at : OperateSteps, kind : {"sign_in", "takeover"}, user : Users,
                  terminal : Terminals, store : Stores,
                  event : TakeoverEvents \cup {None}, floor : Nat, session : Nat]
        /\ device[r.terminal].state # "none"
        /\ r.kind = "takeover" => r.event \in TakeoverEvents
        /\ r.at \in {"key", "revoke", "record"} => r.kind = "takeover"
        /\ r.at = "check" => r.kind = "sign_in"
        /\ r.at # "membership" => HasRow(r.user, TenantOf[r.store])
        /\ r.kind = "takeover" /\ r.at \in {"revoke", "issue", "record"} =>
             key[r.event] # None /\ key[r.event].operator = r.user
        /\ r.at \in {"membership", "check", "key", "revoke"} => r.floor = 0
        /\ ClearUpTo(r.floor, r.terminal, r.store)
        /\ r.at = "record" => IssuedBy(r.session, r.event, r.user)

\* A sale that began barred finds its device dead, or its membership still
\* insufficient unless it was edited; past the device's check only the latter.
SellShape(r) ==
    r.at = "reverify" =>
        /\ r \in [at : {"reverify"}, session : Nat, barred : BOOLEAN,
                  device : BOOLEAN, edits : Nat]
        /\ r.session \in 1..Len(sessions)
        /\ r.edits <= MemberOf(r.session).edits
        /\ r.barred =>
             \/ ~r.device /\ device[sessions[r.session].terminal].state # "live"
             \/ MemberOf(r.session).edits = r.edits =>
                  ~Verified(sessions[r.session].user, sessions[r.session].store)

\* What a batch has been told is accepted is stored and not yet answered.
UploadShape(r) ==
    r.at = "events" =>
        /\ r \in [at : {"events"}, store : Stores, todo : SUBSET AuditEvents,
                  ok : SUBSET AuditEvents]
        /\ r.ok \subseteq events
        /\ \A a \in r.ok : accepted[a] = 0

TillShape(r) ==
    /\ PairShape(r)
    /\ OperateShape(r)
    /\ r.at = "sign_out" => r.session \in 1..Len(sessions)
    /\ SellShape(r)
    /\ UploadShape(r)

\* An event is accepted in one batch at most, and answered only when stored.
AcceptedByOne ==
    /\ \A c, d \in Clients :
         c # d /\ At(c, "events") /\ At(d, "events") => req[c].ok \cap req[d].ok = {}
    /\ \A a \in AuditEvents : accepted[a] # 0 => accepted[a] = 1 /\ a \in events
    /\ ShiftsStand

TillInvariant ==
    /\ TypeOK
    /\ HistoryTypeOK
    /\ Paired
    /\ SessionsStand
    /\ KeysStand
    /\ AcceptedByOne
    /\ NoSaleOnceBarred
    /\ \A c \in Clients : TillShape(req[c])

IdentityInvariant == AccountsInvariant /\ TillInvariant
=============================================================================
