-------------------------- MODULE PosIdentityProofs ---------------------------
(***************************************************************************)
(* IdentityInvariant is an invariant of Spec, for any number of clients,    *)
(* users, tenants, terminals and mixes; the properties of Accounts and of   *)
(* PosIdentity follow from it.                                              *)
(*                                                                         *)
(* The tables only grow in the ways the first definitions name: rows stay,  *)
(* what is dead stays dead, an edited membership has a new count.  What a   *)
(* request under way knows of them is therefore undisturbed by the others   *)
(* (AccountsOthers, TillOthers), and each action is left with its own       *)
(* request and the table it writes.                                         *)
(***************************************************************************)
EXTENDS PosIdentity, SequenceTheorems, TLAPS

\* Rows of memberships stay; at the same count of edits a row has changed at
\* most by being revoked.
MembershipGrows ==
    \A u \in Users, g \in Tenants :
        LET m == membership[u][g]  n == membership'[u][g] IN
        m.state # "none" =>
            /\ n.state # "none"
            /\ m.edits <= n.edits
            /\ n.edits = m.edits =>
                 /\ n.role = m.role /\ n.kind = m.kind /\ n.stores = m.stores
                 /\ n.state = "active" => m.state = "active"

LoginsGrow ==
    /\ Len(logins) <= Len(logins')
    /\ \A i \in 1..Len(logins) :
         /\ logins'[i].user = logins[i].user
         /\ logins'[i].state = "live" => logins[i].state = "live"

DevicesGrow ==
    \A t \in Terminals : device[t].state # "none" =>
        /\ device'[t].state # "none"
        /\ device'[t].state = "live" => device[t].state = "live"

SessionsGrow ==
    /\ Len(sessions) <= Len(sessions')
    /\ \A i \in 1..Len(sessions) :
         /\ sessions'[i].user = sessions[i].user
         /\ sessions'[i].terminal = sessions[i].terminal
         /\ sessions'[i].store = sessions[i].store
         /\ sessions'[i].event = sessions[i].event
         /\ sessions'[i].floor = sessions[i].floor
         /\ sessions'[i].state = "live" => sessions[i].state = "live"
         /\ sessions[i].state = "revoked" => sessions'[i].state = "revoked"

KeysGrow ==
    \A e \in TakeoverEvents : key[e] # None =>
        key'[e] # None /\ key'[e].operator = key[e].operator

\* Only client c's request changes.
Only(c) ==
    /\ req' = [d \in Clients |-> req'[d]]
    /\ \A d \in Clients \ {c} : req'[d] = req[d]

\* At most one request changes, and it is none of a till.
NoTill ==
    \/ UNCHANGED req
    \/ \E c \in Clients : Only(c) /\ req'[c].at \notin TillSteps

-----------------------------------------------------------------------------
(* Requests.                                                                 *)

\* Begin starts the request of one client.
LEMMA BeginOnly ==
    ASSUME AccountsInvariant, NEW c \in Clients, NEW r, Begin(c, r)
    PROVE  Only(c) /\ req'[c] = r
BY DEF AccountsInvariant, Begin, Only

\* Finish ends the request of one client, and an ended request is of no shape.
LEMMA FinishOnly ==
    ASSUME AccountsInvariant, NEW c \in Clients, Finish(c)
    PROVE  /\ Only(c) /\ req'[c].at \notin TillSteps /\ req'[c].at # "events"
           /\ req'[c].at \notin AccountsSteps
           /\ AccountsShape(req[c])' /\ TillShape(req[c])'
<1>1. Only(c) /\ req'[c] = Idle
  BY DEF AccountsInvariant, Finish, Only
<1>2. req'[c].at = "idle"
  BY <1>1 DEF Idle
<1>3. AccountsShape(req[c])'
  BY <1>2 DEF AccountsShape, TokenShape, ContextShape, WriteShape, TokenSteps, WriteSteps
<1>4. TillShape(req[c])' /\ req'[c].at \notin TillSteps
  BY <1>2 DEF TillShape, PairShape, OperateShape, SellShape, UploadShape, TillSteps,
              PairSteps, OperateSteps
<1>5. req'[c].at \notin AccountsSteps
  BY <1>2 DEF AccountsSteps, TokenSteps, WriteSteps
<1> QED BY <1>1, <1>2, <1>3, <1>4, <1>5

\* GoTo moves the request of one client.
LEMMA GoToOnly ==
    ASSUME AccountsInvariant, NEW c \in Clients, NEW step, GoTo(c, step)
    PROVE  Only(c) /\ req'[c] = [req[c] EXCEPT !.at = step]
BY DEF AccountsInvariant, GoTo, Only

\* A request at a step of the other module has no shape here.
LEMMA NoAccountsShape ==
    ASSUME NEW c \in Clients, req'[c].at \notin AccountsSteps
    PROVE  AccountsShape(req[c])'
BY DEF AccountsShape, TokenShape, ContextShape, WriteShape, TokenSteps, WriteSteps,
       AccountsSteps

\* The same of a request at a step of the dashboard.
LEMMA NoTillShape ==
    ASSUME NEW c \in Clients, req'[c].at \notin TillSteps
    PROVE  TillShape(req[c])'
BY DEF TillShape, PairShape, OperateShape, SellShape, UploadShape, TillSteps,
       PairSteps, OperateSteps

-----------------------------------------------------------------------------
(* What others do does not disturb a request.                                *)

\* A membership that may not administer at the same count of edits still may
\* not, and a known user stays known.
LEMMA KnownStays ==
    ASSUME MembershipGrows, NEW u \in Users, NEW g \in Tenants
    PROVE  /\ HasRow(u, g) => HasRow(u, g)'
           /\ Known(u, g) => Known(u, g)'
           /\ HasRow(u, g) =>
                /\ membership[u][g].edits <= membership'[u][g].edits
                /\ membership'[u][g].edits = membership[u][g].edits /\ MayNot(u, g)
                     => MayNot(u, g)'
BY DEF MembershipGrows, HasRow, Known, MayNot

\* The dashboard's requests of other clients.
LEMMA AccountsOthers ==
    ASSUME AccountsTypeOK, AccountsTypeOK', MembershipGrows, LoginsGrow,
           Len(tokens) <= Len(tokens'), Len(invitations) <= Len(invitations'),
           NEW d \in Clients, AccountsShape(req[d]), req'[d] = req[d]
    PROVE  AccountsShape(req[d])'
<1> DEFINE r == req[d]
<1>0. /\ Len(tokens) \in Nat /\ Len(tokens') \in Nat
      /\ Len(logins) \in Nat /\ Len(logins') \in Nat
      /\ Len(invitations) \in Nat /\ Len(invitations') \in Nat
  BY LenProperties DEF AccountsTypeOK
<1>1. TokenShape(r)'
  BY <1>0 DEF AccountsShape, TokenShape, LoginsGrow
<1>2. ContextShape(r)'
  <2> SUFFICES ASSUME r.at \in {"store", "context"}
      PROVE  /\ r \in [at : {"store", "context"}, login : Nat,
                       tenant : Tenants \cup {None}, store : Stores \cup {None}]
             /\ r.login \in 1..Len(logins')
             /\ r.tenant # None => Known(logins[r.login].user, r.tenant)'
             /\ r.at = "context" /\ r.store # None => TenantOf[r.store] = r.tenant
    BY DEF ContextShape
  <2>1. /\ r \in [at : {"store", "context"}, login : Nat,
                  tenant : Tenants \cup {None}, store : Stores \cup {None}]
        /\ r.login \in 1..Len(logins)
        /\ r.tenant # None => Known(logins[r.login].user, r.tenant)
        /\ r.at = "context" /\ r.store # None => TenantOf[r.store] = r.tenant
    BY DEF AccountsShape, ContextShape
  <2>2. logins[r.login].user \in Users /\ logins'[r.login].user = logins[r.login].user
    <3>1. logins[r.login] \in LoginRow
      BY <2>1, ElementOfSeq DEF AccountsTypeOK
    <3> QED BY <2>1, <3>1 DEF LoginRow, LoginsGrow
  <2>3. ASSUME r.tenant # None PROVE Known(logins[r.login].user, r.tenant)'
    <3>1. r.tenant \in Tenants
      BY <2>1, <2>3
    <3>2. Known(logins[r.login].user, r.tenant)
      BY <2>1, <2>3
    <3> QED BY <2>2, <3>1, <3>2 DEF Known, HasRow, MembershipGrows
  <2> QED BY <1>0, <2>1, <2>3 DEF LoginsGrow
<1>3. WriteShape(r)'
  <2>1. ASSUME r.at \in WriteSteps PROVE BarredShape(r)'
    <3> DEFINE m == membership[r.user][r.tenant]
    <3>1. r.user \in Users /\ r.tenant \in Tenants /\ r.edits \in Nat
      BY <2>1 DEF AccountsShape, WriteShape, WriteSteps
    <3>2. m.edits \in Nat /\ m'.edits \in Nat
      BY <3>1 DEF AccountsTypeOK, MembershipRow
    <3>3. BarredShape(r)
      BY <2>1 DEF AccountsShape, WriteShape
    <3> SUFFICES ASSUME r.barred
        PROVE  /\ r.user \notin Admins /\ m'.state # "none"
               /\ r.edits <= m'.edits
               /\ m'.edits = r.edits => r.at = "guard" /\ MayNot(r.user, r.tenant)'
      BY DEF BarredShape
    <3>4. /\ r.user \notin Admins /\ HasRow(r.user, r.tenant)
          /\ r.edits <= m.edits
          /\ m.edits = r.edits => r.at = "guard" /\ MayNot(r.user, r.tenant)
      BY <3>3 DEF BarredShape, HasRow
    <3>5. /\ HasRow(r.user, r.tenant)'
          /\ m.edits <= m'.edits
          /\ m'.edits = m.edits /\ MayNot(r.user, r.tenant) => MayNot(r.user, r.tenant)'
      <4>1. PICK u \in Users, g \in Tenants : u = r.user /\ g = r.tenant
        BY <3>1
      <4>2. u = r'.user /\ g = r'.tenant
        BY <4>1
      <4> HIDE DEF r
      <4> QED BY <3>4, <4>1, <4>2, KnownStays DEF HasRow, MayNot
    <3> QED BY <3>2, <3>1, <3>4, <3>5 DEF HasRow
  <2> QED BY <2>1 DEF AccountsShape, WriteShape
<1> QED BY <1>0, <1>1, <1>2, <1>3 DEF AccountsShape

\* A step of client c leaves the invariant to the tables and to c's request.
LEMMA AccountsStep ==
    ASSUME AccountsInvariant, NEW c \in Clients, Only(c), AccountsTypeOK',
           MembershipGrows, LoginsGrow,
           Len(tokens) <= Len(tokens'), Len(invitations) <= Len(invitations'),
           ContextOfMember', AcceptedMadeRow', BarredNeverWrites',
           AccountsShape(req[c])'
    PROVE  AccountsInvariant'
<1>1. ASSUME NEW d \in Clients PROVE AccountsShape(req[d])'
  <2>1. CASE d = c
    BY <2>1
  <2>2. CASE d # c
    <3>1. req'[d] = req[d] /\ AccountsShape(req[d]) /\ AccountsTypeOK
      BY <2>2 DEF Only, AccountsInvariant
    <3> QED BY <3>1, AccountsOthers
  <2> QED BY <2>1, <2>2
<1> QED BY <1>1 DEF AccountsInvariant, Only

\* The same of a step that changes no request.
LEMMA AccountsQuiet ==
    ASSUME AccountsInvariant, UNCHANGED req, AccountsTypeOK',
           MembershipGrows, LoginsGrow,
           Len(tokens) <= Len(tokens'), Len(invitations) <= Len(invitations'),
           ContextOfMember', AcceptedMadeRow', BarredNeverWrites'
    PROVE  AccountsInvariant'
<1>1. ASSUME NEW d \in Clients PROVE AccountsShape(req[d])'
  <2>1. req'[d] = req[d] /\ AccountsShape(req[d]) /\ AccountsTypeOK
    BY DEF AccountsInvariant
  <2> QED BY <2>1, AccountsOthers
<1> QED BY <1>1 DEF AccountsInvariant

\* Tables that do not change grow.
LEMMA NothingGrows ==
    ASSUME AccountsInvariant
    PROVE  /\ UNCHANGED membership => MembershipGrows
           /\ UNCHANGED logins => LoginsGrow
           /\ UNCHANGED tokens => Len(tokens) <= Len(tokens')
           /\ UNCHANGED invitations => Len(invitations) <= Len(invitations')
<1>1. /\ Len(tokens) \in Nat /\ Len(logins) \in Nat /\ Len(invitations) \in Nat
  BY LenProperties DEF AccountsInvariant, AccountsTypeOK
<1>2. ASSUME NEW u \in Users, NEW g \in Tenants PROVE membership[u][g].edits \in Nat
  BY DEF AccountsInvariant, AccountsTypeOK, MembershipRow
<1> QED BY <1>1, <1>2 DEF MembershipGrows, LoginsGrow

\* What the dashboard's tables promise each other survives when they do not
\* change, or only memberships do.
LEMMA AccountsTablesStay ==
    ASSUME AccountsInvariant, MembershipGrows
    PROVE  /\ UNCHANGED logins => ContextOfMember'
           /\ UNCHANGED invitations => AcceptedMadeRow'
<1> USE DEF AccountsInvariant
<1>1. ASSUME UNCHANGED logins PROVE ContextOfMember'
  <2> SUFFICES ASSUME NEW i \in 1..Len(logins), logins[i].tenant # None
      PROVE  Known(logins[i].user, logins[i].tenant)'
    BY <1>1 DEF ContextOfMember
  <2>1. logins[i] \in LoginRow
    BY ElementOfSeq DEF AccountsTypeOK
  <2>2. logins[i].user \in Users /\ logins[i].tenant \in Tenants
    BY <2>1 DEF LoginRow
  <2>3. Known(logins[i].user, logins[i].tenant)
    BY DEF ContextOfMember
  <2> QED BY <1>1, <2>2, <2>3 DEF Known, HasRow, MembershipGrows
<1>3. ASSUME UNCHANGED invitations PROVE AcceptedMadeRow'
  <2>1. ASSUME NEW n \in 1..Len(invitations), invitations[n].status = "accepted"
        PROVE  HasRow(invitations[n].user, invitations[n].tenant)'
    <3>1. invitations[n] \in InvitationRow
      BY ElementOfSeq DEF AccountsTypeOK
    <3>2. invitations[n].user \in Users /\ invitations[n].tenant \in Tenants
      BY <3>1 DEF InvitationRow
    <3>3. HasRow(invitations[n].user, invitations[n].tenant)
      BY <2>1 DEF AcceptedMadeRow
    <3> QED BY <1>3, <3>2, <3>3 DEF HasRow, MembershipGrows
  <2> QED BY <1>3, <2>1 DEF AcceptedMadeRow
<1> QED BY <1>1, <1>3

\* A step that leaves the dashboard's tables alone and moves one request to a
\* shape, or to a step of the tills, keeps the dashboard's invariant.
LEMMA AccountsRequest ==
    ASSUME AccountsInvariant, UNCHANGED accounts,
           NEW c \in Clients, Only(c), AccountsShape(req[c])'
    PROVE  AccountsInvariant' /\ MembershipGrows
<1>1. AccountsTypeOK' /\ BarredNeverWrites'
  BY DEF AccountsInvariant, AccountsTypeOK, BarredNeverWrites, accounts, directory, dashboard
<1>2. /\ MembershipGrows /\ LoginsGrow
      /\ Len(tokens) <= Len(tokens') /\ Len(invitations) <= Len(invitations')
  BY NothingGrows DEF accounts, directory, dashboard
<1>3. ContextOfMember' /\ AcceptedMadeRow'
  BY <1>2, AccountsTablesStay DEF accounts, directory, dashboard
<1> QED BY <1>1, <1>2, <1>3, AccountsStep

\* A step that leaves the tables and the requests alone.
LEMMA AccountsUntouched ==
    ASSUME AccountsInvariant, UNCHANGED accounts, UNCHANGED req
    PROVE  AccountsInvariant' /\ MembershipGrows
<1>1. AccountsTypeOK' /\ BarredNeverWrites'
  BY DEF AccountsInvariant, AccountsTypeOK, BarredNeverWrites, accounts, directory, dashboard
<1>2. /\ MembershipGrows /\ LoginsGrow
      /\ Len(tokens) <= Len(tokens') /\ Len(invitations) <= Len(invitations')
  BY NothingGrows DEF accounts, directory, dashboard
<1>3. ContextOfMember' /\ AcceptedMadeRow'
  BY <1>2, AccountsTablesStay DEF accounts, directory, dashboard
<1> QED BY <1>1, <1>2, <1>3, AccountsQuiet

-----------------------------------------------------------------------------
(* Dashboard sessions and mailed tokens.                                     *)

\* An action that only moves a request of the dashboard.
LEMMA MovesRequest ==
    ASSUME AccountsInvariant, UNCHANGED accounts, NEW c \in Clients, Only(c),
           req'[c].at \notin TillSteps, AccountsShape(req[c])'
    PROVE  AccountsInvariant' /\ MembershipGrows /\ NoTill
BY AccountsRequest DEF NoTill

\* A sign-in begins and writes nothing.
LEMMA VerifyPasswordKeeps ==
    ASSUME AccountsInvariant, NEW c \in Clients, NEW u \in Users, VerifyPassword(c, u)
    PROVE  AccountsInvariant' /\ MembershipGrows /\ NoTill
<1>1. Only(c) /\ req'[c] = [at |-> "login", user |-> u]
  BY BeginOnly DEF VerifyPassword
<1>2. AccountsShape(req[c])'
  BY <1>1 DEF AccountsShape, TokenShape, ContextShape, WriteShape, TokenSteps, WriteSteps
<1>3. req'[c].at \notin TillSteps
  BY <1>1 DEF TillSteps, PairSteps, OperateSteps
<1> QED BY <1>1, <1>2, <1>3, MovesRequest DEF VerifyPassword

\* The token a confirmation found is one of the rows.
LEMMA FindTokenKeeps ==
    ASSUME AccountsInvariant, NEW c \in Clients, NEW i \in 1..Len(tokens), FindToken(c, i)
    PROVE  AccountsInvariant' /\ MembershipGrows /\ NoTill
<1>1. /\ Only(c)
      /\ req'[c] = [at |-> tokens[i].scope, token |-> i, user |-> tokens[i].user]
  BY BeginOnly DEF FindToken
<1>2. tokens[i] \in TokenRow /\ Len(tokens) \in Nat /\ Len(logins) \in Nat
  BY ElementOfSeq, LenProperties DEF AccountsInvariant, AccountsTypeOK
<1>3. tokens[i].scope \in {"password_reset", "email_verify"} /\ tokens[i].user \in Users
  BY <1>2 DEF TokenRow
<1>4. UNCHANGED tokens /\ UNCHANGED logins
  BY DEF FindToken, accounts, dashboard
<1>5. AccountsShape(req[c])'
  BY <1>1, <1>2, <1>3, <1>4
     DEF AccountsShape, TokenShape, ContextShape, WriteShape, TokenSteps, WriteSteps
<1>6. req'[c].at \notin TillSteps
  BY <1>1, <1>3 DEF TillSteps, PairSteps, OperateSteps
<1> QED BY <1>1, <1>5, <1>6, MovesRequest DEF FindToken

\* A new password moves its request on; no table of the model holds it.
LEMMA UpdatePasswordKeeps ==
    ASSUME AccountsInvariant, NEW c \in Clients, UpdatePassword(c)
    PROVE  AccountsInvariant' /\ MembershipGrows /\ NoTill
<1>1. Only(c) /\ req'[c] = [req[c] EXCEPT !.at = "revoke_reset"]
  BY GoToOnly DEF UpdatePassword
<1>2. /\ req[c] \in [at : TokenSteps, token : Nat, user : Users]
      /\ req[c].token \in 1..Len(tokens)
  BY DEF AccountsInvariant, UpdatePassword, At, AccountsShape, TokenShape, TokenSteps
<1>3. Len(tokens) \in Nat /\ Len(logins) \in Nat
  BY LenProperties DEF AccountsInvariant, AccountsTypeOK
<1>4. UNCHANGED tokens /\ UNCHANGED logins
  BY DEF UpdatePassword, accounts, dashboard
<1>5. /\ req'[c] \in [at : TokenSteps, token : Nat, user : Users]
      /\ req'[c].at = "revoke_reset" /\ req'[c].token = req[c].token
  BY <1>1, <1>2, <1>3 DEF TokenSteps
<1>6. AccountsShape(req[c])'
  BY <1>2, <1>3, <1>4, <1>5
     DEF AccountsShape, TokenShape, ContextShape, WriteShape, WriteSteps
<1>7. req'[c].at \notin TillSteps
  BY <1>5 DEF TillSteps, PairSteps, OperateSteps
<1> QED BY <1>1, <1>6, <1>7, MovesRequest DEF UpdatePassword

\* A new session is live and of no tenant.
LEMMA CreateLoginKeeps ==
    ASSUME AccountsInvariant, NEW c \in Clients, CreateLogin(c)
    PROVE  AccountsInvariant' /\ MembershipGrows /\ NoTill
<1> DEFINE row == [user |-> req[c].user, state |-> "live", tenant |-> None, store |-> None]
<1>1. /\ Only(c) /\ req'[c].at \notin TillSteps /\ AccountsShape(req[c])'
  BY FinishOnly DEF CreateLogin
<1>2. /\ logins' = Append(logins, row)
      /\ UNCHANGED <<tenant, store, membership, invitations, verified, tokens, writes>>
  BY DEF CreateLogin, directory
<1>3. row \in LoginRow
  BY DEF AccountsInvariant, CreateLogin, At, AccountsShape, LoginRow
<1>4. row.tenant = None /\ row.store = None
  OBVIOUS
<1> HIDE DEF row
<1>5. logins \in Seq(LoginRow) /\ Len(logins) \in Nat
  BY LenProperties DEF AccountsInvariant, AccountsTypeOK
<1>6. /\ logins' \in Seq(LoginRow)
      /\ Len(logins') = Len(logins) + 1
      /\ \A i \in 1..Len(logins) : logins'[i] = logins[i]
      /\ logins'[Len(logins) + 1] = row
  BY <1>2, <1>3, <1>5, AppendProperties
<1>7. AccountsTypeOK' /\ BarredNeverWrites'
  BY <1>2, <1>6 DEF AccountsInvariant, AccountsTypeOK, BarredNeverWrites
<1>8. /\ MembershipGrows
      /\ Len(tokens) <= Len(tokens') /\ Len(invitations) <= Len(invitations')
  BY <1>2, NothingGrows
<1>9. LoginsGrow
  BY <1>5, <1>6 DEF LoginsGrow
<1>10. AcceptedMadeRow'
  BY <1>2, <1>8, AccountsTablesStay
<1>11. ContextOfMember'
  <2> SUFFICES ASSUME NEW i \in 1..Len(logins')
      PROVE  /\ logins'[i].store # None => TenantOf[logins'[i].store] = logins'[i].tenant
             /\ logins'[i].tenant # None => Known(logins[i].user, logins[i].tenant)'
    BY DEF ContextOfMember
  <2>1. CASE i = Len(logins) + 1
    BY <1>4, <1>6, <2>1
  <2>2. CASE i # Len(logins) + 1
    <3>1. i \in 1..Len(logins) /\ logins'[i] = logins[i]
      BY <1>5, <1>6, <2>2
    <3> QED BY <1>2, <3>1 DEF AccountsInvariant, ContextOfMember, Known, HasRow
  <2> QED BY <2>1, <2>2
<1> QED BY <1>1, <1>7, <1>8, <1>9, <1>10, <1>11, AccountsStep DEF NoTill

\* Sessions changed in place: no user changes, none comes alive, and every
\* context is as it was or one its user is known to.
LEMMA LoginsInPlace ==
    ASSUME AccountsInvariant,
           UNCHANGED <<tenant, store, membership, invitations, verified, tokens, writes>>,
           logins' \in Seq(LoginRow), Len(logins') = Len(logins),
           \A i \in 1..Len(logins) :
              /\ logins'[i].user = logins[i].user
              /\ logins'[i].state = "live" => logins[i].state = "live"
              /\ logins'[i].store # None => TenantOf[logins'[i].store] = logins'[i].tenant
              /\ logins'[i].tenant # None => Known(logins[i].user, logins'[i].tenant)
    PROVE  /\ AccountsTypeOK' /\ BarredNeverWrites' /\ MembershipGrows /\ LoginsGrow
           /\ Len(tokens) <= Len(tokens') /\ Len(invitations) <= Len(invitations')
           /\ AcceptedMadeRow' /\ ContextOfMember'
<1>1. Len(logins) \in Nat
  BY LenProperties DEF AccountsInvariant, AccountsTypeOK
<1>2. AccountsTypeOK' /\ BarredNeverWrites'
  BY DEF AccountsInvariant, AccountsTypeOK, BarredNeverWrites
<1>3. /\ MembershipGrows
      /\ Len(tokens) <= Len(tokens') /\ Len(invitations) <= Len(invitations')
  BY NothingGrows
<1>4. LoginsGrow
  BY <1>1 DEF LoginsGrow
<1>5. AcceptedMadeRow'
  BY <1>3, AccountsTablesStay
<1>6. ContextOfMember'
  BY DEF ContextOfMember, Known, HasRow
<1> QED BY <1>2, <1>3, <1>4, <1>5, <1>6

\* A session that is ended, by its user, by a job or by its expiry.
LEMMA EndLoginKeeps ==
    ASSUME AccountsInvariant, NEW i \in 1..Len(logins), NEW s \in {"revoked", "expired"},
           logins' = [logins EXCEPT ![i].state = s],
           UNCHANGED <<directory, verified, tokens, writes, req>>
    PROVE  AccountsInvariant' /\ MembershipGrows /\ NoTill
<1> DEFINE row == [logins[i] EXCEPT !.state = s]
<1>1. logins \in Seq(LoginRow) /\ logins[i] \in LoginRow
  BY ElementOfSeq DEF AccountsInvariant, AccountsTypeOK
<1>2. /\ row \in LoginRow /\ row.user = logins[i].user /\ row.state # "live"
      /\ row.tenant = logins[i].tenant /\ row.store = logins[i].store
  BY <1>1 DEF LoginRow
<1>3. logins' = [logins EXCEPT ![i] = row]
  OBVIOUS
<1> HIDE DEF row
<1>4. /\ logins' \in Seq(LoginRow) /\ Len(logins') = Len(logins)
      /\ \A j \in 1..Len(logins) : logins'[j] = IF j = i THEN row ELSE logins[j]
  BY SMTT(30), <1>1, <1>2, <1>3, ExceptSeq
<1>5. \A j \in 1..Len(logins) :
         /\ logins'[j].user = logins[j].user
         /\ logins'[j].state = "live" => logins[j].state = "live"
         /\ logins'[j].tenant = logins[j].tenant /\ logins'[j].store = logins[j].store
  BY <1>2, <1>4
<1>6. /\ AccountsTypeOK' /\ BarredNeverWrites' /\ MembershipGrows /\ LoginsGrow
      /\ Len(tokens) <= Len(tokens') /\ Len(invitations) <= Len(invitations')
      /\ AcceptedMadeRow' /\ ContextOfMember'
  <2>1. /\ UNCHANGED <<tenant, store, membership, invitations, verified, tokens, writes>>
    BY DEF directory, AccountsInvariant, AccountsTypeOK
  <2>2. \A j \in 1..Len(logins) :
          /\ logins[j].store # None => TenantOf[logins[j].store] = logins[j].tenant
          /\ logins[j].tenant # None => Known(logins[j].user, logins[j].tenant)
    BY DEF AccountsInvariant, ContextOfMember
  <2>3. \A j \in 1..Len(logins) :
          /\ logins'[j].user = logins[j].user
          /\ logins'[j].state = "live" => logins[j].state = "live"
          /\ logins'[j].store # None => TenantOf[logins'[j].store] = logins'[j].tenant
          /\ logins'[j].tenant # None => Known(logins[j].user, logins'[j].tenant)
    BY <1>5, <2>2
  <2> QED BY <1>4, <2>1, <2>3, LoginsInPlace
<1> QED BY <1>6, AccountsQuiet DEF NoTill

\* A session whose context a switch writes.
LEMMA UpdateActiveContextKeeps ==
    ASSUME AccountsInvariant, NEW c \in Clients, UpdateActiveContext(c)
    PROVE  AccountsInvariant' /\ MembershipGrows /\ NoTill
<1> DEFINE i == req[c].login  g == req[c].tenant  s == req[c].store
           row == WithContext(logins[i], g, s)
<1>1. /\ i \in 1..Len(logins) /\ g \in Tenants \cup {None} /\ s \in Stores \cup {None}
      /\ g # None => Known(logins[i].user, g)
      /\ s # None => TenantOf[s] = g
  BY DEF AccountsInvariant, UpdateActiveContext, At, AccountsShape, ContextShape
<1>2. logins \in Seq(LoginRow) /\ logins[i] \in LoginRow
  BY <1>1, ElementOfSeq DEF AccountsInvariant, AccountsTypeOK
<1>3. /\ row \in LoginRow /\ row.user = logins[i].user /\ row.state = logins[i].state
      /\ row.tenant = g /\ row.store = s
  BY <1>1, <1>2 DEF LoginRow, WithContext
<1>4. logins' = logins \/ logins' = [logins EXCEPT ![i] = row]
  BY DEF UpdateActiveContext
<1>5. /\ Only(c) /\ req'[c].at \notin TillSteps /\ AccountsShape(req[c])'
  BY FinishOnly DEF UpdateActiveContext
<1>6. /\ UNCHANGED <<tenant, store, membership, invitations, verified, tokens, writes>>
  BY DEF UpdateActiveContext, directory, AccountsInvariant, AccountsTypeOK
<1>7. \A j \in 1..Len(logins) :
        /\ logins[j].store # None => TenantOf[logins[j].store] = logins[j].tenant
        /\ logins[j].tenant # None => Known(logins[j].user, logins[j].tenant)
  BY DEF AccountsInvariant, ContextOfMember
<1> HIDE DEF i, g, s, row
<1>8. /\ logins' \in Seq(LoginRow) /\ Len(logins') = Len(logins)
      /\ \A j \in 1..Len(logins) : logins'[j] = logins[j] \/ (j = i /\ logins'[j] = row)
  <2>1. CASE logins' = logins
    BY <1>2, <2>1
  <2>2. CASE logins' = [logins EXCEPT ![i] = row]
    BY <1>1, <1>2, <1>3, <2>2, ExceptSeq
  <2> QED BY <1>4, <2>1, <2>2
<1>9. \A j \in 1..Len(logins) :
        /\ logins'[j].user = logins[j].user
        /\ logins'[j].state = "live" => logins[j].state = "live"
        /\ logins'[j].store # None => TenantOf[logins'[j].store] = logins'[j].tenant
        /\ logins'[j].tenant # None => Known(logins[j].user, logins'[j].tenant)
  BY <1>1, <1>3, <1>7, <1>8
<1>10. /\ AccountsTypeOK' /\ BarredNeverWrites' /\ MembershipGrows /\ LoginsGrow
       /\ Len(tokens) <= Len(tokens') /\ Len(invitations) <= Len(invitations')
       /\ AcceptedMadeRow' /\ ContextOfMember'
  BY <1>6, <1>8, <1>9, LoginsInPlace
<1> QED BY <1>5, <1>10, AccountsStep DEF NoTill

\* A finished reset: every session of the user is revoked in its place.
LEMMA RevokeAllSessionsKeeps ==
    ASSUME AccountsInvariant, NEW c \in Clients, RevokeAllSessionsForUser(c)
    PROVE  AccountsInvariant' /\ MembershipGrows /\ NoTill
<1> DEFINE u == req[c].user
<1>2. logins \in Seq(LoginRow) /\ Len(logins) \in Nat
      /\ \A j \in 1..Len(logins) : logins[j] \in LoginRow
  BY ElementOfSeq, LenProperties DEF AccountsInvariant, AccountsTypeOK
<1>3. logins' = [j \in 1..Len(logins) |->
                   IF logins[j].user = u THEN [logins[j] EXCEPT !.state = "revoked"]
                   ELSE logins[j]]
  BY DEF RevokeAllSessionsForUser
<1>5. /\ Only(c) /\ req'[c].at \notin TillSteps /\ AccountsShape(req[c])'
  BY FinishOnly DEF RevokeAllSessionsForUser
<1>6. UNCHANGED <<tenant, store, membership, invitations, verified, tokens, writes>>
  BY DEF RevokeAllSessionsForUser, directory
<1>7. \A j \in 1..Len(logins) :
        /\ logins[j].store # None => TenantOf[logins[j].store] = logins[j].tenant
        /\ logins[j].tenant # None => Known(logins[j].user, logins[j].tenant)
  BY DEF AccountsInvariant, ContextOfMember
<1> HIDE DEF u
<1>8. \A j \in 1..Len(logins) :
        /\ logins'[j] \in LoginRow
        /\ logins'[j].user = logins[j].user
        /\ logins'[j].tenant = logins[j].tenant /\ logins'[j].store = logins[j].store
        /\ logins'[j].state = "live" => logins[j].state = "live"
  BY <1>2, <1>3 DEF LoginRow
<1>9. logins' \in Seq(LoginRow) /\ Len(logins') = Len(logins)
  <2>1. logins' \in [1..Len(logins) -> LoginRow]
    BY <1>3, <1>8
  <2> QED BY <1>2, <2>1, SeqDef, LenProperties
<1>11. \A j \in 1..Len(logins) :
        /\ logins'[j].user = logins[j].user
        /\ logins'[j].state = "live" => logins[j].state = "live"
        /\ logins'[j].store # None => TenantOf[logins'[j].store] = logins'[j].tenant
        /\ logins'[j].tenant # None => Known(logins[j].user, logins'[j].tenant)
  BY <1>7, <1>8
<1>12. /\ AccountsTypeOK' /\ BarredNeverWrites' /\ MembershipGrows /\ LoginsGrow
       /\ Len(tokens) <= Len(tokens') /\ Len(invitations) <= Len(invitations')
       /\ AcceptedMadeRow' /\ ContextOfMember'
  BY <1>6, <1>9, <1>11, LoginsInPlace
<1> QED BY <1>5, <1>12, AccountsStep DEF NoTill

\* Nothing but tokens and verified changes, and no token disappears.
LEMMA TokensChange ==
    ASSUME AccountsInvariant,
           UNCHANGED <<tenant, store, membership, invitations, logins, writes>>,
           verified' \subseteq Users, tokens' \in Seq(TokenRow), Len(tokens) <= Len(tokens')
    PROVE  /\ AccountsTypeOK' /\ BarredNeverWrites' /\ MembershipGrows /\ LoginsGrow
           /\ Len(invitations) <= Len(invitations')
           /\ AcceptedMadeRow' /\ ContextOfMember'
<1>1. AccountsTypeOK' /\ BarredNeverWrites'
  BY DEF AccountsInvariant, AccountsTypeOK, BarredNeverWrites
<1>2. MembershipGrows /\ LoginsGrow /\ Len(invitations) <= Len(invitations')
  BY NothingGrows
<1>3. AcceptedMadeRow' /\ ContextOfMember'
  BY <1>2, AccountsTablesStay
<1> QED BY <1>1, <1>2, <1>3

\* A new token leaves the others where they are.
LEMMA IssueTokenKeeps ==
    ASSUME AccountsInvariant, NEW u \in Users,
           NEW scope \in {"password_reset", "email_verify"}, IssueToken(u, scope)
    PROVE  AccountsInvariant' /\ MembershipGrows /\ NoTill
<1> DEFINE row == [user |-> u, scope |-> scope, state |-> "live"]
<1>1. row \in TokenRow
  BY DEF TokenRow
<1>2. tokens' = Append(tokens, row) /\ UNCHANGED req
      /\ UNCHANGED <<tenant, store, membership, invitations, logins, writes>>
      /\ verified' = verified
  BY DEF IssueToken, directory
<1> HIDE DEF row
<1>3. tokens \in Seq(TokenRow) /\ Len(tokens) \in Nat /\ verified \subseteq Users
  BY LenProperties DEF AccountsInvariant, AccountsTypeOK
<1>4. tokens' \in Seq(TokenRow) /\ Len(tokens) <= Len(tokens')
  <2>1. tokens' \in Seq(TokenRow) /\ Len(tokens') = Len(tokens) + 1
    BY <1>1, <1>2, <1>3, AppendProperties
  <2> QED BY <1>3, <2>1
<1>5. verified' \subseteq Users
  BY <1>2, <1>3
<1>6. /\ AccountsTypeOK' /\ BarredNeverWrites' /\ MembershipGrows /\ LoginsGrow
      /\ Len(invitations) <= Len(invitations')
      /\ AcceptedMadeRow' /\ ContextOfMember'
  BY <1>2, <1>4, <1>5, TokensChange
<1> QED BY <1>2, <1>4, <1>6, AccountsQuiet DEF NoTill

\* A token that is set to a dead state.
LEMMA TokenEnds ==
    ASSUME AccountsInvariant, NEW i \in 1..Len(tokens), NEW s \in {"revoked", "expired"},
           tokens' = [tokens EXCEPT ![i].state = s]
    PROVE  tokens' \in Seq(TokenRow) /\ Len(tokens) <= Len(tokens')
<1> DEFINE row == [tokens[i] EXCEPT !.state = s]
<1>1. tokens \in Seq(TokenRow) /\ Len(tokens) \in Nat /\ tokens[i] \in TokenRow
  BY ElementOfSeq, LenProperties DEF AccountsInvariant, AccountsTypeOK
<1>2. row \in TokenRow
  BY <1>1 DEF TokenRow
<1>3. tokens' = [tokens EXCEPT ![i] = row]
  OBVIOUS
<1> HIDE DEF row
<1>4. tokens' \in Seq(TokenRow) /\ Len(tokens') = Len(tokens)
  BY <1>1, <1>2, <1>3, ExceptSeq
<1> QED BY <1>1, <1>4

\* A token expires in its place.
LEMMA ExpireTokenKeeps ==
    ASSUME AccountsInvariant, NEW i \in 1..Len(tokens), ExpireToken(i)
    PROVE  AccountsInvariant' /\ MembershipGrows /\ NoTill
<1>1. tokens' \in Seq(TokenRow) /\ Len(tokens) <= Len(tokens')
  BY TokenEnds DEF ExpireToken
<1>2. /\ UNCHANGED <<tenant, store, membership, invitations, logins, writes>>
      /\ verified' \subseteq Users /\ UNCHANGED req
  BY DEF ExpireToken, directory, AccountsInvariant, AccountsTypeOK
<1>3. /\ AccountsTypeOK' /\ BarredNeverWrites' /\ MembershipGrows /\ LoginsGrow
      /\ Len(invitations) <= Len(invitations')
      /\ AcceptedMadeRow' /\ ContextOfMember'
  BY <1>1, <1>2, TokensChange
<1> QED BY <1>1, <1>2, <1>3, AccountsQuiet DEF NoTill

\* Verifying an address writes nothing that a request relies on.
LEMMA MarkVerifiedKeeps ==
    ASSUME AccountsInvariant, NEW c \in Clients, MarkVerified(c)
    PROVE  AccountsInvariant' /\ MembershipGrows /\ NoTill
<1>1. Only(c) /\ req'[c] = [req[c] EXCEPT !.at = "revoke_verify"]
  BY GoToOnly DEF MarkVerified
<1>2. /\ req[c] \in [at : TokenSteps, token : Nat, user : Users]
      /\ req[c].token \in 1..Len(tokens)
  BY DEF AccountsInvariant, MarkVerified, At, AccountsShape, TokenShape, TokenSteps
<1>3. /\ UNCHANGED <<tenant, store, membership, invitations, logins, writes>>
      /\ UNCHANGED tokens /\ verified' = verified \cup {req[c].user}
  BY DEF MarkVerified, directory
<1>4. /\ verified' \subseteq Users /\ tokens' \in Seq(TokenRow) /\ Len(tokens) <= Len(tokens')
  BY <1>2, <1>3, NothingGrows DEF AccountsInvariant, AccountsTypeOK
<1>5. /\ req'[c] \in [at : TokenSteps, token : Nat, user : Users]
      /\ req'[c].at = "revoke_verify" /\ req'[c].token = req[c].token
  BY <1>1, <1>2 DEF TokenSteps
<1>6. AccountsShape(req[c])'
  BY <1>2, <1>3, <1>5 DEF AccountsShape, TokenShape, ContextShape, WriteShape, WriteSteps
<1>7. req'[c].at \notin TillSteps
  BY <1>5 DEF TillSteps, PairSteps, OperateSteps
<1>8. /\ AccountsTypeOK' /\ BarredNeverWrites' /\ MembershipGrows /\ LoginsGrow
      /\ Len(invitations) <= Len(invitations')
      /\ AcceptedMadeRow' /\ ContextOfMember'
  BY <1>3, <1>4, TokensChange
<1> QED BY <1>1, <1>4, <1>6, <1>7, <1>8, AccountsStep DEF NoTill

\* A confirmed token is revoked in its place.
LEMMA RevokeTokenKeeps ==
    ASSUME AccountsInvariant, NEW c \in Clients, RevokeToken(c)
    PROVE  AccountsInvariant' /\ MembershipGrows /\ NoTill
<1>1. /\ req[c] \in [at : TokenSteps, token : Nat, user : Users]
      /\ req[c].token \in 1..Len(tokens)
  BY DEF AccountsInvariant, RevokeToken, At, AccountsShape, TokenShape, TokenSteps
<1>2. tokens' \in Seq(TokenRow) /\ Len(tokens) <= Len(tokens')
  <2>1. tokens' = [tokens EXCEPT ![req[c].token].state = "revoked"]
    BY DEF RevokeToken
  <2> QED BY <1>1, <2>1, TokenEnds
<1>3. /\ UNCHANGED <<tenant, store, membership, invitations, logins, writes>>
      /\ verified' \subseteq Users
  BY DEF RevokeToken, directory, AccountsInvariant, AccountsTypeOK
<1>4. /\ AccountsTypeOK' /\ BarredNeverWrites' /\ MembershipGrows /\ LoginsGrow
      /\ Len(invitations) <= Len(invitations')
      /\ AcceptedMadeRow' /\ ContextOfMember'
  BY <1>2, <1>3, TokensChange
<1>5. /\ Only(c) /\ req'[c].at \notin TillSteps /\ AccountsShape(req[c])'
  <2>1. CASE ~At(c, "revoke_reset")
    BY <2>1, FinishOnly DEF RevokeToken
  <2>2. CASE At(c, "revoke_reset")
    <3>1. Only(c) /\ req'[c] = [req[c] EXCEPT !.at = "revoke_logins"]
      BY <2>2, GoToOnly DEF RevokeToken
    <3>2. /\ req'[c] \in [at : TokenSteps, token : Nat, user : Users]
          /\ req'[c].at = "revoke_logins" /\ req'[c].token = req[c].token
      BY <1>1, <3>1 DEF TokenSteps
    <3>3. Len(tokens) \in Nat /\ Len(tokens') \in Nat
      BY <1>2, LenProperties DEF AccountsInvariant, AccountsTypeOK
    <3>4. AccountsShape(req[c])'
      BY <1>1, <1>2, <1>3, <3>2, <3>3
         DEF AccountsShape, TokenShape, ContextShape, WriteShape, WriteSteps
    <3>5. req'[c].at \notin TillSteps
      BY <3>2 DEF TillSteps, PairSteps, OperateSteps
    <3> QED BY <3>1, <3>4, <3>5
  <2> QED BY <2>1, <2>2
<1> QED BY <1>2, <1>4, <1>5, AccountsStep DEF NoTill

-----------------------------------------------------------------------------
(* Switches of tenant and store.                                             *)

\* A request that is at a switch, of the shape it needs.
LEMMA SwitchShape ==
    ASSUME NEW c \in Clients, UNCHANGED logins, UNCHANGED membership,
           req'[c] \in [at : {"store", "context"}, login : Nat,
                        tenant : Tenants \cup {None}, store : Stores \cup {None}],
           req'[c].login \in 1..Len(logins),
           req'[c].tenant # None => Known(logins[req'[c].login].user, req'[c].tenant),
           req'[c].at = "context" /\ req'[c].store # None =>
                TenantOf[req'[c].store] = req'[c].tenant
    PROVE  AccountsShape(req[c])' /\ req'[c].at \notin TillSteps
<1>1. AccountsShape(req[c])'
  BY DEF AccountsShape, TokenShape, ContextShape, WriteShape, WriteSteps, TokenSteps,
         Known, HasRow
<1>2. req'[c].at \notin TillSteps
  BY DEF TillSteps, PairSteps, OperateSteps
<1> QED BY <1>1, <1>2

\* A switch goes on only to a tenant its user is admitted to.
LEMMA SwitchTenantKeeps ==
    ASSUME AccountsInvariant, NEW c \in Clients, NEW i \in 1..Len(logins), NEW g \in Tenants,
           SwitchTenant(c, i, g)
    PROVE  AccountsInvariant' /\ MembershipGrows /\ NoTill
<1>1. Only(c) /\ req'[c] = [at |-> "context", login |-> i, tenant |-> g, store |-> None]
  BY BeginOnly DEF SwitchTenant
<1>2. UNCHANGED logins /\ UNCHANGED membership
  BY DEF SwitchTenant, accounts, directory, dashboard
<1>3. Known(logins[i].user, g)
  BY DEF SwitchTenant, Known, HasRow, FindActiveMembership
<1>4. i \in Nat
  BY LenProperties DEF AccountsInvariant, AccountsTypeOK
<1>5. AccountsShape(req[c])' /\ req'[c].at \notin TillSteps
  BY <1>1, <1>2, <1>3, <1>4, SwitchShape
<1> QED BY <1>1, <1>5, MovesRequest DEF SwitchTenant

\* A switch of store begins in the active tenant the session has.
LEMMA SwitchStoreKeeps ==
    ASSUME AccountsInvariant, NEW c \in Clients, NEW i \in 1..Len(logins), NEW s \in Stores,
           SwitchStore(c, i, s)
    PROVE  AccountsInvariant' /\ MembershipGrows /\ NoTill
<1>1. Only(c) /\ req'[c] = [at |-> "store", login |-> i, tenant |-> logins[i].tenant, store |-> s]
  BY BeginOnly DEF SwitchStore
<1>2. UNCHANGED logins /\ UNCHANGED membership
  BY DEF SwitchStore, accounts, directory, dashboard
<1>3. i \in Nat /\ logins[i] \in LoginRow
  BY ElementOfSeq DEF AccountsInvariant, AccountsTypeOK
<1>4. /\ logins[i].tenant \in Tenants \cup {None}
      /\ logins[i].tenant # None => Known(logins[i].user, logins[i].tenant)
  BY <1>3 DEF LoginRow, AccountsInvariant, ContextOfMember
<1>5. AccountsShape(req[c])' /\ req'[c].at \notin TillSteps
  BY <1>1, <1>2, <1>3, <1>4, SwitchShape
<1> QED BY <1>1, <1>5, MovesRequest DEF SwitchStore

\* Leaving the store keeps the active tenant.
LEMMA ClearStoreKeeps ==
    ASSUME AccountsInvariant, NEW c \in Clients, NEW i \in 1..Len(logins), ClearStore(c, i)
    PROVE  AccountsInvariant' /\ MembershipGrows /\ NoTill
<1>1. Only(c) /\ req'[c] = [at |-> "context", login |-> i, tenant |-> logins[i].tenant,
                            store |-> None]
  BY BeginOnly DEF ClearStore
<1>2. UNCHANGED logins /\ UNCHANGED membership
  BY DEF ClearStore, accounts, directory, dashboard
<1>3. i \in Nat /\ logins[i] \in LoginRow
  BY ElementOfSeq DEF AccountsInvariant, AccountsTypeOK
<1>4. /\ logins[i].tenant \in Tenants \cup {None}
      /\ logins[i].tenant # None => Known(logins[i].user, logins[i].tenant)
  BY <1>3 DEF LoginRow, AccountsInvariant, ContextOfMember
<1>5. AccountsShape(req[c])' /\ req'[c].at \notin TillSteps
  BY <1>1, <1>2, <1>3, <1>4, SwitchShape
<1> QED BY <1>1, <1>5, MovesRequest DEF ClearStore

\* The store was checked to be one of the tenant the request read.
LEMMA CheckStoreKeeps ==
    ASSUME AccountsInvariant, NEW c \in Clients, CheckStore(c)
    PROVE  AccountsInvariant' /\ MembershipGrows /\ NoTill
<1>1. CASE Finish(c)
  BY <1>1, FinishOnly, MovesRequest DEF CheckStore
<1>2. CASE GoTo(c, "context") /\ TenantOf[req[c].store] = req[c].tenant
  <2>1. Only(c) /\ req'[c] = [req[c] EXCEPT !.at = "context"]
    BY <1>2, GoToOnly
  <2>2. /\ req[c] \in [at : {"store", "context"}, login : Nat,
                       tenant : Tenants \cup {None}, store : Stores \cup {None}]
        /\ req[c].login \in 1..Len(logins)
        /\ req[c].tenant # None => Known(logins[req[c].login].user, req[c].tenant)
    BY DEF AccountsInvariant, CheckStore, At, AccountsShape, ContextShape
  <2>3. UNCHANGED logins /\ UNCHANGED membership
    BY DEF CheckStore, accounts, directory, dashboard
  <2>4. /\ req'[c] \in [at : {"store", "context"}, login : Nat,
                        tenant : Tenants \cup {None}, store : Stores \cup {None}]
        /\ req'[c].login = req[c].login /\ req'[c].tenant = req[c].tenant
        /\ req'[c].store = req[c].store
    BY <2>1, <2>2
  <2>5. AccountsShape(req[c])' /\ req'[c].at \notin TillSteps
    BY <1>2, <2>2, <2>3, <2>4, SwitchShape
  <2> QED BY <2>1, <2>5, MovesRequest DEF CheckStore
<1> QED BY <1>1, <1>2 DEF CheckStore, CanAccessStore

-----------------------------------------------------------------------------
(* The guards of a dashboard request, and what its handlers write.           *)

\* A request begins barred when its user may not administer the tenant.
LEMMA ReadSessionKeeps ==
    ASSUME AccountsInvariant, NEW c \in Clients, NEW i \in 1..Len(logins), ReadSession(c, i)
    PROVE  AccountsInvariant' /\ MembershipGrows /\ NoTill
<1> DEFINE u == logins[i].user  g == logins[i].tenant
<1>1. /\ Only(c)
      /\ req'[c] = [at |-> "guard", user |-> u, tenant |-> g, store |-> logins[i].store,
                    barred |-> MayNot(u, g), edits |-> membership[u][g].edits]
  BY BeginOnly DEF ReadSession
<1>2. logins[i] \in LoginRow
  BY ElementOfSeq DEF AccountsInvariant, AccountsTypeOK
<1>3. u \in Users /\ g \in Tenants /\ logins[i].store \in Stores \cup {None}
  BY <1>2 DEF LoginRow, ReadSession
<1>4. Known(u, g)
  BY <1>3, AccountsAssumption DEF AccountsInvariant, ContextOfMember
<1>5. membership[u][g].edits \in Nat
  BY <1>3 DEF AccountsInvariant, AccountsTypeOK, MembershipRow
<1>6. MayNot(u, g) \in BOOLEAN
  BY DEF MayNot
<1>7. UNCHANGED membership
  BY DEF ReadSession, accounts, directory
<1>8. /\ req'[c] \in [at : {"guard", "handler"}, user : Users, tenant : Tenants,
                      store : Stores \cup {None}, barred : BOOLEAN, edits : Nat]
      /\ req'[c].at = "guard" /\ req'[c].user = u /\ req'[c].tenant = g
      /\ req'[c].barred = MayNot(u, g) /\ req'[c].edits = membership[u][g].edits
  BY <1>1, <1>3, <1>5, <1>6
<1>9. BarredShape(req[c])'
  <2>1. req'[c].barred => MayNot(u, g)
    BY <1>1
  <2>2. MayNot(u, g) => u \notin Admins /\ membership[u][g].state # "none"
    BY <1>4 DEF MayNot, Known, HasRow
  <2>3. MayNot(u, g) => MayNot(req[c].user, req[c].tenant)'
    BY <1>7, <1>8 DEF MayNot
  <2> HIDE DEF u, g
  <2> QED BY <1>5, <1>7, <1>8, <2>1, <2>2, <2>3 DEF BarredShape
<1>10. AccountsShape(req[c])'
  BY <1>8, <1>9 DEF AccountsShape, TokenShape, ContextShape, WriteShape, TokenSteps
<1>11. req'[c].at \notin TillSteps
  BY <1>8 DEF TillSteps, PairSteps, OperateSteps
<1> QED BY <1>1, <1>10, <1>11, MovesRequest DEF ReadSession

\* A request that passes the guards is not barred any more.
LEMMA GuardKeeps ==
    ASSUME AccountsInvariant, NEW c \in Clients, Guard(c)
    PROVE  AccountsInvariant' /\ MembershipGrows /\ NoTill
<1>1. CASE Finish(c)
  BY <1>1, FinishOnly, MovesRequest DEF Guard
<1>2. CASE GoTo(c, "handler") /\ Authorized(c)
  <2>1. Only(c) /\ req'[c] = [req[c] EXCEPT !.at = "handler"]
    BY <1>2, GoToOnly
  <2>2. /\ req[c] \in [at : {"guard", "handler"}, user : Users, tenant : Tenants,
                       store : Stores \cup {None}, barred : BOOLEAN, edits : Nat]
        /\ BarredShape(req[c])
    BY DEF AccountsInvariant, Guard, At, AccountsShape, WriteShape, WriteSteps
  <2>3. UNCHANGED membership
    BY DEF Guard, accounts, directory
  <2>4. /\ req'[c] \in [at : {"guard", "handler"}, user : Users, tenant : Tenants,
                        store : Stores \cup {None}, barred : BOOLEAN, edits : Nat]
        /\ req'[c].at = "handler" /\ req'[c].user = req[c].user
        /\ req'[c].tenant = req[c].tenant /\ req'[c].barred = req[c].barred
        /\ req'[c].edits = req[c].edits
    BY <2>1, <2>2
  <2>5. ~MayNot(req[c].user, req[c].tenant)
    BY <1>2 DEF Authorized, MayNot, FindActiveMembership
  <2>6. BarredShape(req[c])'
    BY <2>2, <2>3, <2>4, <2>5 DEF BarredShape
  <2>7. AccountsShape(req[c])'
    BY <2>4, <2>6 DEF AccountsShape, TokenShape, ContextShape, WriteShape, TokenSteps
  <2>8. req'[c].at \notin TillSteps
    BY <2>4 DEF TillSteps, PairSteps, OperateSteps
  <2> QED BY <2>1, <2>7, <2>8, MovesRequest DEF Guard
<1> QED BY <1>1, <1>2 DEF Guard

\* A PATCH goes on with the member it found.
LEMMA FindToUpdateKeeps ==
    ASSUME AccountsInvariant, NEW c \in Clients, NEW u \in Users, NEW ch \in Changes,
           FindToUpdate(c, u, ch)
    PROVE  AccountsInvariant' /\ MembershipGrows /\ NoTill
<1>1. /\ Only(c)
      /\ req'[c] = [at |-> "update", user |-> req[c].user, tenant |-> req[c].tenant,
                    barred |-> req[c].barred, edits |-> req[c].edits,
                    member |-> u, change |-> ch]
  BY DEF AccountsInvariant, FindToUpdate, Only
<1>2. /\ req[c] \in [at : {"guard", "handler"}, user : Users, tenant : Tenants,
                     store : Stores \cup {None}, barred : BOOLEAN, edits : Nat]
      /\ BarredShape(req[c]) /\ req[c].at = "handler"
  BY DEF AccountsInvariant, FindToUpdate, At, AccountsShape, WriteShape, WriteSteps
<1>3. UNCHANGED membership
  BY DEF FindToUpdate, accounts, directory
<1>4. /\ req'[c] \in [at : {"update"}, user : Users, tenant : Tenants,
                      barred : BOOLEAN, edits : Nat, member : Users, change : Changes]
      /\ req'[c].at = "update" /\ req'[c].user = req[c].user
      /\ req'[c].tenant = req[c].tenant /\ req'[c].barred = req[c].barred
      /\ req'[c].edits = req[c].edits
  BY <1>1, <1>2
<1>5. BarredShape(req[c])'
  BY <1>2, <1>3, <1>4 DEF BarredShape
<1>6. AccountsShape(req[c])'
  BY <1>4, <1>5 DEF AccountsShape, TokenShape, ContextShape, WriteShape, TokenSteps
<1>7. req'[c].at \notin TillSteps
  BY <1>4 DEF TillSteps, PairSteps, OperateSteps
<1> QED BY <1>1, <1>6, <1>7, MovesRequest DEF FindToUpdate

\* An invitation goes on when no other is pending.
LEMMA FindPendingByEmailKeeps ==
    ASSUME AccountsInvariant, NEW c \in Clients, NEW u \in Users, NEW o \in Offers,
           FindPendingByEmail(c, u, o)
    PROVE  AccountsInvariant' /\ MembershipGrows /\ NoTill
<1>1. /\ Only(c)
      /\ req'[c] = [at |-> "invite", user |-> req[c].user, tenant |-> req[c].tenant,
                    barred |-> req[c].barred, edits |-> req[c].edits,
                    invitee |-> u, offer |-> o]
  BY DEF AccountsInvariant, FindPendingByEmail, Only
<1>2. /\ req[c] \in [at : {"guard", "handler"}, user : Users, tenant : Tenants,
                     store : Stores \cup {None}, barred : BOOLEAN, edits : Nat]
      /\ BarredShape(req[c]) /\ req[c].at = "handler"
  BY DEF AccountsInvariant, FindPendingByEmail, At, AccountsShape, WriteShape, WriteSteps
<1>3. UNCHANGED membership
  BY DEF FindPendingByEmail, accounts, directory
<1>4. /\ req'[c] \in [at : {"invite"}, user : Users, tenant : Tenants,
                      barred : BOOLEAN, edits : Nat, invitee : Users, offer : Offers]
      /\ req'[c].at = "invite" /\ req'[c].user = req[c].user
      /\ req'[c].tenant = req[c].tenant /\ req'[c].barred = req[c].barred
      /\ req'[c].edits = req[c].edits
  BY <1>1, <1>2
<1>5. BarredShape(req[c])'
  BY <1>2, <1>3, <1>4 DEF BarredShape
<1>6. AccountsShape(req[c])'
  BY <1>4, <1>5 DEF AccountsShape, TokenShape, ContextShape, WriteShape, TokenSteps
<1>7. req'[c].at \notin TillSteps
  BY <1>4 DEF TillSteps, PairSteps, OperateSteps
<1> QED BY <1>1, <1>6, <1>7, MovesRequest DEF FindPendingByEmail

\* A handler that writes was not barred throughout.
LEMMA WrittenKeeps ==
    ASSUME AccountsInvariant, NEW c \in Clients,
           req[c].at \in {"handler", "update", "invite"}, Written(c)
    PROVE  BarredNeverWrites'
<1>1. BarredShape(req[c]) /\ req[c].barred \in BOOLEAN
  BY DEF AccountsInvariant, AccountsShape, WriteShape, WriteSteps
<1>2. ~(req[c].barred /\ membership[req[c].user][req[c].tenant].edits = req[c].edits)
  BY <1>1 DEF BarredShape
<1> QED BY <1>2 DEF AccountsInvariant, BarredNeverWrites, Written

\* A handler that writes a membership keeps what hangs on memberships.
LEMMA MembershipWrite ==
    ASSUME AccountsInvariant, NEW c \in Clients, Finish(c),
           membership' \in [Users -> [Tenants -> MembershipRow]], MembershipGrows,
           BarredNeverWrites',
           UNCHANGED <<tenant, store, invitations, logins, verified, tokens>>
    PROVE  AccountsInvariant' /\ NoTill
<1>1. /\ Only(c) /\ req'[c].at \notin TillSteps /\ AccountsShape(req[c])'
  BY FinishOnly
<1>2. AccountsTypeOK'
  BY DEF AccountsInvariant, AccountsTypeOK
<1>3. LoginsGrow /\ Len(tokens) <= Len(tokens') /\ Len(invitations) <= Len(invitations')
  BY NothingGrows
<1>4. ContextOfMember' /\ AcceptedMadeRow'
  BY AccountsTablesStay
<1> QED BY <1>1, <1>2, <1>3, <1>4, AccountsStep DEF NoTill

\* A revoked membership keeps its row and its count of edits.
LEMMA RevokeKeeps ==
    ASSUME AccountsInvariant, NEW c \in Clients, NEW u \in Users, Revoke(c, u)
    PROVE  AccountsInvariant' /\ MembershipGrows /\ NoTill
<1> DEFINE g == req[c].tenant  row == [membership[u][g] EXCEPT !.state = "revoked"]
<1>1. g \in Tenants /\ membership[u][g] \in MembershipRow
  BY DEF AccountsInvariant, AccountsTypeOK, Revoke, At, AccountsShape, WriteShape
<1>2. /\ row \in MembershipRow /\ row.state = "revoked" /\ row.role = membership[u][g].role
      /\ row.kind = membership[u][g].kind /\ row.stores = membership[u][g].stores
      /\ row.edits = membership[u][g].edits
  BY <1>1 DEF MembershipRow
<1>3. membership \in [Users -> [Tenants -> MembershipRow]]
  BY DEF AccountsInvariant, AccountsTypeOK
<1>4. membership' = [membership EXCEPT ![u][g] = row]
  BY DEF Revoke
<1>5. BarredNeverWrites'
  BY WrittenKeeps DEF Revoke, At
<1>6. /\ Finish(c)
      /\ UNCHANGED <<tenant, store, invitations, logins, verified, tokens>>
  BY DEF Revoke
<1> HIDE DEF g, row
<1>7. /\ membership' \in [Users -> [Tenants -> MembershipRow]]
      /\ \A v \in Users, h \in Tenants :
           membership'[v][h] = IF v = u /\ h = g THEN row ELSE membership[v][h]
  BY <1>1, <1>2, <1>3, <1>4
<1>8. \A v \in Users, h \in Tenants : membership[v][h].edits \in Nat
  BY <1>3 DEF MembershipRow
<1>9. MembershipGrows
  BY <1>2, <1>7, <1>8 DEF MembershipGrows
<1> QED BY <1>5, <1>6, <1>7, <1>9, MembershipWrite

\* An update counts an edit.
LEMMA UpdateMembershipKeeps ==
    ASSUME AccountsInvariant, NEW c \in Clients, UpdateMembership(c)
    PROVE  AccountsInvariant' /\ MembershipGrows /\ NoTill
<1> DEFINE u == req[c].member  g == req[c].tenant
           old == membership[u][g]  ch == req[c].change  row == Changed(old, ch)
<1>1. g \in Tenants /\ u \in Users /\ req[c].change \in Changes
  BY DEF AccountsInvariant, UpdateMembership, At, AccountsShape, WriteShape
<1>2. old \in MembershipRow /\ membership \in [Users -> [Tenants -> MembershipRow]]
  BY <1>1 DEF AccountsInvariant, AccountsTypeOK
<1>3. /\ row \in MembershipRow /\ row.state = old.state /\ row.edits = old.edits + 1
  <2>1. ch \in [role : Roles \cup {None}, kind : {"all", "specific", None},
                stores : (SUBSET Stores) \cup {None}]
    BY <1>1, RowsAssumption
  <2> HIDE DEF ch, old
  <2>2. (CASE ch.kind = "all" -> {}
           [] ch.kind # "all" /\ ch.stores # None -> ch.stores
           [] OTHER -> old.stores) \in SUBSET Stores
    BY <1>2, <2>1 DEF MembershipRow
  <2>3. /\ (IF ch.role = None THEN old.role ELSE ch.role) \in Roles
        /\ (IF ch.kind = None THEN old.kind ELSE ch.kind) \in {"all", "specific"}
        /\ old.state \in {"none", "active", "revoked"} /\ old.edits + 1 \in Nat
    BY <1>2, <2>1 DEF MembershipRow
  <2> QED BY <1>2, <2>2, <2>3 DEF MembershipRow, Changed
<1>4. membership' = [membership EXCEPT ![u][g] = row]
  BY DEF UpdateMembership
<1>5. BarredNeverWrites'
  BY WrittenKeeps DEF UpdateMembership, At
<1>6. /\ Finish(c)
      /\ UNCHANGED <<tenant, store, invitations, logins, verified, tokens>>
  BY DEF UpdateMembership
<1> HIDE DEF g, u, row
<1>7. /\ membership' \in [Users -> [Tenants -> MembershipRow]]
      /\ \A v \in Users, h \in Tenants :
           membership'[v][h] = IF v = u /\ h = g THEN row ELSE membership[v][h]
  BY <1>1, <1>2, <1>3, <1>4
<1>8. \A v \in Users, h \in Tenants : membership[v][h].edits \in Nat
  BY <1>2 DEF MembershipRow
<1>9. MembershipGrows
  BY <1>1, <1>3, <1>7, <1>8 DEF MembershipGrows
<1> QED BY <1>5, <1>6, <1>7, <1>9, MembershipWrite

-----------------------------------------------------------------------------
(* Invitations.                                                              *)

\* No invitation becomes an accepted one, and new ones are not.
LEMMA NoneAccepted ==
    ASSUME AccountsInvariant, MembershipGrows, invitations' \in Seq(InvitationRow),
           \A n \in 1..Len(invitations') :
              \/ invitations'[n].status # "accepted" /\ invitations'[n].made = 0
              \/ /\ n \in 1..Len(invitations)
                 /\ invitations'[n].status = invitations[n].status
                 /\ invitations'[n].made = invitations[n].made
                 /\ invitations'[n].user = invitations[n].user
                 /\ invitations'[n].tenant = invitations[n].tenant
    PROVE  AcceptedMadeRow'
<1>1. ASSUME NEW n \in 1..Len(invitations'), invitations'[n].status = "accepted"
      PROVE  /\ n \in 1..Len(invitations) /\ invitations[n].status = "accepted"
             /\ invitations'[n].user = invitations[n].user
             /\ invitations'[n].tenant = invitations[n].tenant
             /\ HasRow(invitations[n].user, invitations[n].tenant)'
  <2>1. /\ n \in 1..Len(invitations) /\ invitations[n].status = "accepted"
        /\ invitations'[n].user = invitations[n].user
        /\ invitations'[n].tenant = invitations[n].tenant
    BY <1>1
  <2>2. invitations[n] \in InvitationRow
    BY <2>1, ElementOfSeq DEF AccountsInvariant, AccountsTypeOK
  <2>3. invitations[n].user \in Users /\ invitations[n].tenant \in Tenants
    BY <2>2 DEF InvitationRow
  <2>4. HasRow(invitations[n].user, invitations[n].tenant)
    BY <2>1 DEF AccountsInvariant, AcceptedMadeRow
  <2> QED BY <2>1, <2>3, <2>4 DEF HasRow, MembershipGrows
<1>2. \A n \in 1..Len(invitations') :
        invitations'[n].made = IF invitations'[n].status = "accepted" THEN 1 ELSE 0
  BY DEF AccountsInvariant, AcceptedMadeRow
<1>3. \A n, m \in 1..Len(invitations) :
        (/\ invitations[n].status = "accepted" /\ invitations[m].status = "accepted"
         /\ invitations[n].user = invitations[m].user
         /\ invitations[n].tenant = invitations[m].tenant) => n = m
  BY DEF AccountsInvariant, AcceptedMadeRow
<1>4. \A n, m \in 1..Len(invitations') :
        (/\ invitations'[n].status = "accepted" /\ invitations'[m].status = "accepted"
         /\ invitations'[n].user = invitations'[m].user
         /\ invitations'[n].tenant = invitations'[m].tenant) => n = m
  BY <1>1, <1>3
<1> QED BY <1>1, <1>2, <1>4 DEF AcceptedMadeRow

\* A step of the invitations that changes memberships at most by growing them.
LEMMA InvitationStep ==
    ASSUME AccountsInvariant, MembershipGrows,
           membership' \in [Users -> [Tenants -> MembershipRow]],
           invitations' \in Seq(InvitationRow), Len(invitations) <= Len(invitations'),
           AcceptedMadeRow', BarredNeverWrites',
           UNCHANGED <<tenant, store, logins, verified, tokens>>
    PROVE  /\ UNCHANGED req => AccountsInvariant' /\ NoTill
           /\ \A c \in Clients : Finish(c) => AccountsInvariant' /\ NoTill
<1>1. AccountsTypeOK'
  BY DEF AccountsInvariant, AccountsTypeOK
<1>2. LoginsGrow /\ Len(tokens) <= Len(tokens')
  BY NothingGrows
<1>3. ContextOfMember'
  BY AccountsTablesStay
<1>4. ASSUME UNCHANGED req PROVE AccountsInvariant' /\ NoTill
  BY <1>1, <1>2, <1>3, <1>4, AccountsQuiet DEF NoTill
<1>5. ASSUME NEW c \in Clients, Finish(c) PROVE AccountsInvariant' /\ NoTill
  <2>1. Only(c) /\ req'[c].at \notin TillSteps /\ AccountsShape(req[c])'
    BY <1>5, FinishOnly
  <2> QED BY <1>1, <1>2, <1>3, <2>1, AccountsStep DEF NoTill
<1> QED BY <1>4, <1>5

\* A new invitation is pending and has made nothing.
LEMMA CreateInvitationKeeps ==
    ASSUME AccountsInvariant, NEW c \in Clients, CreateInvitation(c)
    PROVE  AccountsInvariant' /\ MembershipGrows /\ NoTill
<1> DEFINE u == req[c].invitee  g == req[c].tenant
           stale == {n \in Pending(u, g) : invitations[n].late}
           expired == [n \in 1..Len(invitations) |->
                         IF n \in stale THEN [invitations[n] EXCEPT !.status = "expired"]
                         ELSE invitations[n]]
           row == [user |-> u, tenant |-> g, status |-> "pending",
                   late |-> FALSE, offer |-> req[c].offer, made |-> 0]
<1>1. u \in Users /\ g \in Tenants /\ req[c].offer \in Offers
  BY DEF AccountsInvariant, CreateInvitation, At, AccountsShape, WriteShape
<1>2. row \in InvitationRow /\ row.status = "pending" /\ row.made = 0
  BY <1>1 DEF InvitationRow
<1>3. /\ invitations \in Seq(InvitationRow) /\ Len(invitations) \in Nat
      /\ \A n \in 1..Len(invitations) : invitations[n] \in InvitationRow
  BY ElementOfSeq, LenProperties DEF AccountsInvariant, AccountsTypeOK
<1>4. \A n \in stale : n \in 1..Len(invitations) /\ invitations[n].status = "pending"
  BY DEF Pending
<1>5. \A n \in 1..Len(invitations) :
         invitations[n].made = IF invitations[n].status = "accepted" THEN 1 ELSE 0
  BY DEF AccountsInvariant, AcceptedMadeRow
<1>6. invitations' = Append(expired, row)
  BY DEF CreateInvitation
<1> HIDE DEF u, g, stale, row
<1>7. \A n \in 1..Len(invitations) :
        /\ expired[n] \in InvitationRow
        /\ \/ expired[n].status # "accepted" /\ expired[n].made = 0
           \/ expired[n] = invitations[n]
  BY <1>3, <1>4, <1>5 DEF InvitationRow
<1>8. expired \in Seq(InvitationRow) /\ Len(expired) = Len(invitations)
  <2>1. expired \in [1..Len(invitations) -> InvitationRow]
    BY <1>7
  <2> HIDE DEF expired
  <2> QED BY <1>3, <2>1, SeqDef, LenProperties
<1> HIDE DEF expired
<1>9. /\ invitations' \in Seq(InvitationRow) /\ Len(invitations') = Len(invitations) + 1
      /\ \A n \in 1..Len(invitations) : invitations'[n] = expired[n]
      /\ invitations'[Len(invitations) + 1] = row
  BY <1>2, <1>6, <1>8, AppendProperties
<1>10. \A n \in 1..Len(invitations') :
         \/ invitations'[n].status # "accepted" /\ invitations'[n].made = 0
         \/ n \in 1..Len(invitations) /\ invitations'[n] = invitations[n]
  BY <1>2, <1>3, <1>7, <1>9
<1>11. /\ UNCHANGED <<tenant, store, logins, verified, tokens>>
       /\ UNCHANGED membership /\ Finish(c)
  BY DEF CreateInvitation
<1>12. MembershipGrows /\ membership' \in [Users -> [Tenants -> MembershipRow]]
  BY <1>11, NothingGrows DEF AccountsInvariant, AccountsTypeOK
<1>13. AcceptedMadeRow'
  BY <1>9, <1>10, <1>12, NoneAccepted
<1>14. BarredNeverWrites'
  BY WrittenKeeps DEF CreateInvitation, At
<1>15. Len(invitations) <= Len(invitations')
  BY <1>3, <1>9
<1> QED BY <1>9, <1>11, <1>12, <1>13, <1>14, <1>15, InvitationStep

\* An invitation lapses in its place.
LEMMA LapseKeeps ==
    ASSUME AccountsInvariant, NEW i \in 1..Len(invitations), Lapse(i)
    PROVE  AccountsInvariant' /\ MembershipGrows /\ NoTill
<1> DEFINE row == [invitations[i] EXCEPT !.late = TRUE]
<1>1. /\ invitations \in Seq(InvitationRow) /\ Len(invitations) \in Nat
      /\ invitations[i] \in InvitationRow
  BY ElementOfSeq, LenProperties DEF AccountsInvariant, AccountsTypeOK
<1>2. /\ row \in InvitationRow /\ row.status # "accepted" /\ row.made = 0
  BY <1>1 DEF InvitationRow, Lapse, AccountsInvariant, AcceptedMadeRow
<1>3. invitations' = [invitations EXCEPT ![i] = row]
  BY DEF Lapse
<1>4. /\ UNCHANGED <<tenant, store, logins, verified, tokens>>
      /\ UNCHANGED membership /\ UNCHANGED req /\ UNCHANGED writes
  BY DEF Lapse, dashboard
<1> HIDE DEF row
<1>5. /\ invitations' \in Seq(InvitationRow) /\ Len(invitations') = Len(invitations)
      /\ \A n \in 1..Len(invitations) :
           invitations'[n] = IF n = i THEN row ELSE invitations[n]
  BY <1>1, <1>2, <1>3, ExceptSeq
<1>6. \A n \in 1..Len(invitations') :
         \/ invitations'[n].status # "accepted" /\ invitations'[n].made = 0
         \/ n \in 1..Len(invitations) /\ invitations'[n] = invitations[n]
  BY <1>2, <1>5
<1>7. MembershipGrows /\ membership' \in [Users -> [Tenants -> MembershipRow]]
  BY <1>4, NothingGrows DEF AccountsInvariant, AccountsTypeOK
<1>8. AcceptedMadeRow'
  BY <1>5, <1>6, <1>7, NoneAccepted
<1>9. BarredNeverWrites'
  BY <1>4 DEF AccountsInvariant, BarredNeverWrites
<1>10. Len(invitations) <= Len(invitations')
  BY <1>1, <1>5
<1> QED BY <1>4, <1>5, <1>7, <1>8, <1>9, <1>10, InvitationStep

\* The invitation an acceptance looked up is one of the rows.
LEMMA LookupInvitationKeeps ==
    ASSUME AccountsInvariant, NEW c \in Clients, NEW n \in 1..Len(invitations),
           LookupInvitation(c, n)
    PROVE  AccountsInvariant' /\ MembershipGrows /\ NoTill
<1>1. Only(c) /\ req'[c] = [at |-> "accept", invitation |-> n]
  BY BeginOnly DEF LookupInvitation
<1>2. UNCHANGED invitations
  BY DEF LookupInvitation, accounts, directory
<1>3. AccountsShape(req[c])'
  BY <1>1, <1>2 DEF AccountsShape, TokenShape, ContextShape, WriteShape, TokenSteps, WriteSteps
<1>4. req'[c].at \notin TillSteps
  BY <1>1 DEF TillSteps, PairSteps, OperateSteps
<1> QED BY <1>1, <1>3, <1>4, MovesRequest DEF LookupInvitation

\* An acceptance finds no row of its user and tenant, so no accepted invitation.
LEMMA AcceptInvitationKeeps ==
    ASSUME AccountsInvariant, NEW c \in Clients, AcceptInvitation(c)
    PROVE  AccountsInvariant' /\ MembershipGrows /\ NoTill
<1> DEFINE i == req[c].invitation  u == invitations[i].user  g == invitations[i].tenant
           row == [invitations[i] EXCEPT !.status = "accepted", !.made = @ + 1]
           joined == JoinedBy(invitations[i].offer)
<1>1. i \in 1..Len(invitations)
  BY DEF AccountsInvariant, AcceptInvitation, At, AccountsShape
<1>2. /\ invitations \in Seq(InvitationRow) /\ Len(invitations) \in Nat
      /\ invitations[i] \in InvitationRow
  BY <1>1, ElementOfSeq, LenProperties DEF AccountsInvariant, AccountsTypeOK
<1>3. u \in Users /\ g \in Tenants /\ invitations[i].offer \in Offers
  BY <1>2 DEF InvitationRow
<1>4. /\ UNCHANGED <<tenant, store, logins, verified, tokens>>
      /\ UNCHANGED writes /\ Finish(c)
  BY DEF AcceptInvitation, dashboard
<1>5. BarredNeverWrites'
  BY <1>4 DEF AccountsInvariant, BarredNeverWrites
<1>6. membership \in [Users -> [Tenants -> MembershipRow]]
  BY DEF AccountsInvariant, AccountsTypeOK
<1>7. CASE UNCHANGED <<invitations, membership>>
  <2>1. /\ MembershipGrows /\ Len(invitations) <= Len(invitations')
        /\ membership' \in [Users -> [Tenants -> MembershipRow]]
        /\ invitations' \in Seq(InvitationRow)
    BY <1>2, <1>6, <1>7, NothingGrows
  <2>2. AcceptedMadeRow'
    BY <1>7, <2>1, AccountsTablesStay
  <2> QED BY <1>4, <1>5, <2>1, <2>2, InvitationStep
<1>8. CASE /\ invitations[i].status = "pending" /\ ~RowInTheWay(u, g)
           /\ invitations' = [invitations EXCEPT ![i] = row]
           /\ membership' = [membership EXCEPT ![u][g] = joined]
  <2>1. /\ row \in InvitationRow /\ row.status = "accepted" /\ row.made = 1
        /\ row.user = u /\ row.tenant = g
    <3>1. invitations[i].made = 0
      BY <1>1, <1>8 DEF AccountsInvariant, AcceptedMadeRow
    <3>2. PICK n \in Nat : n = invitations[i].made + 1 /\ n = 1
      BY <3>1
    <3> QED BY <1>2, <3>2 DEF InvitationRow
  <2>2. joined \in MembershipRow /\ joined.state = "active"
    BY <1>3, RowsAssumption DEF JoinedBy, MembershipRow
  <2>3. membership[u][g].state = "none"
    BY <1>8 DEF RowInTheWay
  <2>4. \A n \in 1..Len(invitations) :
          /\ invitations[n] \in InvitationRow
          /\ invitations[n].made = IF invitations[n].status = "accepted" THEN 1 ELSE 0
          /\ invitations[n].status = "accepted" =>
               HasRow(invitations[n].user, invitations[n].tenant)
    BY <1>2, ElementOfSeq DEF AccountsInvariant, AcceptedMadeRow
  <2>5. \A n, m \in 1..Len(invitations) :
          (/\ invitations[n].status = "accepted" /\ invitations[m].status = "accepted"
           /\ invitations[n].user = invitations[m].user
           /\ invitations[n].tenant = invitations[m].tenant) => n = m
    BY DEF AccountsInvariant, AcceptedMadeRow
  <2> HIDE DEF i, u, g, row, joined
  <2>6. /\ invitations' \in Seq(InvitationRow) /\ Len(invitations') = Len(invitations)
        /\ \A n \in 1..Len(invitations) :
             invitations'[n] = IF n = i THEN row ELSE invitations[n]
    BY <1>1, <1>2, <1>8, <2>1, ExceptSeq
  <2>7. /\ membership' \in [Users -> [Tenants -> MembershipRow]]
        /\ \A v \in Users, h \in Tenants :
             membership'[v][h] = IF v = u /\ h = g THEN joined ELSE membership[v][h]
    BY <1>3, <1>6, <1>8, <2>2
  <2>8. \A v \in Users, h \in Tenants : membership[v][h].edits \in Nat
    BY <1>6 DEF MembershipRow
  <2>9. MembershipGrows
    BY <2>3, <2>7, <2>8 DEF MembershipGrows
  <2>10. \A n \in 1..Len(invitations) : invitations[n].status = "accepted" =>
           ~(invitations[n].user = u /\ invitations[n].tenant = g)
    BY <2>3, <2>4 DEF HasRow
  <2>11. ASSUME NEW n \in 1..Len(invitations'), invitations'[n].status = "accepted"
         PROVE  HasRow(invitations[n].user, invitations[n].tenant)'
    <3>1. CASE n = i
      BY <1>3, <2>1, <2>2, <2>6, <2>7, <3>1 DEF HasRow
    <3>2. CASE n # i
      <4>1. /\ n \in 1..Len(invitations) /\ invitations'[n] = invitations[n]
            /\ invitations[n].status = "accepted"
        BY <2>6, <2>11, <3>2
      <4>2. /\ invitations[n].user \in Users /\ invitations[n].tenant \in Tenants
            /\ HasRow(invitations[n].user, invitations[n].tenant)
        BY <2>4, <4>1 DEF InvitationRow
      <4> QED BY <2>9, <4>1, <4>2 DEF HasRow, MembershipGrows
    <3> QED BY <3>1, <3>2
  <2>12. AcceptedMadeRow'
    <3>1. \A n \in 1..Len(invitations') :
            invitations'[n].made = IF invitations'[n].status = "accepted" THEN 1 ELSE 0
      BY <2>1, <2>4, <2>6
    <3>2. \A n, m \in 1..Len(invitations') :
            (/\ invitations'[n].status = "accepted" /\ invitations'[m].status = "accepted"
             /\ invitations'[n].user = invitations'[m].user
             /\ invitations'[n].tenant = invitations'[m].tenant) => n = m
      BY <2>1, <2>5, <2>6, <2>10
    <3> QED BY <2>11, <3>1, <3>2 DEF AcceptedMadeRow
  <2>13. Len(invitations) <= Len(invitations')
    BY <1>2, <2>6
  <2> QED BY <1>4, <1>5, <2>6, <2>7, <2>9, <2>12, <2>13, InvitationStep
<1> QED BY <1>7, <1>8 DEF AcceptInvitation, Acceptable, OnConflict

-----------------------------------------------------------------------------
(* Tenants and stores, and all steps of the dashboard.                       *)

\* Nothing but the state of a tenant or store, and what is noted of a write.
LEMMA TenantOrStore ==
    ASSUME AccountsInvariant, BarredNeverWrites',
           tenant' \in [Tenants -> {"none", "active", "suspended", "deleted"}],
           store' \in [Stores -> {"none", "active", "inactive", "deleted"}],
           UNCHANGED <<membership, invitations, logins, verified, tokens>>
    PROVE  /\ MembershipGrows
           /\ UNCHANGED req => AccountsInvariant' /\ NoTill
           /\ \A c \in Clients : Finish(c) => AccountsInvariant' /\ NoTill
<1>1. AccountsTypeOK'
  BY DEF AccountsInvariant, AccountsTypeOK
<1>2. /\ MembershipGrows /\ LoginsGrow /\ Len(tokens) <= Len(tokens')
      /\ Len(invitations) <= Len(invitations')
  BY NothingGrows
<1>3. ContextOfMember' /\ AcceptedMadeRow'
  BY <1>2, AccountsTablesStay
<1>4. ASSUME UNCHANGED req PROVE AccountsInvariant' /\ NoTill
  BY <1>1, <1>2, <1>3, <1>4, AccountsQuiet DEF NoTill
<1>5. ASSUME NEW c \in Clients, Finish(c) PROVE AccountsInvariant' /\ NoTill
  <2>1. Only(c) /\ req'[c].at \notin TillSteps /\ AccountsShape(req[c])'
    BY <1>5, FinishOnly
  <2> QED BY <1>1, <1>2, <1>3, <2>1, AccountsStep DEF NoTill
<1> QED BY <1>2, <1>4, <1>5

\* The platform changes the state of a tenant.
LEMMA PlatformKeeps ==
    ASSUME AccountsInvariant, Platform
    PROVE  AccountsInvariant' /\ MembershipGrows /\ NoTill
<1>1. PICK g \in Tenants, from \in SUBSET {"none", "active", "suspended"},
           to \in {"active", "suspended", "deleted"} : TenantStep(g, from, to)
  BY DEF Platform, CreateTenant, UpdateTenant, SoftDeleteTenant
<1>2. /\ UNCHANGED <<store, membership, invitations, logins, verified, tokens>>
      /\ UNCHANGED writes /\ UNCHANGED req
      /\ tenant' = [tenant EXCEPT ![g] = to]
  BY <1>1 DEF TenantStep, dashboard
<1>3. /\ tenant' \in [Tenants -> {"none", "active", "suspended", "deleted"}]
      /\ store' \in [Stores -> {"none", "active", "inactive", "deleted"}]
  BY <1>2 DEF AccountsInvariant, AccountsTypeOK
<1>4. BarredNeverWrites'
  BY <1>2 DEF AccountsInvariant, BarredNeverWrites
<1> QED BY <1>2, <1>3, <1>4, TenantOrStore

\* A change of a store is a write like any other.
LEMMA ManageStoresKeeps ==
    ASSUME AccountsInvariant, NEW c \in Clients, ManageStores(c)
    PROVE  AccountsInvariant' /\ MembershipGrows /\ NoTill
<1>1. PICK s \in Stores, from \in SUBSET {"none", "active", "inactive"},
           to \in {"active", "inactive", "deleted"} : StoreStep(c, s, from, to)
  BY DEF ManageStores, CreateStore, UpdateStore, SoftDeleteStore
<1>2. /\ UNCHANGED <<tenant, membership, invitations, logins, verified, tokens>>
      /\ store' = [store EXCEPT ![s] = to] /\ Finish(c)
  BY <1>1 DEF StoreStep
<1>3. /\ tenant' \in [Tenants -> {"none", "active", "suspended", "deleted"}]
      /\ store' \in [Stores -> {"none", "active", "inactive", "deleted"}]
  BY <1>2 DEF AccountsInvariant, AccountsTypeOK
<1>4. BarredNeverWrites'
  BY <1>1, WrittenKeeps DEF StoreStep, At
<1> QED BY <1>2, <1>3, <1>4, TenantOrStore

\* A request that dies leaves the tables as they are.
LEMMA DieKeeps ==
    ASSUME AccountsInvariant, NEW c \in Clients, Die(c)
    PROVE  AccountsInvariant' /\ MembershipGrows /\ NoTill
BY FinishOnly, MovesRequest DEF Die

\* Every step of the dashboard keeps its invariant, lets memberships grow and
\* moves no request of a till but to its end.
LEMMA AccountsNextKeeps ==
    ASSUME AccountsInvariant, AccountsNext
    PROVE  AccountsInvariant' /\ MembershipGrows /\ NoTill
<1>1. ASSUME NEW c \in Clients, SignInToDashboard(c)
      PROVE  AccountsInvariant' /\ MembershipGrows /\ NoTill
  BY <1>1, VerifyPasswordKeeps, CreateLoginKeeps DEF SignInToDashboard
<1>2. ASSUME NEW c \in Clients, Recover(c)
      PROVE  AccountsInvariant' /\ MembershipGrows /\ NoTill
  BY <1>2, FindTokenKeeps, UpdatePasswordKeeps, MarkVerifiedKeeps, RevokeTokenKeeps,
     RevokeAllSessionsKeeps DEF Recover
<1>3. ASSUME NEW c \in Clients, Switch(c)
      PROVE  AccountsInvariant' /\ MembershipGrows /\ NoTill
  BY <1>3, SwitchTenantKeeps, SwitchStoreKeeps, ClearStoreKeeps, CheckStoreKeeps,
     UpdateActiveContextKeeps DEF Switch
<1>4. ASSUME NEW c \in Clients, Administer(c) \/ Patch(c)
      PROVE  AccountsInvariant' /\ MembershipGrows /\ NoTill
  BY <1>4, ReadSessionKeeps, GuardKeeps, RevokeKeeps, FindToUpdateKeeps,
     UpdateMembershipKeeps DEF Administer, Patch
<1>5. ASSUME NEW c \in Clients, InviteAndAccept(c)
      PROVE  AccountsInvariant' /\ MembershipGrows /\ NoTill
  BY <1>5, FindPendingByEmailKeeps, CreateInvitationKeeps, LookupInvitationKeeps,
     AcceptInvitationKeeps DEF InviteAndAccept
<1>6. ASSUME NEW u \in Users,
             IssueToken(u, "password_reset") \/ IssueToken(u, "email_verify")
      PROVE  AccountsInvariant' /\ MembershipGrows /\ NoTill
  BY <1>6, IssueTokenKeeps
<1>7. ASSUME NEW i \in 1..Len(logins), ExpireLogin(i) \/ SignOutLogin(i)
      PROVE  AccountsInvariant' /\ MembershipGrows /\ NoTill
  BY <1>7, EndLoginKeeps DEF ExpireLogin, SignOutLogin
<1> QED BY <1>1, <1>2, <1>3, <1>4, <1>5, <1>6, <1>7, ManageStoresKeeps, DieKeeps,
           PlatformKeeps, ExpireTokenKeeps, LapseKeeps DEF AccountsNext

-----------------------------------------------------------------------------
(* What others do does not disturb a request of a till.                      *)

\* Sessions do not come alive again, and keep what they were issued for.
LEMMA SessionFactsStay ==
    ASSUME SessionsGrow, sessions \in Seq(OperatorSessionRow), sessions' \in Seq(OperatorSessionRow)
    PROVE  /\ \A n \in Nat, t \in Terminals, s \in Stores :
                ClearUpTo(n, t, s) => ClearUpTo(n, t, s)'
           /\ \A i \in Nat, e \in TakeoverEvents, u \in Users :
                IssuedBy(i, e, u) => IssuedBy(i, e, u)'
<1>1. Len(sessions) \in Nat /\ Len(sessions') \in Nat
  BY LenProperties
<1>2. ASSUME NEW n \in Nat, NEW t \in Terminals, NEW s \in Stores, ClearUpTo(n, t, s)
      PROVE  ClearUpTo(n, t, s)'
  <2>1. n <= Len(sessions) /\ \A j \in 1..n : j \in 1..Len(sessions)
    BY <1>1, <1>2 DEF ClearUpTo
  <2> QED BY <1>1, <1>2, <2>1 DEF ClearUpTo, SessionsGrow
<1>3. ASSUME NEW i \in Nat, NEW e \in TakeoverEvents, NEW u \in Users, IssuedBy(i, e, u)
      PROVE  IssuedBy(i, e, u)'
  BY <1>1, <1>3 DEF IssuedBy, SessionsGrow
<1> QED BY <1>2, <1>3

\* A user with a row who may not operate at the same count of edits still may
\* not.
LEMMA VerifiedStays ==
    ASSUME MembershipGrows, NEW u \in Users, NEW s \in Stores, HasRow(u, TenantOf[s])
    PROVE  /\ HasRow(u, TenantOf[s])'
           /\ membership[u][TenantOf[s]].edits <= membership'[u][TenantOf[s]].edits
           /\ membership'[u][TenantOf[s]].edits = membership[u][TenantOf[s]].edits
                => (Verified(u, s)' => Verified(u, s))
<1>1. TenantOf[s] \in Tenants
  BY AccountsAssumption
<1> QED BY <1>1 DEF MembershipGrows, HasRow, Verified

\* The tills' requests of other clients.
LEMMA TillOthers ==
    ASSUME TillInvariant, TypeOK', MembershipGrows, DevicesGrow, SessionsGrow, KeysGrow,
           events \subseteq events',
           NEW d \in Clients, req'[d] = req[d],
           At(d, "events") => \A a \in req[d].ok : accepted'[a] = accepted[a]
    PROVE  TillShape(req[d])'
<1> DEFINE r == req[d]
<1>0. /\ TillShape(r)
      /\ sessions \in Seq(OperatorSessionRow) /\ sessions' \in Seq(OperatorSessionRow)
      /\ Len(sessions) \in Nat /\ Len(sessions') \in Nat /\ Len(sessions) <= Len(sessions')
  BY LenProperties DEF TillInvariant, TypeOK, SessionsGrow
<1>1. PairShape(r)'
  BY <1>0 DEF TillShape, PairShape
<1>2. OperateShape(r)'
  <2> SUFFICES ASSUME r.at \in OperateSteps PROVE OperateShape(r)'
    BY DEF OperateShape
  <2>1. /\ r \in [at : OperateSteps, kind : {"sign_in", "takeover"}, user : Users,
                  terminal : Terminals, store : Stores,
                  event : TakeoverEvents \cup {None}, floor : Nat, session : Nat]
        /\ device[r.terminal].state # "none"
        /\ r.kind = "takeover" => r.event \in TakeoverEvents
        /\ r.at \in {"key", "revoke", "record"} => r.kind = "takeover"
        /\ r.at = "check" => r.kind = "sign_in"
        /\ r.at # "membership" => HasRow(r.user, TenantOf[r.store])
        /\ r.kind = "takeover" /\ r.at \in {"revoke", "issue", "record"} =>
             key[r.event] # None /\ key[r.event].operator = r.user
        /\ r.at \in {"membership", "check", "key", "revoke"} => r.floor = 0
        /\ ClearUpTo(r.floor, r.terminal, r.store)
        /\ r.at = "record" => IssuedBy(r.session, r.event, r.user)
    BY <1>0 DEF TillShape, OperateShape
  <2>2. PICK u \in Users, t \in Terminals, s \in Stores, f \in Nat, i \in Nat,
             e \in TakeoverEvents \cup {None} :
             u = r.user /\ t = r.terminal /\ s = r.store /\ f = r.floor /\ i = r.session
             /\ e = r.event
    BY <2>1
  <2>3. /\ r.at # "membership" => HasRow(u, TenantOf[s])'
        /\ ClearUpTo(f, t, s)'
        /\ r.at = "record" => IssuedBy(i, e, u)'
    BY <1>0, <2>1, <2>2, SessionFactsStay, VerifiedStays
  <2>4. r'.at = r.at /\ r' = r
    OBVIOUS
  <2>5. device'[t].state # "none"
    BY <2>1, <2>2 DEF DevicesGrow
  <2>6. r.kind = "takeover" /\ r.at \in {"revoke", "issue", "record"} =>
             key'[e] # None /\ key'[e].operator = u
    BY <2>1, <2>2 DEF KeysGrow
  <2> HIDE DEF r
  <2> QED BY <2>1, <2>2, <2>3, <2>4, <2>5, <2>6 DEF OperateShape
<1>3. SellShape(r)'
  <2> SUFFICES ASSUME r.at = "reverify" PROVE SellShape(r)'
    BY DEF SellShape
  <2>1. /\ r \in [at : {"reverify"}, session : Nat, barred : BOOLEAN,
                  device : BOOLEAN, edits : Nat]
        /\ r.session \in 1..Len(sessions)
        /\ r.edits <= MemberOf(r.session).edits
        /\ r.barred =>
             \/ ~r.device /\ device[sessions[r.session].terminal].state # "live"
             \/ MemberOf(r.session).edits = r.edits =>
                  ~Verified(sessions[r.session].user, sessions[r.session].store)
    BY <1>0 DEF TillShape, SellShape
  <2>2. sessions[r.session] \in OperatorSessionRow
    BY <1>0, <2>1, ElementOfSeq
  <2>3. PICK i \in Nat, u \in Users, t \in Terminals, s \in Stores, n \in Nat :
             i = r.session /\ u = sessions[i].user /\ t = sessions[i].terminal
             /\ s = sessions[i].store /\ n = r.edits
    BY <2>1, <2>2 DEF OperatorSessionRow
  <2>4. sessions'[i].user = u /\ sessions'[i].terminal = t /\ sessions'[i].store = s
    BY <2>1, <2>3 DEF SessionsGrow
  <2>5. HasRow(u, TenantOf[s]) /\ device[t].state # "none"
    BY <2>1, <2>3 DEF TillInvariant, SessionsStand
  <2>6. /\ membership[u][TenantOf[s]].edits \in Nat /\ membership'[u][TenantOf[s]].edits \in Nat
    BY AccountsAssumption DEF TillInvariant, TypeOK, MembershipRow
  <2>7. device'[t].state = "live" => device[t].state = "live"
    BY <2>5 DEF DevicesGrow
  <2>8. /\ n <= membership[u][TenantOf[s]].edits
        /\ r.barred => \/ ~r.device /\ device[t].state # "live"
                       \/ membership[u][TenantOf[s]].edits = n => ~Verified(u, s)
    BY <2>1, <2>3 DEF MemberOf
  <2>9. /\ n <= membership'[u][TenantOf[s]].edits
        /\ r.barred => \/ ~r.device /\ device'[t].state # "live"
                       \/ membership'[u][TenantOf[s]].edits = n => ~Verified(u, s)'
    BY <2>5, <2>6, <2>7, <2>8, VerifiedStays
  <2>10. r' = r
    OBVIOUS
  <2> HIDE DEF r
  <2>11. i \in 1..Len(sessions')
    BY <1>0, <2>1, <2>3
  <2>12. /\ MemberOf(r.session)' = membership'[u][TenantOf[s]]
         /\ Verified(sessions[r.session].user, sessions[r.session].store)' <=> Verified(u, s)'
    BY <2>3, <2>4, <2>10 DEF MemberOf, Verified
  <2> QED BY <2>1, <2>3, <2>4, <2>9, <2>10, <2>11, <2>12 DEF SellShape
<1>4. UploadShape(r)'
  BY <1>0 DEF TillShape, UploadShape, At
<1>5. r.at = "sign_out" => r.session \in 1..Len(sessions')
  BY <1>0 DEF TillShape
<1> QED BY <1>1, <1>2, <1>3, <1>4, <1>5 DEF TillShape

\* A step of client c leaves the invariant to the tables and to c's request.
LEMMA TillStep ==
    ASSUME TillInvariant, TypeOK', HistoryTypeOK', MembershipGrows, DevicesGrow,
           SessionsGrow, KeysGrow, events \subseteq events',
           Paired', SessionsStand', KeysStand', AcceptedByOne', NoSaleOnceBarred',
           NEW c \in Clients, Only(c), TillShape(req[c])',
           \A d \in Clients \ {c} : At(d, "events") =>
                \A a \in req[d].ok : accepted'[a] = accepted[a]
    PROVE  TillInvariant'
<1>1. ASSUME NEW d \in Clients PROVE TillShape(req[d])'
  <2>1. CASE d = c
    BY <2>1
  <2>2. CASE d # c
    BY <2>2, TillOthers DEF Only
  <2> QED BY <2>1, <2>2
<1> QED BY <1>1 DEF TillInvariant

\* The same of a step that changes no request.
LEMMA TillQuiet ==
    ASSUME TillInvariant, TypeOK', HistoryTypeOK', MembershipGrows, DevicesGrow,
           SessionsGrow, KeysGrow, UNCHANGED <<uploads, sales, req>>,
           Paired', SessionsStand', KeysStand'
    PROVE  TillInvariant'
<1>1. ASSUME NEW d \in Clients PROVE TillShape(req[d])'
  BY TillOthers DEF uploads
<1>2. AcceptedByOne' /\ NoSaleOnceBarred'
  BY DEF TillInvariant, AcceptedByOne, ShiftsStand, NoSaleOnceBarred, uploads, At
<1> QED BY <1>1, <1>2 DEF TillInvariant

\* Tables of the tills that do not change grow, and keep what they promise.
LEMMA PairingStays ==
    ASSUME TillInvariant, UNCHANGED pairing
    PROVE  Paired' /\ DevicesGrow
<1>1. DevicesGrow
  BY DEF DevicesGrow, pairing
<1>2. Paired'
  BY DEF TillInvariant, Paired, pairing
<1> QED BY <1>1, <1>2

\* Sessions and keys that do not change still stand when devices and memberships
\* grow.
LEMMA OperatorsStay ==
    ASSUME TillInvariant, UNCHANGED operators, DevicesGrow, MembershipGrows
    PROVE  SessionsStand' /\ KeysStand' /\ SessionsGrow /\ KeysGrow
<1>1. UNCHANGED sessions /\ UNCHANGED key /\ UNCHANGED replayed /\ UNCHANGED ended
  BY DEF operators
<1>2. Len(sessions) \in Nat /\ \A i \in 1..Len(sessions) : sessions[i] \in OperatorSessionRow
  BY LenProperties, ElementOfSeq DEF TillInvariant, TypeOK
<1>3. SessionsGrow /\ KeysGrow
  BY <1>1, <1>2 DEF SessionsGrow, KeysGrow
<1>4. KeysStand'
  BY <1>1 DEF TillInvariant, KeysStand, IssuedBy
<1>5. ASSUME NEW i \in 1..Len(sessions)
      PROVE  /\ HasRow(sessions[i].user, TenantOf[sessions[i].store])'
             /\ device'[sessions[i].terminal].state # "none"
  <2>1. /\ sessions[i].user \in Users /\ TenantOf[sessions[i].store] \in Tenants
        /\ sessions[i].terminal \in Terminals
    BY <1>2, AccountsAssumption DEF OperatorSessionRow
  <2>2. /\ HasRow(sessions[i].user, TenantOf[sessions[i].store])
        /\ device[sessions[i].terminal].state # "none"
    BY DEF TillInvariant, SessionsStand
  <2> QED BY <1>1, <2>1, <2>2 DEF HasRow, MembershipGrows, DevicesGrow
<1>6. SessionsStand'
  BY <1>1, <1>5 DEF TillInvariant, SessionsStand, ClearUpTo
<1> QED BY <1>3, <1>4, <1>6

\* Uploads stay what they are while no batch is under way for c.
LEMMA UploadsStay ==
    ASSUME TillInvariant, UNCHANGED uploads, NEW c \in Clients, Only(c),
           req'[c].at = "events" => req'[c].ok = {}
    PROVE  /\ AcceptedByOne' /\ events \subseteq events'
           /\ \A d \in Clients \ {c} : At(d, "events") =>
                \A a \in req[d].ok : accepted'[a] = accepted[a]
BY DEF TillInvariant, AcceptedByOne, ShiftsStand, uploads, Only, At

\* What the types of the tills' tables need of a step.
LEMMA TillTypes ==
    ASSUME TillInvariant, AccountsTypeOK'
    PROVE  UNCHANGED pos => TypeOK' /\ HistoryTypeOK'
BY DEF TillInvariant, TypeOK, HistoryTypeOK, AccountsTypeOK, pos, pairing, operators, uploads

\* A step of the dashboard disturbs no till.
LEMMA TillsUndisturbed ==
    ASSUME TillInvariant, UNCHANGED pos, MembershipGrows, AccountsTypeOK', NoTill
    PROVE  TillInvariant'
<1>1. TypeOK' /\ HistoryTypeOK'
  BY TillTypes
<1>2. Paired' /\ DevicesGrow
  BY PairingStays DEF pos
<1>3. SessionsStand' /\ KeysStand' /\ SessionsGrow /\ KeysGrow
  BY <1>2, OperatorsStay DEF pos
<1>4. NoSaleOnceBarred'
  BY DEF TillInvariant, NoSaleOnceBarred, pos
<1>5. CASE UNCHANGED req
  BY <1>1, <1>2, <1>3, <1>5, TillQuiet DEF pos
<1>6. ASSUME NEW c \in Clients, Only(c), req'[c].at \notin TillSteps PROVE TillInvariant'
  <2>1. TillShape(req[c])' /\ req'[c].at # "events"
    BY <1>6, NoTillShape DEF TillSteps
  <2>2. /\ AcceptedByOne' /\ events \subseteq events'
        /\ \A d \in Clients \ {c} : At(d, "events") =>
             \A a \in req[d].ok : accepted'[a] = accepted[a]
    BY <1>6, <2>1, UploadsStay DEF pos
  <2> QED BY <1>1, <1>2, <1>3, <1>4, <1>6, <2>1, <2>2, TillStep
<1> QED BY <1>5, <1>6 DEF NoTill

\* A step of a till that only moves its request.
LEMMA MovesTill ==
    ASSUME IdentityInvariant, UNCHANGED <<pairing, accounts, operators, uploads, sales>>,
           NEW c \in Clients, Only(c), req'[c].at \notin AccountsSteps, TillShape(req[c])',
           req'[c].at = "events" => req'[c].ok = {}
    PROVE  IdentityInvariant'
<1> USE DEF IdentityInvariant
<1>1. AccountsInvariant' /\ MembershipGrows
  BY NoAccountsShape, AccountsRequest
<1>2. TypeOK' /\ HistoryTypeOK'
  BY <1>1, TillTypes DEF AccountsInvariant, pos
<1>3. Paired' /\ DevicesGrow
  BY PairingStays
<1>4. SessionsStand' /\ KeysStand' /\ SessionsGrow /\ KeysGrow
  BY <1>1, <1>3, OperatorsStay
<1>5. NoSaleOnceBarred'
  BY DEF TillInvariant, NoSaleOnceBarred
<1>6. /\ AcceptedByOne' /\ events \subseteq events'
      /\ \A d \in Clients \ {c} : At(d, "events") =>
           \A a \in req[d].ok : accepted'[a] = accepted[a]
  BY UploadsStay
<1> QED BY <1>1, <1>2, <1>3, <1>4, <1>5, <1>6, TillStep

-----------------------------------------------------------------------------
(* Requests of the tills that only read.                                     *)

\* The shape of a request at a step of a sign-in or takeover.
LEMMA OperateOnly ==
    ASSUME NEW c \in Clients, req'[c].at \in OperateSteps, OperateShape(req[c])'
    PROVE  TillShape(req[c])' /\ req'[c].at \notin AccountsSteps /\ req'[c].at # "events"
BY DEF TillShape, PairShape, SellShape, UploadShape, OperateSteps, PairSteps,
       AccountsSteps, TokenSteps, WriteSteps

\* The shape of a request at a step of a redemption.
LEMMA PairOnly ==
    ASSUME NEW c \in Clients, req'[c].at \in PairSteps, PairShape(req[c])'
    PROVE  TillShape(req[c])' /\ req'[c].at \notin AccountsSteps /\ req'[c].at # "events"
BY DEF TillShape, OperateShape, SellShape, UploadShape, OperateSteps, PairSteps,
       AccountsSteps, TokenSteps, WriteSteps

\* A redemption begins with a copy of the code's row.
LEMMA FindByCodeKeeps ==
    ASSUME IdentityInvariant, NEW c \in Clients, NEW k \in Codes, FindByCode(c, k)
    PROVE  IdentityInvariant'
<1>1. /\ Only(c)
      /\ req'[c] = [at |-> "attempt", code |-> k, status |-> code[k].status,
                    attempts |-> code[k].attempts]
  BY DEF IdentityInvariant, AccountsInvariant, FindByCode, Only
<1>2. code[k] \in PairingCodeRow
  BY DEF IdentityInvariant, TillInvariant, TypeOK
<1>3. PairShape(req[c])' /\ req'[c].at \in PairSteps
  BY <1>1, <1>2 DEF PairShape, PairSteps, PairingCodeRow
<1> QED BY <1>1, <1>3, PairOnly, MovesTill DEF FindByCode

\* The look at the terminal writes nothing.
LEMMA FindPairedBranchKeeps ==
    ASSUME IdentityInvariant, NEW c \in Clients, FindPairedBranch(c)
    PROVE  IdentityInvariant'
<1>0. AccountsInvariant
  BY DEF IdentityInvariant
<1>1. CASE Finish(c)
  BY <1>0, <1>1, FinishOnly, MovesTill DEF FindPairedBranch
<1>2. CASE GoTo(c, "provision")
  <2>1. Only(c) /\ req'[c] = [req[c] EXCEPT !.at = "provision"]
    BY <1>0, <1>2, GoToOnly
  <2>2. req[c] \in [at : PairSteps, code : Codes,
                    status : {"none", "pending", "used", "cancelled"}, attempts : Nat]
    BY DEF IdentityInvariant, TillInvariant, TillShape, PairShape, PairSteps,
           FindPairedBranch, At
  <2>3. PairShape(req[c])' /\ req'[c].at \in PairSteps
    BY <2>1, <2>2 DEF PairShape, PairSteps
  <2> QED BY <2>1, <2>3, PairOnly, MovesTill DEF FindPairedBranch
<1> QED BY <1>1, <1>2 DEF FindPairedBranch

\* A live terminal is paired, hence in a store.
LEMMA PairedHasStore ==
    ASSUME TillInvariant, NEW t \in Terminals, device[t].state # "none"
    PROVE  device[t].store \in Stores
<1>1. /\ device[t].token[2] \in Codes
      /\ device[t].store = CodeStore[device[t].token[2]]
  BY DEF TillInvariant, Paired
<1> QED BY <1>1, PosIdentityAssumption

\* A sign-in or takeover begins at a paired terminal, in its store.
LEMMA StartPipelineKeeps ==
    ASSUME IdentityInvariant, NEW c \in Clients, NEW kind \in {"sign_in", "takeover"},
           NEW u \in Users, NEW t \in Terminals, NEW e \in TakeoverEvents \cup {None},
           kind = "takeover" => e \in TakeoverEvents, StartPipeline(c, kind, u, t, e)
    PROVE  IdentityInvariant'
<1>1. /\ Only(c)
      /\ req'[c] = [at |-> "membership", kind |-> kind, user |-> u, terminal |-> t,
                    store |-> device[t].store, event |-> e, floor |-> 0, session |-> 0]
  BY DEF IdentityInvariant, AccountsInvariant, StartPipeline, Only
<1>2. device[t].state = "live" /\ device[t].store \in Stores
  BY PairedHasStore DEF StartPipeline, FindActiveByAttestation, IdentityInvariant
<1>3. UNCHANGED device /\ UNCHANGED sessions
  BY DEF StartPipeline, pairing, operators
<1>4. Len(sessions) \in Nat
  BY LenProperties DEF IdentityInvariant, TillInvariant, TypeOK
<1>5. /\ req'[c] \in [at : OperateSteps, kind : {"sign_in", "takeover"}, user : Users,
                  terminal : Terminals, store : Stores,
                  event : TakeoverEvents \cup {None}, floor : Nat, session : Nat]
      /\ req'[c].at = "membership" /\ req'[c].kind = kind /\ req'[c].terminal = t
      /\ req'[c].event = e /\ req'[c].floor = 0
  BY <1>1, <1>2 DEF OperateSteps
<1>6. ClearUpTo(0, req[c].terminal, req[c].store)'
  BY <1>3, <1>4 DEF ClearUpTo
<1>7. OperateShape(req[c])' /\ req'[c].at \in OperateSteps
  BY <1>2, <1>3, <1>5, <1>6 DEF OperateShape, OperateSteps
<1> QED BY <1>1, <1>7, OperateOnly, MovesTill DEF StartPipeline

\* Moving on from one step of a sign-in or takeover to another.
LEMMA OperateGoesOn ==
    ASSUME IdentityInvariant, NEW c \in Clients, req[c].at \in OperateSteps,
           NEW step \in OperateSteps \ {"record"}, GoTo(c, step),
           DevicesGrow, SessionsGrow, KeysGrow, MembershipGrows, TypeOK',
           step \in {"key", "revoke"} => req[c].kind = "takeover",
           step = "check" => req[c].kind = "sign_in",
           step # "membership" => HasRow(req[c].user, TenantOf[req[c].store]),
           req[c].kind = "takeover" /\ step \in {"revoke", "issue"} =>
                key'[req[c].event] # None /\ key'[req[c].event].operator = req[c].user,
           req[c].floor = 0
    PROVE  Only(c) /\ OperateShape(req[c])' /\ req'[c].at \in OperateSteps
<1>1. Only(c) /\ req'[c] = [req[c] EXCEPT !.at = step]
  BY GoToOnly DEF IdentityInvariant
<1>2. /\ req[c] \in [at : OperateSteps, kind : {"sign_in", "takeover"}, user : Users,
                  terminal : Terminals, store : Stores,
                  event : TakeoverEvents \cup {None}, floor : Nat, session : Nat]
      /\ device[req[c].terminal].state # "none"
      /\ req[c].kind = "takeover" => req[c].event \in TakeoverEvents
      /\ ClearUpTo(req[c].floor, req[c].terminal, req[c].store)
  BY DEF IdentityInvariant, TillInvariant, TillShape, OperateShape
<1>3. /\ req'[c] \in [at : OperateSteps, kind : {"sign_in", "takeover"}, user : Users,
                  terminal : Terminals, store : Stores,
                  event : TakeoverEvents \cup {None}, floor : Nat, session : Nat]
      /\ req'[c].at = step /\ req'[c].kind = req[c].kind /\ req'[c].user = req[c].user
      /\ req'[c].terminal = req[c].terminal /\ req'[c].store = req[c].store
      /\ req'[c].event = req[c].event /\ req'[c].floor = 0
  BY <1>1, <1>2
<1>4. PICK u \in Users, t \in Terminals, s \in Stores :
        u = req[c].user /\ t = req[c].terminal /\ s = req[c].store
  BY <1>2
<1>5. ClearUpTo(0, t, s)'
  <2>1. Len(sessions') \in Nat
    BY LenProperties DEF TypeOK
  <2> QED BY <2>1 DEF ClearUpTo
<1>6. step # "membership" => HasRow(u, TenantOf[s])'
  BY <1>4, VerifiedStays
<1>7. device'[t].state # "none"
  BY <1>2, <1>4 DEF DevicesGrow
<1> QED BY <1>1, <1>2, <1>3, <1>4, <1>5, <1>6, <1>7 DEF OperateShape

\* A check of a sign-in or takeover that reads tables only.
LEMMA OperateReads ==
    ASSUME IdentityInvariant, UNCHANGED <<pairing, accounts, operators, uploads, sales>>
    PROVE  DevicesGrow /\ SessionsGrow /\ KeysGrow /\ MembershipGrows /\ TypeOK'
<1>1. MembershipGrows
  BY NothingGrows DEF IdentityInvariant, accounts, directory
<1>2. DevicesGrow
  BY PairingStays DEF IdentityInvariant
<1>3. SessionsGrow /\ KeysGrow
  BY <1>1, <1>2, OperatorsStay DEF IdentityInvariant
<1>4. TypeOK'
  BY DEF IdentityInvariant, TillInvariant, TypeOK, pairing, operators, uploads, accounts,
         directory, dashboard
<1> QED BY <1>1, <1>2, <1>3, <1>4

\* Who passes the membership check has a row, and the row stays.
LEMMA CheckMembershipKeeps ==
    ASSUME IdentityInvariant, NEW c \in Clients, CheckMembership(c)
    PROVE  IdentityInvariant'
<1>0. AccountsInvariant /\ UNCHANGED <<pairing, accounts, operators, uploads, sales>>
  BY DEF IdentityInvariant, CheckMembership
<1>1. CASE Finish(c)
  BY <1>0, <1>1, FinishOnly, MovesTill
<1>2. CASE /\ Verified(req[c].user, req[c].store)
           /\ GoTo(c, IF req[c].kind = "sign_in" THEN "check" ELSE "key")
  <2>1. DevicesGrow /\ SessionsGrow /\ KeysGrow /\ MembershipGrows /\ TypeOK'
    BY <1>0, OperateReads
  <2>2. req[c].at \in OperateSteps /\ req[c].floor = 0 /\ req[c].kind \in {"sign_in", "takeover"}
    BY DEF CheckMembership, At, OperateSteps, IdentityInvariant, TillInvariant, TillShape,
           OperateShape
  <2>3. HasRow(req[c].user, TenantOf[req[c].store])
    BY <1>2 DEF Verified, HasRow
  <2>4. PICK step \in OperateSteps \ {"record"} :
          /\ GoTo(c, step)
          /\ step = IF req[c].kind = "sign_in" THEN "check" ELSE "key"
    BY <1>2 DEF OperateSteps
  <2>5. Only(c) /\ OperateShape(req[c])' /\ req'[c].at \in OperateSteps
    BY <2>1, <2>2, <2>3, <2>4, OperateGoesOn
  <2> QED BY <1>0, <2>5, OperateOnly, MovesTill
<1> QED BY <1>1, <1>2 DEF CheckMembership

\* The check for a live session decides for that moment only.
LEMMA CheckActiveSessionKeeps ==
    ASSUME IdentityInvariant, NEW c \in Clients, CheckActiveSession(c)
    PROVE  IdentityInvariant'
<1>0. AccountsInvariant /\ UNCHANGED <<pairing, accounts, operators, uploads, sales>>
  BY DEF IdentityInvariant, CheckActiveSession
<1>1. CASE Finish(c)
  BY <1>0, <1>1, FinishOnly, MovesTill
<1>2. CASE /\ Live(req[c].terminal, req[c].store) = {}
           /\ req' = [req EXCEPT ![c].at = "issue", ![c].floor = Len(sessions)]
  <2> DEFINE r == req[c]
  <2>1. TypeOK /\ UNCHANGED <<sessions, device, key, membership>>
    BY <1>0 DEF IdentityInvariant, TillInvariant, pairing, operators, accounts, directory
  <2>2. Len(sessions) \in Nat
    BY <2>1, LenProperties DEF TypeOK
  <2>3. r.at = "check" /\ r.at \in OperateSteps
    BY DEF CheckActiveSession, At, OperateSteps
  <2>4. /\ r \in [at : OperateSteps, kind : {"sign_in", "takeover"}, user : Users,
                   terminal : Terminals, store : Stores,
                   event : TakeoverEvents \cup {None}, floor : Nat, session : Nat]
        /\ device[r.terminal].state # "none" /\ r.kind = "sign_in"
        /\ HasRow(r.user, TenantOf[r.store])
    BY <2>3 DEF IdentityInvariant, TillInvariant, TillShape, OperateShape
  <2>5. Only(c) /\ req'[c] = [r EXCEPT !.at = "issue", !.floor = Len(sessions)]
    BY <1>0, <1>2 DEF AccountsInvariant, Only
  <2>6. /\ req'[c] \in [at : OperateSteps, kind : {"sign_in", "takeover"}, user : Users,
                   terminal : Terminals, store : Stores,
                   event : TakeoverEvents \cup {None}, floor : Nat, session : Nat]
        /\ req'[c].at = "issue" /\ req'[c].kind = "sign_in" /\ req'[c].user = r.user
        /\ req'[c].terminal = r.terminal /\ req'[c].store = r.store
        /\ req'[c].floor = Len(sessions)
    BY <2>2, <2>4, <2>5 DEF OperateSteps
  <2>7. ClearUpTo(Len(sessions), r.terminal, r.store)
    BY <1>2, <2>2 DEF ClearUpTo, Live
  <2>8. ClearUpTo(req[c].floor, req[c].terminal, req[c].store)'
    BY <2>1, <2>6, <2>7 DEF ClearUpTo
  <2>9. HasRow(req[c].user, TenantOf[req[c].store])'
    BY <2>1, <2>4, <2>6 DEF HasRow
  <2>10. OperateShape(req[c])' /\ req'[c].at \in OperateSteps
    <3> HIDE DEF r
    <3> QED BY <2>1, <2>4, <2>6, <2>8, <2>9 DEF OperateShape, OperateSteps
  <2> QED BY <1>0, <2>5, <2>10, OperateOnly, MovesTill
<1> QED BY <1>1, <1>2 DEF CheckActiveSession, ActiveOperatorSessionExists

\* The session a sign-out read is one of the rows.
LEMMA ReadSessionToSignOutKeeps ==
    ASSUME IdentityInvariant, NEW c \in Clients, NEW i \in 1..Len(sessions),
           ReadSessionToSignOut(c, i)
    PROVE  IdentityInvariant'
<1>1. Only(c) /\ req'[c] = [at |-> "sign_out", session |-> i]
  BY DEF IdentityInvariant, AccountsInvariant, ReadSessionToSignOut, Only
<1>2. UNCHANGED sessions
  BY DEF ReadSessionToSignOut, operators
<1>3. TillShape(req[c])'
  BY <1>1, <1>2 DEF TillShape, PairShape, OperateShape, SellShape, UploadShape, PairSteps,
                    OperateSteps
<1>4. req'[c].at \notin AccountsSteps /\ req'[c].at # "events"
  BY <1>1 DEF AccountsSteps, TokenSteps, WriteSteps
<1> QED BY <1>1, <1>3, <1>4, MovesTill DEF ReadSessionToSignOut

\* The shape of a request for a sale.
LEMMA SellOnly ==
    ASSUME NEW c \in Clients, req'[c].at = "reverify", SellShape(req[c])'
    PROVE  TillShape(req[c])' /\ req'[c].at \notin AccountsSteps /\ req'[c].at # "events"
BY DEF TillShape, PairShape, OperateShape, UploadShape, OperateSteps, PairSteps,
       AccountsSteps, TokenSteps, WriteSteps

\* A live session whose user is barred: the device or the membership.
LEMMA FindActiveByRawTokenKeeps ==
    ASSUME IdentityInvariant, NEW c \in Clients, NEW i \in 1..Len(sessions),
           FindActiveByRawToken(c, i)
    PROVE  IdentityInvariant'
<1>1. /\ Only(c)
      /\ req'[c] = [at |-> "reverify", session |-> i, barred |-> Barred(i),
                    device |-> FALSE, edits |-> MemberOf(i).edits]
  BY DEF IdentityInvariant, AccountsInvariant, FindActiveByRawToken, Only
<1>2. /\ UNCHANGED sessions /\ UNCHANGED device /\ UNCHANGED membership
      /\ sessions[i].state = "live"
  BY DEF FindActiveByRawToken, operators, pairing, accounts, directory
<1>3. sessions[i] \in OperatorSessionRow /\ i \in Nat
  BY ElementOfSeq, LenProperties DEF IdentityInvariant, TillInvariant, TypeOK
<1>4. MemberOf(i).edits \in Nat
  BY <1>3, AccountsAssumption
     DEF MemberOf, OperatorSessionRow, IdentityInvariant, TillInvariant, TypeOK, MembershipRow
<1>5. Barred(i) \in BOOLEAN
  BY DEF Barred
<1>6. /\ req'[c] \in [at : {"reverify"}, session : Nat, barred : BOOLEAN,
                      device : BOOLEAN, edits : Nat]
      /\ req'[c].at = "reverify" /\ req'[c].session = i /\ ~req'[c].device
      /\ req'[c].edits = MemberOf(i).edits
  BY <1>1, <1>3, <1>4, <1>5
<1>7. req'[c].barred => Barred(i)
  BY <1>1
<1>8. Barred(i) => \/ device[sessions[i].terminal].state # "live"
                   \/ ~Verified(sessions[i].user, sessions[i].store)
  BY <1>2 DEF Barred
<1>9. Verified(sessions[req[c].session].user, sessions[req[c].session].store)'
        => Verified(sessions[i].user, sessions[i].store)
  BY <1>2, <1>6 DEF Verified
<1>10. MemberOf(req[c].session)' = MemberOf(i)
  BY <1>2, <1>6 DEF MemberOf
<1>11. SellShape(req[c])'
  BY <1>2, <1>4, <1>6, <1>7, <1>8, <1>9, <1>10 DEF SellShape
<1> QED BY <1>1, <1>6, <1>11, SellOnly, MovesTill DEF FindActiveByRawToken

\* Past the device's check a barred sale is barred by its membership.
LEMMA ReverifyDeviceKeeps ==
    ASSUME IdentityInvariant, NEW c \in Clients, ReverifyDevice(c)
    PROVE  IdentityInvariant'
<1>0. AccountsInvariant /\ UNCHANGED <<pairing, accounts, operators, uploads, sales>>
  BY DEF IdentityInvariant, ReverifyDevice
<1>1. CASE Finish(c)
  BY <1>0, <1>1, FinishOnly, MovesTill
<1>2. CASE /\ device[sessions[req[c].session].terminal].state = "live"
           /\ req' = [req EXCEPT ![c].device = TRUE]
  <2>1. Only(c) /\ req'[c] = [req[c] EXCEPT !.device = TRUE]
    BY <1>2 DEF IdentityInvariant, AccountsInvariant, Only
  <2>2. UNCHANGED sessions /\ UNCHANGED device /\ UNCHANGED membership
    BY <1>0 DEF operators, pairing, accounts, directory
  <2>3. /\ req[c] \in [at : {"reverify"}, session : Nat, barred : BOOLEAN,
                       device : BOOLEAN, edits : Nat]
        /\ req[c].session \in 1..Len(sessions)
        /\ req[c].edits <= MemberOf(req[c].session).edits
        /\ req[c].barred => (MemberOf(req[c].session).edits = req[c].edits =>
             ~Verified(sessions[req[c].session].user, sessions[req[c].session].store))
    BY <1>2 DEF ReverifyDevice, At, IdentityInvariant, TillInvariant, TillShape, SellShape
  <2>4. /\ req'[c] \in [at : {"reverify"}, session : Nat, barred : BOOLEAN,
                        device : BOOLEAN, edits : Nat]
        /\ req'[c].at = "reverify" /\ req'[c].session = req[c].session
        /\ req'[c].barred = req[c].barred /\ req'[c].edits = req[c].edits
    BY <2>1, <2>3
  <2>5. MemberOf(req[c].session)' = MemberOf(req[c].session)
    BY <2>2, <2>4 DEF MemberOf
  <2>6. Verified(sessions[req[c].session].user, sessions[req[c].session].store)'
          => Verified(sessions[req[c].session].user, sessions[req[c].session].store)
    BY <2>2, <2>4 DEF Verified
  <2>7. SellShape(req[c])'
    BY <2>2, <2>3, <2>4, <2>5, <2>6 DEF SellShape
  <2> QED BY <1>0, <2>1, <2>4, <2>7, SellOnly, MovesTill
<1> QED BY <1>1, <1>2 DEF ReverifyDevice

\* A batch begins with nothing accepted.
LEMMA SyncBatchKeeps ==
    ASSUME IdentityInvariant, NEW c \in Clients, NEW t \in Terminals,
           NEW batch \in SUBSET AuditEvents, SyncBatch(c, t, batch)
    PROVE  IdentityInvariant'
<1>1. /\ Only(c)
      /\ req'[c] = [at |-> "events", store |-> device[t].store, todo |-> batch, ok |-> {}]
  BY DEF IdentityInvariant, AccountsInvariant, SyncBatch, Only
<1>2. device[t].store \in Stores
  BY PairedHasStore DEF SyncBatch, FindActiveByAttestation, IdentityInvariant
<1>3. TillShape(req[c])'
  BY <1>1, <1>2 DEF TillShape, PairShape, OperateShape, SellShape, UploadShape, PairSteps,
                    OperateSteps
<1>4. req'[c].at \notin AccountsSteps /\ req'[c].ok = {}
  BY <1>1 DEF AccountsSteps, TokenSteps, WriteSteps
<1> QED BY <1>1, <1>3, <1>4, MovesTill DEF SyncBatch

\* A sale let in was verified at the end, so not barred throughout.
LEMMA AdmitSaleKeeps ==
    ASSUME IdentityInvariant, NEW c \in Clients, AdmitSale(c)
    PROVE  IdentityInvariant'
<1> USE DEF IdentityInvariant
<1>1. /\ Only(c) /\ req'[c].at \notin AccountsSteps /\ req'[c].at # "events"
      /\ TillShape(req[c])'
  BY FinishOnly DEF AdmitSale
<1>2. UNCHANGED <<pairing, accounts, operators, uploads>>
  BY DEF AdmitSale
<1>3. AccountsInvariant' /\ MembershipGrows
  BY <1>1, <1>2, NoAccountsShape, AccountsRequest
<1>4. TypeOK' /\ HistoryTypeOK'
  BY <1>2 DEF TillInvariant, TypeOK, HistoryTypeOK, pairing, operators, uploads, accounts,
              directory, dashboard
<1>5. Paired' /\ DevicesGrow
  BY <1>2, PairingStays
<1>6. SessionsStand' /\ KeysStand' /\ SessionsGrow /\ KeysGrow
  BY <1>2, <1>3, <1>5, OperatorsStay
<1>7. /\ AcceptedByOne' /\ events \subseteq events'
      /\ \A d \in Clients \ {c} : At(d, "events") =>
           \A a \in req[d].ok : accepted'[a] = accepted[a]
  BY <1>1, <1>2, UploadsStay
<1>8. NoSaleOnceBarred'
  <2> DEFINE i == req[c].session
  <2>1. Verified(sessions[i].user, sessions[i].store) =>
          ~(req[c].barred /\ MemberOf(i).edits = req[c].edits)
    BY DEF AdmitSale, At, TillInvariant, TillShape, SellShape
  <2>2. TRUE \notin sales
    BY DEF TillInvariant, NoSaleOnceBarred
  <2>3. sales' = IF Verified(sessions[i].user, sessions[i].store)
                 THEN sales \cup {req[c].barred /\ MemberOf(i).edits = req[c].edits}
                 ELSE sales
    BY DEF AdmitSale, Reverified
  <2> HIDE DEF i
  <2> QED BY <2>1, <2>2, <2>3 DEF NoSaleOnceBarred
<1> QED BY <1>1, <1>3, <1>4, <1>5, <1>6, <1>7, <1>8, TillStep

-----------------------------------------------------------------------------
(* Pairing.                                                                  *)

\* A step that writes codes and devices only.
LEMMA PairingWrite ==
    ASSUME IdentityInvariant, UNCHANGED <<accounts, operators, uploads, sales>>,
           code' \in [Codes -> PairingCodeRow], device' \in [Terminals -> DeviceRow],
           handed' \subseteq (Clients \X Codes) \X Terminals, tried' \in [Codes -> Nat],
           Paired', DevicesGrow
    PROVE  /\ UNCHANGED req => IdentityInvariant'
           /\ \A c \in Clients :
                (/\ Only(c) /\ req'[c].at \notin AccountsSteps /\ req'[c].at # "events"
                 /\ TillShape(req[c])') => IdentityInvariant'
<1> USE DEF IdentityInvariant
<1>1. MembershipGrows
  BY NothingGrows DEF accounts, directory
<1>2. TypeOK' /\ HistoryTypeOK'
  BY DEF TillInvariant, TypeOK, HistoryTypeOK, operators, uploads, accounts, directory, dashboard
<1>3. SessionsStand' /\ KeysStand' /\ SessionsGrow /\ KeysGrow
  BY <1>1, OperatorsStay
<1>4. ASSUME UNCHANGED req PROVE IdentityInvariant'
  <2>1. AccountsInvariant'
    BY <1>4, AccountsUntouched
  <2> QED BY <1>1, <1>2, <1>3, <1>4, <2>1, TillQuiet
<1>5. ASSUME NEW c \in Clients, Only(c), req'[c].at \notin AccountsSteps,
             req'[c].at # "events", TillShape(req[c])'
      PROVE  IdentityInvariant'
  <2>1. AccountsInvariant'
    BY <1>5, NoAccountsShape, AccountsRequest
  <2>2. /\ AcceptedByOne' /\ events \subseteq events'
        /\ \A d \in Clients \ {c} : At(d, "events") =>
             \A a \in req[d].ok : accepted'[a] = accepted[a]
    BY <1>5, UploadsStay
  <2>3. NoSaleOnceBarred'
    BY DEF TillInvariant, NoSaleOnceBarred
  <2> QED BY <1>1, <1>2, <1>3, <1>5, <2>1, <2>2, <2>3, TillStep
<1> QED BY <1>4, <1>5

\* A code that is not used changes in something but that.
LEMMA CodeChanges ==
    ASSUME TillInvariant, NEW k \in Codes, NEW row \in PairingCodeRow,
           code' = [code EXCEPT ![k] = row], UNCHANGED <<device, handed>>,
           row.status = "used" <=> code[k].status = "used",
           tried' \in [Codes -> Nat],
           \A l \in Codes : l # k => tried'[l] = tried[l],
           tried'[k] <= row.attempts, tried'[k] <= MaxAttempts
    PROVE  /\ code' \in [Codes -> PairingCodeRow] /\ Paired' /\ DevicesGrow
           /\ device' \in [Terminals -> DeviceRow]
           /\ handed' \subseteq (Clients \X Codes) \X Terminals
<1>1. /\ code' \in [Codes -> PairingCodeRow]
      /\ \A l \in Codes : code'[l] = IF l = k THEN row ELSE code[l]
  BY DEF TillInvariant, TypeOK
<1>2. \A l \in Codes : code'[l].status = "used" <=> code[l].status = "used"
  BY <1>1
<1>3. \A t \in Terminals : device[t].state # "none" => device[t].token[2] \in Codes
  BY DEF TillInvariant, Paired
<1>4. Paired'
  <2>1. \A l \in Codes : code'[l].status = "used" =>
          /\ device'[CodeTerminal[l]].state # "none"
          /\ device'[CodeTerminal[l]].token[2] = l
    BY <1>2 DEF TillInvariant, Paired
  <2>2. \A t \in Terminals : device'[t].state # "none" =>
          /\ device'[t].token \in (Clients \cup {None}) \X Codes
          /\ CodeTerminal[device'[t].token[2]] = t
          /\ device'[t].store = CodeStore[device'[t].token[2]]
          /\ code'[device'[t].token[2]].status = "used"
    BY <1>2, <1>3 DEF TillInvariant, Paired
  <2>3. \A h \in handed' : device'[h[2]].state # "none" /\ device'[h[2]].token = h[1]
    BY DEF TillInvariant, Paired
  <2>4. \A l \in Codes : tried'[l] <= code'[l].attempts /\ tried'[l] <= MaxAttempts
    BY <1>1 DEF TillInvariant, Paired
  <2> QED BY <2>1, <2>2, <2>3, <2>4 DEF Paired
<1>5. DevicesGrow
  BY DEF DevicesGrow
<1> QED BY <1>1, <1>4, <1>5 DEF TillInvariant, TypeOK, HistoryTypeOK

\* A code that is issued or expires was not used and is not now.
LEMMA SeedOrExpireKeeps ==
    ASSUME IdentityInvariant, NEW k \in Codes, SeedCode(k) \/ ExpireCode(k)
    PROVE  IdentityInvariant'
<1> USE DEF IdentityInvariant
<1>1. code[k] \in PairingCodeRow /\ tried \in [Codes -> Nat]
      /\ tried[k] <= code[k].attempts /\ tried[k] <= MaxAttempts
  BY DEF TillInvariant, TypeOK, HistoryTypeOK, Paired
<1>2. PICK row \in PairingCodeRow :
        /\ code' = [code EXCEPT ![k] = row]
        /\ row.status = "used" <=> code[k].status = "used"
        /\ row.attempts = code[k].attempts
  <2>1. CASE SeedCode(k)
    <3> DEFINE row == [code[k] EXCEPT !.status = "pending"]
    <3>1. /\ row \in PairingCodeRow /\ row.status = "pending"
          /\ row.attempts = code[k].attempts
      BY <1>1 DEF PairingCodeRow
    <3>2. code' = [code EXCEPT ![k] = row] /\ code[k].status = "none"
      BY <2>1 DEF SeedCode
    <3> QED BY <3>1, <3>2
  <2>2. CASE ExpireCode(k)
    <3> DEFINE row == [code[k] EXCEPT !.expired = TRUE]
    <3>1. /\ row \in PairingCodeRow /\ row.status = code[k].status
          /\ row.attempts = code[k].attempts
      BY <1>1 DEF PairingCodeRow
    <3>2. code' = [code EXCEPT ![k] = row]
      BY <2>2 DEF ExpireCode
    <3> QED BY <3>1, <3>2
  <2> QED BY <2>1, <2>2
<1>3. UNCHANGED <<device, handed, tried, accounts, operators, uploads, sales, req>>
  BY DEF SeedCode, ExpireCode
<1>4. /\ code' \in [Codes -> PairingCodeRow] /\ Paired' /\ DevicesGrow
      /\ device' \in [Terminals -> DeviceRow]
      /\ handed' \subseteq (Clients \X Codes) \X Terminals
  BY <1>1, <1>2, <1>3, CodeChanges
<1> QED BY <1>1, <1>3, <1>4, PairingWrite

\* An attempt within the limit is one the database has counted.
LEMMA RecordAttemptKeeps ==
    ASSUME IdentityInvariant, NEW c \in Clients, RecordAttempt(c)
    PROVE  IdentityInvariant'
<1> USE DEF IdentityInvariant
<1> DEFINE k == req[c].code  row == [code[k] EXCEPT !.attempts = @ + 1]
<1>1. req[c] \in [at : PairSteps, code : Codes,
                  status : {"none", "pending", "used", "cancelled"}, attempts : Nat]
  BY DEF TillInvariant, TillShape, PairShape, PairSteps, RecordAttempt, At
<1>2. /\ k \in Codes /\ code[k] \in PairingCodeRow /\ tried \in [Codes -> Nat]
      /\ tried[k] <= code[k].attempts /\ tried[k] <= MaxAttempts
      /\ code[k].attempts \in Nat /\ tried[k] \in Nat
  BY <1>1 DEF TillInvariant, TypeOK, HistoryTypeOK, Paired, PairingCodeRow
<1>3. /\ row \in PairingCodeRow /\ row.status = code[k].status
      /\ row.attempts = code[k].attempts + 1
  <2>1. PICK n \in Nat : n = code[k].attempts + 1
    BY <1>2
  <2> QED BY <1>2, <2>1 DEF PairingCodeRow
<1>4. /\ code' = [code EXCEPT ![k] = row]
      /\ UNCHANGED <<device, handed, accounts, operators, uploads, sales>>
  BY DEF RecordAttempt, AttemptsAfter
<1>5. /\ tried' \in [Codes -> Nat] /\ \A l \in Codes : l # k => tried'[l] = tried[l]
      /\ tried'[k] <= row.attempts /\ tried'[k] <= MaxAttempts
  <2>1. CASE UNCHANGED tried
    BY <1>2, <1>3, <2>1
  <2>2. CASE tried' = [tried EXCEPT ![k] = @ + 1] /\ ~(code[k].attempts + 1 > MaxAttempts)
    <3>1. tried' \in [Codes -> Nat] /\ \A l \in Codes : l # k => tried'[l] = tried[l]
      BY <1>2, <2>2
    <3>2. tried'[k] = tried[k] + 1
      BY <1>2, <2>2
    <3> HIDE DEF k, row
    <3> QED BY <1>2, <1>3, <2>2, <3>1, <3>2, PosIdentityAssumption
  <2> QED BY <2>1, <2>2 DEF RecordAttempt, AttemptsAfter
<1>6. /\ code' \in [Codes -> PairingCodeRow] /\ Paired' /\ DevicesGrow
      /\ device' \in [Terminals -> DeviceRow]
      /\ handed' \subseteq (Clients \X Codes) \X Terminals
  <2> HIDE DEF k, row
  <2> QED BY <1>2, <1>3, <1>4, <1>5, CodeChanges
<1>7. CASE Finish(c)
  BY <1>4, <1>5, <1>6, <1>7, FinishOnly, PairingWrite
<1>8. CASE GoTo(c, "branch")
  <2>1. Only(c) /\ req'[c] = [req[c] EXCEPT !.at = "branch"]
    BY <1>8, GoToOnly
  <2>2. PairShape(req[c])' /\ req'[c].at \in PairSteps
    BY <1>1, <2>1 DEF PairShape, PairSteps
  <2>3. TillShape(req[c])' /\ req'[c].at \notin AccountsSteps /\ req'[c].at # "events"
    BY <2>2, PairOnly
  <2> QED BY <1>4, <1>5, <1>6, <2>1, <2>3, PairingWrite
<1> QED BY <1>7, <1>8 DEF RecordAttempt

\* A revoked device keeps its row, its token and its store.
LEMMA RevokeDeviceKeeps ==
    ASSUME IdentityInvariant, NEW t \in Terminals, RevokeDevice(t)
    PROVE  IdentityInvariant'
<1> USE DEF IdentityInvariant
<1> DEFINE row == [device[t] EXCEPT !.state = "revoked"]
<1>1. device[t] \in DeviceRow /\ device \in [Terminals -> DeviceRow]
  BY DEF TillInvariant, TypeOK
<1>2. /\ row \in DeviceRow /\ row.state = "revoked" /\ row.token = device[t].token
      /\ row.store = device[t].store
  BY <1>1 DEF DeviceRow
<1>3. /\ device' = [device EXCEPT ![t] = row] /\ device[t].state = "live"
      /\ UNCHANGED <<code, handed, tried, accounts, operators, uploads, sales, req>>
  BY DEF RevokeDevice
<1> HIDE DEF row
<1>4. /\ device' \in [Terminals -> DeviceRow]
      /\ \A u \in Terminals : device'[u] = IF u = t THEN row ELSE device[u]
  BY <1>1, <1>2, <1>3
<1>5. \A u \in Terminals :
        /\ device'[u].token = device[u].token /\ device'[u].store = device[u].store
        /\ device'[u].state # "none" <=> device[u].state # "none"
        /\ device'[u].state = "live" => device[u].state = "live"
  BY <1>2, <1>3, <1>4
<1>6. DevicesGrow
  BY <1>5 DEF DevicesGrow
<1>7. Paired'
  <2>1. \A k \in Codes : CodeTerminal[k] \in Terminals
    BY PosIdentityAssumption
  <2>2. \A h \in handed : h[2] \in Terminals
    BY DEF TillInvariant, HistoryTypeOK
  <2> QED BY <1>3, <1>5, <2>1, <2>2 DEF TillInvariant, Paired
<1>8. /\ code' \in [Codes -> PairingCodeRow] /\ tried' \in [Codes -> Nat]
      /\ handed' \subseteq (Clients \X Codes) \X Terminals
  BY <1>3 DEF TillInvariant, TypeOK, HistoryTypeOK
<1> QED BY <1>3, <1>4, <1>6, <1>7, <1>8, PairingWrite

\* The burn and the device commit together: the terminal had no row, so no
\* code of its was used and no token of its handed out.
LEMMA BurnAndProvisionKeeps ==
    ASSUME IdentityInvariant, NEW c \in Clients, BurnAndProvision(c)
    PROVE  IdentityInvariant'
<1> USE DEF IdentityInvariant
<1> DEFINE k == req[c].code  t == CodeTerminal[k]
           used == [code[k] EXCEPT !.status = "used"]  row == Provisioned(c, k)
<1>1. k \in Codes /\ t \in Terminals
  BY PosIdentityAssumption
     DEF TillInvariant, TillShape, PairShape, PairSteps, BurnAndProvision, At
<1>2. /\ code \in [Codes -> PairingCodeRow] /\ device \in [Terminals -> DeviceRow]
      /\ handed \subseteq (Clients \X Codes) \X Terminals /\ tried \in [Codes -> Nat]
  BY DEF TillInvariant, TypeOK, HistoryTypeOK
<1>3. UNCHANGED <<accounts, operators, uploads, sales>> /\ Finish(c)
  BY DEF BurnAndProvision
<1>4. /\ Only(c) /\ req'[c].at \notin AccountsSteps /\ req'[c].at # "events"
      /\ TillShape(req[c])'
  BY <1>3, FinishOnly
<1>5. CASE UNCHANGED pairing
  BY <1>3, <1>4, <1>5, MovesTill
<1>6. CASE /\ Burnable(k) /\ TerminalFree(t)
           /\ code' = [code EXCEPT ![k] = used] /\ device' = [device EXCEPT ![t] = row]
           /\ handed' \in {handed, handed \cup {<<<<c, k>>, t>>}}
           /\ UNCHANGED tried
  <2>1. /\ used \in PairingCodeRow /\ used.status = "used"
        /\ used.attempts = code[k].attempts
    BY <1>1, <1>2 DEF PairingCodeRow
  <2>2. /\ row \in DeviceRow /\ row.state = "live" /\ row.store = CodeStore[k]
        /\ row.token = <<c, k>>
    BY <1>1, PosIdentityAssumption DEF Provisioned, DeviceRow
  <2>3. device[t].state = "none" /\ code[k].status = "pending"
    BY <1>6 DEF TerminalFree, Burnable
  <2> HIDE DEF k, t, used, row
  <2>4. /\ code' \in [Codes -> PairingCodeRow]
        /\ \A l \in Codes : code'[l] = IF l = k THEN used ELSE code[l]
    BY <1>1, <1>2, <1>6, <2>1
  <2>5. /\ device' \in [Terminals -> DeviceRow]
        /\ \A u \in Terminals : device'[u] = IF u = t THEN row ELSE device[u]
    BY <1>1, <1>2, <1>6, <2>2
  <2>6. handed' \subseteq (Clients \X Codes) \X Terminals
    BY <1>1, <1>2, <1>6
  <2>7. DevicesGrow
    BY <2>3, <2>5 DEF DevicesGrow
  <2>8. \A l \in Codes : code'[l].status = "used" =>
          /\ device'[CodeTerminal[l]].state # "none"
          /\ device'[CodeTerminal[l]].token[2] = l
    <3> SUFFICES ASSUME NEW l \in Codes, code'[l].status = "used"
        PROVE  /\ device'[CodeTerminal[l]].state # "none"
               /\ device'[CodeTerminal[l]].token[2] = l
      OBVIOUS
    <3>1. CASE l = k
      BY <1>1, <2>2, <2>5, <3>1 DEF t
    <3>2. CASE l # k
      <4>1. code[l].status = "used" /\ CodeTerminal[l] \in Terminals
        BY <2>4, <3>2, PosIdentityAssumption
      <4>2. device[CodeTerminal[l]].state # "none" /\ device[CodeTerminal[l]].token[2] = l
        BY <4>1 DEF TillInvariant, Paired
      <4> QED BY <2>3, <2>5, <4>1, <4>2
    <3> QED BY <3>1, <3>2
  <2>9. \A u \in Terminals : device'[u].state # "none" =>
          /\ device'[u].token \in (Clients \cup {None}) \X Codes
          /\ CodeTerminal[device'[u].token[2]] = u
          /\ device'[u].store = CodeStore[device'[u].token[2]]
          /\ code'[device'[u].token[2]].status = "used"
    <3> SUFFICES ASSUME NEW u \in Terminals, device'[u].state # "none"
        PROVE  /\ device'[u].token \in (Clients \cup {None}) \X Codes
               /\ CodeTerminal[device'[u].token[2]] = u
               /\ device'[u].store = CodeStore[device'[u].token[2]]
               /\ code'[device'[u].token[2]].status = "used"
      OBVIOUS
    <3>1. CASE u = t
      <4>1. device'[u].token = <<c, k>> /\ device'[u].store = CodeStore[k]
        BY <2>2, <2>5, <3>1
      <4> QED BY <1>1, <2>1, <2>4, <3>1, <4>1 DEF t
    <3>2. CASE u # t
      <4>1. /\ device'[u] = device[u] /\ device[u].token \in (Clients \cup {None}) \X Codes
            /\ CodeTerminal[device[u].token[2]] = u
            /\ device[u].store = CodeStore[device[u].token[2]]
            /\ code[device[u].token[2]].status = "used"
        BY <2>5, <3>2 DEF TillInvariant, Paired
      <4>2. device[u].token[2] \in Codes
        BY <4>1
      <4> QED BY <2>1, <2>4, <4>1, <4>2
    <3> QED BY <3>1, <3>2
  <2>10. \A h \in handed' : device'[h[2]].state # "none" /\ device'[h[2]].token = h[1]
    <3> SUFFICES ASSUME NEW h \in handed'
        PROVE  device'[h[2]].state # "none" /\ device'[h[2]].token = h[1]
      OBVIOUS
    <3>1. CASE h \in handed
      <4>1. h[2] \in Terminals /\ device[h[2]].state # "none" /\ device[h[2]].token = h[1]
        BY <1>2, <3>1 DEF TillInvariant, Paired
      <4> QED BY <2>3, <2>5, <4>1
    <3>2. CASE h = <<<<c, k>>, t>>
      BY <1>1, <2>2, <2>5, <3>2
    <3> QED BY <1>6, <3>1, <3>2
  <2>11. \A l \in Codes : tried'[l] <= code'[l].attempts /\ tried'[l] <= MaxAttempts
    BY <1>6, <2>1, <2>4 DEF TillInvariant, Paired
  <2>12. Paired'
    BY <2>8, <2>9, <2>10, <2>11 DEF Paired
  <2>13. tried' \in [Codes -> Nat]
    BY <1>2, <1>6
  <2> QED BY <1>3, <1>4, <2>4, <2>5, <2>6, <2>7, <2>12, <2>13, PairingWrite
<1> QED BY <1>5, <1>6 DEF BurnAndProvision, OnAlreadyProvisioned, pairing

-----------------------------------------------------------------------------
(* Operator sessions and takeover keys.                                      *)

\* A step that writes operator sessions and takeover keys only.
LEMMA OperatorsWrite ==
    ASSUME IdentityInvariant, UNCHANGED <<pairing, accounts, uploads, sales>>,
           sessions' \in Seq(OperatorSessionRow),
           key' \in [TakeoverEvents -> {None} \cup TakeoverKeyRow],
           replayed' \subseteq TakeoverEvents \X Users \X Nat, ended' \subseteq Nat \X Clients,
           SessionsGrow, KeysGrow, SessionsStand', KeysStand'
    PROVE  /\ UNCHANGED req => IdentityInvariant'
           /\ \A c \in Clients :
                (/\ Only(c) /\ req'[c].at \notin AccountsSteps /\ req'[c].at # "events"
                 /\ TillShape(req[c])') => IdentityInvariant'
<1> USE DEF IdentityInvariant
<1>1. MembershipGrows
  BY NothingGrows DEF accounts, directory
<1>2. TypeOK' /\ HistoryTypeOK'
  BY DEF TillInvariant, TypeOK, HistoryTypeOK, pairing, uploads, accounts, directory, dashboard
<1>3. Paired' /\ DevicesGrow
  BY PairingStays
<1>4. ASSUME UNCHANGED req PROVE IdentityInvariant'
  <2>1. AccountsInvariant'
    BY <1>4, AccountsUntouched
  <2> QED BY <1>1, <1>2, <1>3, <1>4, <2>1, TillQuiet
<1>5. ASSUME NEW c \in Clients, Only(c), req'[c].at \notin AccountsSteps,
             req'[c].at # "events", TillShape(req[c])'
      PROVE  IdentityInvariant'
  <2>1. AccountsInvariant'
    BY <1>5, NoAccountsShape, AccountsRequest
  <2>2. /\ AcceptedByOne' /\ events \subseteq events'
        /\ \A d \in Clients \ {c} : At(d, "events") =>
             \A a \in req[d].ok : accepted'[a] = accepted[a]
    BY <1>5, UploadsStay
  <2>3. NoSaleOnceBarred'
    BY DEF TillInvariant, NoSaleOnceBarred
  <2> QED BY <1>1, <1>2, <1>3, <1>5, <2>1, <2>2, <2>3, TillStep
<1> QED BY <1>4, <1>5

\* Keys and replays name sessions that keep what they were issued for.
LEMMA KeysKeepSessions ==
    ASSUME TillInvariant, SessionsGrow, sessions' \in Seq(OperatorSessionRow),
           UNCHANGED <<key, replayed>>
    PROVE  KeysStand' /\ KeysGrow
<1>1. KeysGrow
  BY DEF KeysGrow
<1>2. \A i \in Nat, e \in TakeoverEvents, u \in Users : IssuedBy(i, e, u) => IssuedBy(i, e, u)'
  BY SessionFactsStay DEF TillInvariant, TypeOK
<1>3. ASSUME NEW e \in TakeoverEvents, key[e] # None, key[e].session # 0
      PROVE  IssuedBy(key[e].session, e, key[e].operator)'
  <2>1. key[e] \in TakeoverKeyRow /\ IssuedBy(key[e].session, e, key[e].operator)
    BY <1>3 DEF TillInvariant, TypeOK, KeysStand
  <2>2. PICK i \in Nat, u \in Users : i = key[e].session /\ u = key[e].operator
    BY <2>1 DEF TakeoverKeyRow
  <2>3. IssuedBy(i, e, u)'
    BY <1>2, <2>1, <2>2
  <2>4. i = key'[e].session /\ u = key'[e].operator
    BY <2>2
  <2> QED BY <2>3, <2>4 DEF IssuedBy
<1>4. ASSUME NEW r \in replayed PROVE IssuedBy(r[3], r[1], r[2])'
  BY <1>2 DEF TillInvariant, HistoryTypeOK, KeysStand
<1> QED BY <1>1, <1>3, <1>4 DEF KeysStand

\* Sessions that grow leave to prove what their new rows and the ends told of
\* promise.
LEMMA SessionsKeepPromises ==
    ASSUME TillInvariant, SessionsGrow, sessions' \in Seq(OperatorSessionRow),
           UNCHANGED <<device, membership>>,
           \A i \in 1..Len(sessions') : i \notin 1..Len(sessions) =>
                /\ HasRow(sessions'[i].user, TenantOf[sessions'[i].store])
                /\ device[sessions'[i].terminal].state # "none"
                /\ ClearUpTo(sessions[i].floor, sessions[i].terminal, sessions[i].store)',
           \A x \in ended' : x[1] \in 1..Len(sessions') /\ sessions'[x[1]].state = "revoked",
           \A x, y \in ended' : x[1] = y[1] => x[2] = y[2]
    PROVE  SessionsStand'
<1>1. \A n \in Nat, t \in Terminals, s \in Stores : ClearUpTo(n, t, s) => ClearUpTo(n, t, s)'
  BY SessionFactsStay DEF TillInvariant, TypeOK
<1>2. ASSUME NEW i \in 1..Len(sessions')
      PROVE  /\ HasRow(sessions[i].user, TenantOf[sessions[i].store])'
             /\ device'[sessions'[i].terminal].state # "none"
             /\ ClearUpTo(sessions[i].floor, sessions[i].terminal, sessions[i].store)'
  <2>1. CASE i \in 1..Len(sessions)
    <3>1. sessions[i] \in OperatorSessionRow
      BY <2>1, ElementOfSeq DEF TillInvariant, TypeOK
    <3>2. PICK u \in Users, t \in Terminals, s \in Stores, n \in Nat :
            u = sessions[i].user /\ t = sessions[i].terminal /\ s = sessions[i].store
            /\ n = sessions[i].floor
      BY <3>1 DEF OperatorSessionRow
    <3>3. HasRow(u, TenantOf[s]) /\ device[t].state # "none" /\ ClearUpTo(n, t, s)
      BY <2>1, <3>2 DEF TillInvariant, SessionsStand
    <3>4. /\ u = sessions'[i].user /\ t = sessions'[i].terminal /\ s = sessions'[i].store
          /\ n = sessions'[i].floor
      BY <2>1, <3>2 DEF SessionsGrow
    <3>5. ClearUpTo(n, t, s)'
      BY <1>1, <3>3
    <3> QED BY <3>3, <3>4, <3>5 DEF HasRow, ClearUpTo
  <2>2. CASE i \notin 1..Len(sessions)
    BY <2>2 DEF HasRow
  <2> QED BY <2>1, <2>2
<1> QED BY <1>2 DEF SessionsStand

\* A session that is revoked or expires keeps all but its state.
Ends(i) ==
    \/ sessions'[i] = sessions[i]
    \/ sessions'[i] = [sessions[i] EXCEPT !.state = "revoked"]
    \/ sessions[i].state = "live" /\ sessions'[i] = [sessions[i] EXCEPT !.state = "expired"]

\* Sessions that only end grow.
LEMMA SessionsInPlace ==
    ASSUME TillInvariant, sessions' = [i \in 1..Len(sessions) |-> sessions'[i]],
           \A i \in 1..Len(sessions) : Ends(i)
    PROVE  /\ sessions' \in Seq(OperatorSessionRow) /\ SessionsGrow
           /\ Len(sessions') = Len(sessions)
           /\ \A i \in 1..Len(sessions) :
                sessions'[i] = [sessions[i] EXCEPT !.state = "revoked"]
                  => sessions'[i].state = "revoked"
<1>1. Len(sessions) \in Nat /\ \A i \in 1..Len(sessions) : sessions[i] \in OperatorSessionRow
  BY LenProperties, ElementOfSeq DEF TillInvariant, TypeOK
<1>2. ASSUME NEW i \in 1..Len(sessions)
      PROVE  /\ sessions'[i] \in OperatorSessionRow
             /\ sessions'[i].user = sessions[i].user
             /\ sessions'[i].terminal = sessions[i].terminal
             /\ sessions'[i].store = sessions[i].store
             /\ sessions'[i].event = sessions[i].event
             /\ sessions'[i].floor = sessions[i].floor
             /\ sessions'[i].state = "live" => sessions[i].state = "live"
             /\ sessions[i].state = "revoked" => sessions'[i].state = "revoked"
             /\ sessions'[i] = [sessions[i] EXCEPT !.state = "revoked"]
                  => sessions'[i].state = "revoked"
  <2>1. sessions[i] \in OperatorSessionRow
    BY <1>1
  <2>2. Ends(i)
    OBVIOUS
  <2> QED BY <2>1, <2>2 DEF OperatorSessionRow, Ends
<1>3. sessions' \in [1..Len(sessions) -> OperatorSessionRow]
  BY <1>2
<1>4. sessions' \in Seq(OperatorSessionRow) /\ Len(sessions') = Len(sessions)
  BY <1>1, <1>3, SeqDef, LenProperties
<1>5. SessionsGrow
  BY <1>1, <1>2, <1>4 DEF SessionsGrow
<1> QED BY <1>2, <1>4, <1>5

\* A sign-out ends a session that nobody else was told to have ended.
LEMMA MarkSessionRevokedKeeps ==
    ASSUME IdentityInvariant, NEW c \in Clients, MarkSessionRevoked(c)
    PROVE  IdentityInvariant'
<1> USE DEF IdentityInvariant
<1> DEFINE i == req[c].session
<1>0. /\ Only(c) /\ req'[c].at \notin AccountsSteps /\ req'[c].at # "events"
      /\ TillShape(req[c])'
  BY FinishOnly DEF MarkSessionRevoked
<1>1. UNCHANGED <<pairing, accounts, key, replayed, uploads, sales>>
  BY DEF MarkSessionRevoked
<1>2. CASE UNCHANGED <<sessions, ended>>
  BY <1>0, <1>1, <1>2, MovesTill DEF operators
<1>3. CASE /\ Revocable(i) /\ sessions' = [sessions EXCEPT ![i].state = "revoked"]
           /\ ended' = ended \cup {<<i, c>>}
  <2>1. /\ i \in 1..Len(sessions) /\ Len(sessions) \in Nat
        /\ sessions = [j \in 1..Len(sessions) |-> sessions[j]]
    BY LenProperties, SeqDef DEF TillInvariant, TillShape, TypeOK, MarkSessionRevoked, At
  <2>2. /\ sessions' = [j \in 1..Len(sessions) |-> sessions'[j]]
        /\ \A j \in 1..Len(sessions) :
             sessions'[j] = IF j = i THEN [sessions[j] EXCEPT !.state = "revoked"]
                            ELSE sessions[j]
    BY <1>3, <2>1
  <2> HIDE DEF i
  <2>3. /\ sessions' \in Seq(OperatorSessionRow) /\ SessionsGrow
        /\ Len(sessions') = Len(sessions)
        /\ \A j \in 1..Len(sessions) :
             sessions'[j].state = IF j = i THEN "revoked" ELSE sessions[j].state
    BY <2>2, SessionsInPlace DEF Ends
  <2>4. \A x \in ended : x[1] \in 1..Len(sessions) /\ sessions[x[1]].state = "revoked"
    BY DEF TillInvariant, SessionsStand
  <2>5. \A x \in ended : x[1] # i
    BY <1>3, <2>4 DEF Revocable
  <2>6. /\ \A x \in ended' : x[1] \in 1..Len(sessions') /\ sessions'[x[1]].state = "revoked"
        /\ ended' \subseteq Nat \X Clients
    BY <1>3, <2>1, <2>3, <2>4 DEF TillInvariant, HistoryTypeOK
  <2>7. \A x, y \in ended' : x[1] = y[1] => x[2] = y[2]
    <3>1. \A x, y \in ended : x[1] = y[1] => x[2] = y[2]
      BY DEF TillInvariant, SessionsStand
    <3> QED BY <1>3, <2>5, <3>1
  <2>8. UNCHANGED device /\ UNCHANGED membership
    BY <1>1 DEF pairing, accounts, directory
  <2>9. SessionsStand'
    BY <2>3, <2>6, <2>7, <2>8, SessionsKeepPromises
  <2>10. KeysStand' /\ KeysGrow
    BY <1>1, <2>3, KeysKeepSessions
  <2>11. /\ key' \in [TakeoverEvents -> {None} \cup TakeoverKeyRow]
         /\ replayed' \subseteq TakeoverEvents \X Users \X Nat
    BY <1>1 DEF TillInvariant, TypeOK, HistoryTypeOK
  <2> QED BY <1>0, <1>1, <2>3, <2>6, <2>9, <2>10, <2>11, OperatorsWrite
<1> QED BY <1>2, <1>3 DEF MarkSessionRevoked

\* A session that expires was told ended by nobody.
LEMMA ExpireSessionKeeps ==
    ASSUME IdentityInvariant, NEW i \in 1..Len(sessions), ExpireSession(i)
    PROVE  IdentityInvariant'
<1> USE DEF IdentityInvariant
<1>1. /\ UNCHANGED <<pairing, accounts, key, replayed, ended, uploads, sales, req>>
      /\ sessions[i].state = "live"
  BY DEF ExpireSession
<1>2. /\ Len(sessions) \in Nat /\ sessions = [j \in 1..Len(sessions) |-> sessions[j]]
  BY LenProperties, SeqDef DEF TillInvariant, TypeOK
<1>3. /\ sessions' = [j \in 1..Len(sessions) |-> sessions'[j]]
      /\ \A j \in 1..Len(sessions) :
           sessions'[j] = IF j = i THEN [sessions[j] EXCEPT !.state = "expired"]
                          ELSE sessions[j]
  BY <1>2 DEF ExpireSession
<1>4. /\ sessions' \in Seq(OperatorSessionRow) /\ SessionsGrow
      /\ Len(sessions') = Len(sessions)
  BY <1>1, <1>3, SessionsInPlace DEF Ends
<1>5. /\ \A x \in ended : x[1] \in 1..Len(sessions) /\ sessions[x[1]].state = "revoked"
      /\ \A x, y \in ended : x[1] = y[1] => x[2] = y[2]
  BY DEF TillInvariant, SessionsStand
<1>6. \A x \in ended' : x[1] \in 1..Len(sessions') /\ sessions'[x[1]].state = "revoked"
  BY <1>1, <1>4, <1>5 DEF SessionsGrow
<1>7. UNCHANGED device /\ UNCHANGED membership
  BY <1>1 DEF pairing, accounts, directory
<1>8. SessionsStand'
  BY <1>1, <1>4, <1>5, <1>6, <1>7, SessionsKeepPromises
<1>9. KeysStand' /\ KeysGrow
  BY <1>1, <1>4, KeysKeepSessions
<1>10. /\ key' \in [TakeoverEvents -> {None} \cup TakeoverKeyRow]
       /\ replayed' \subseteq TakeoverEvents \X Users \X Nat /\ ended' \subseteq Nat \X Clients
  BY <1>1 DEF TillInvariant, TypeOK, HistoryTypeOK
<1> QED BY <1>1, <1>4, <1>8, <1>9, <1>10, OperatorsWrite

\* What the shape of a request says at a step of a sign-in or takeover.
LEMMA OperateFields ==
    ASSUME TillInvariant, NEW c \in Clients, req[c].at \in OperateSteps
    PROVE  /\ req[c] \in [at : OperateSteps, kind : {"sign_in", "takeover"}, user : Users,
                          terminal : Terminals, store : Stores,
                          event : TakeoverEvents \cup {None}, floor : Nat, session : Nat]
           /\ device[req[c].terminal].state # "none"
           /\ req[c].kind = "takeover" => req[c].event \in TakeoverEvents
           /\ req[c].at \in {"key", "revoke", "record"} => req[c].kind = "takeover"
           /\ req[c].at # "membership" => HasRow(req[c].user, TenantOf[req[c].store])
           /\ req[c].kind = "takeover" /\ req[c].at \in {"revoke", "issue", "record"} =>
                key[req[c].event] # None /\ key[req[c].event].operator = req[c].user
           /\ req[c].at \in {"membership", "check", "key", "revoke"} => req[c].floor = 0
           /\ ClearUpTo(req[c].floor, req[c].terminal, req[c].store)
           /\ req[c].at = "record" => IssuedBy(req[c].session, req[c].event, req[c].user)
BY DEF TillInvariant, TillShape, OperateShape

\* A takeover revokes every live session there, so below its floor none is
\* live, and is the only one told so.
LEMMA RevokeActiveOperatorSessionKeeps ==
    ASSUME IdentityInvariant, NEW c \in Clients, RevokeActiveOperatorSession(c)
    PROVE  IdentityInvariant'
<1> USE DEF IdentityInvariant
<1> DEFINE r == req[c]  S == Live(r.terminal, r.store)
<1>1. UNCHANGED <<pairing, accounts, key, replayed, uploads, sales>>
  BY DEF RevokeActiveOperatorSession
<1>2. CASE Finish(c) /\ UNCHANGED <<sessions, ended>>
  BY <1>1, <1>2, FinishOnly, MovesTill DEF operators
<1>3. CASE /\ sessions' = [i \in 1..Len(sessions) |->
                 IF i \in S THEN [sessions[i] EXCEPT !.state = "revoked"] ELSE sessions[i]]
           /\ ended' = ended \cup {<<i, c>> : i \in S}
           /\ req' = [req EXCEPT ![c].at = "issue", ![c].floor = Len(sessions)]
  <2>1. S \subseteq 1..Len(sessions) /\ \A i \in S : sessions[i].state = "live"
    BY DEF Live
  <2>2. Len(sessions) \in Nat
    BY LenProperties DEF TillInvariant, TypeOK
  <2>3. /\ sessions' \in Seq(OperatorSessionRow) /\ SessionsGrow
        /\ Len(sessions') = Len(sessions)
        /\ \A j \in 1..Len(sessions) :
             sessions'[j].state = IF j \in S THEN "revoked" ELSE sessions[j].state
    <3> HIDE DEF S
    <3>1. /\ sessions' = [j \in 1..Len(sessions) |-> sessions'[j]]
          /\ \A j \in 1..Len(sessions) :
               sessions'[j] = IF j \in S THEN [sessions[j] EXCEPT !.state = "revoked"]
                              ELSE sessions[j]
      BY <1>3
    <3> QED BY <3>1, SessionsInPlace DEF Ends
  <2>4. \A x \in ended : x[1] \in 1..Len(sessions) /\ sessions[x[1]].state = "revoked"
    BY DEF TillInvariant, SessionsStand
  <2>5. /\ \A x \in ended' : x[1] \in 1..Len(sessions') /\ sessions'[x[1]].state = "revoked"
        /\ ended' \subseteq Nat \X Clients
        /\ \A x, y \in ended' : x[1] = y[1] => x[2] = y[2]
    <3>1. \A x, y \in ended : x[1] = y[1] => x[2] = y[2]
      BY DEF TillInvariant, SessionsStand
    <3>2. \A x \in ended : x[1] \notin S
      BY <2>1, <2>4
    <3>3. ended \subseteq Nat \X Clients
      BY DEF TillInvariant, HistoryTypeOK
    <3> HIDE DEF S
    <3>4. \A x \in ended' : x \in ended \/ (x[1] \in S /\ x[2] = c /\ x \in Nat \X Clients)
      BY <1>3, <2>1, <2>2
    <3> QED BY <2>1, <2>2, <2>3, <2>4, <3>1, <3>2, <3>3, <3>4
  <2>6. UNCHANGED device /\ UNCHANGED membership
    BY <1>1 DEF pairing, accounts, directory
  <2>7. SessionsStand'
    BY <2>3, <2>5, <2>6, SessionsKeepPromises
  <2>8. KeysStand' /\ KeysGrow
    BY <1>1, <2>3, KeysKeepSessions
  <2>9. /\ key' \in [TakeoverEvents -> {None} \cup TakeoverKeyRow]
        /\ replayed' \subseteq TakeoverEvents \X Users \X Nat
    BY <1>1 DEF TillInvariant, TypeOK, HistoryTypeOK
  <2>10. r.at = "revoke" /\ r.at \in OperateSteps
    BY DEF RevokeActiveOperatorSession, At, OperateSteps
  <2>11. /\ Only(c) /\ req'[c] = [r EXCEPT !.at = "issue", !.floor = Len(sessions)]
    BY <1>3 DEF AccountsInvariant, Only
  <2>12. /\ r \in [at : OperateSteps, kind : {"sign_in", "takeover"}, user : Users,
                   terminal : Terminals, store : Stores,
                   event : TakeoverEvents \cup {None}, floor : Nat, session : Nat]
         /\ device[r.terminal].state # "none" /\ r.kind = "takeover"
         /\ r.event \in TakeoverEvents /\ HasRow(r.user, TenantOf[r.store])
         /\ key[r.event] # None /\ key[r.event].operator = r.user
    BY <2>10, OperateFields
  <2>13. /\ req'[c] \in [at : OperateSteps, kind : {"sign_in", "takeover"}, user : Users,
                   terminal : Terminals, store : Stores,
                   event : TakeoverEvents \cup {None}, floor : Nat, session : Nat]
         /\ req'[c].at = "issue" /\ req'[c].kind = "takeover" /\ req'[c].user = r.user
         /\ req'[c].terminal = r.terminal /\ req'[c].store = r.store
         /\ req'[c].event = r.event /\ req'[c].floor = Len(sessions)
    BY <2>2, <2>11, <2>12 DEF OperateSteps
  <2>14. ClearUpTo(req[c].floor, req[c].terminal, req[c].store)'
    <3>1. ASSUME NEW j \in 1..Len(sessions), sessions[j].terminal = r.terminal,
                 sessions[j].store = r.store
          PROVE  sessions'[j].state # "live"
      BY <2>3, <3>1 DEF Live
    <3>2. \A j \in 1..Len(sessions) : sessions'[j].terminal = sessions[j].terminal
                                      /\ sessions'[j].store = sessions[j].store
      BY <2>3 DEF SessionsGrow
    <3> HIDE DEF S
    <3> QED BY <2>2, <2>3, <2>13, <3>1, <3>2 DEF ClearUpTo
  <2>15. HasRow(req[c].user, TenantOf[req[c].store])'
    BY <2>6, <2>12, <2>13 DEF HasRow
  <2>16. OperateShape(req[c])' /\ req'[c].at \in OperateSteps
    <3> HIDE DEF r, S
    <3> QED BY <1>1, <2>6, <2>12, <2>13, <2>14, <2>15 DEF OperateShape, OperateSteps
  <2>17. TillShape(req[c])' /\ req'[c].at \notin AccountsSteps /\ req'[c].at # "events"
    BY <2>16, OperateOnly
  <2> QED BY <1>1, <2>3, <2>5, <2>7, <2>8, <2>9, <2>11, <2>17, OperatorsWrite
<1> QED BY <1>2, <1>3 DEF RevokeActiveOperatorSession, Superseded

\* A new session: a takeover's leaves none live below its floor.
LEMMA IssueOperatorSessionKeeps ==
    ASSUME IdentityInvariant, NEW c \in Clients, IssueOperatorSession(c)
    PROVE  IdentityInvariant'
<1> USE DEF IdentityInvariant
<1> DEFINE r == req[c]  row == NewSession(c)  n == Len(sessions)
<1>1. UNCHANGED <<pairing, accounts, key, replayed, ended, uploads, sales>>
  BY DEF IssueOperatorSession
<1>2. r.at = "issue" /\ r.at \in OperateSteps
  BY DEF IssueOperatorSession, At, OperateSteps
<1>3. /\ r \in [at : OperateSteps, kind : {"sign_in", "takeover"}, user : Users,
                terminal : Terminals, store : Stores,
                event : TakeoverEvents \cup {None}, floor : Nat, session : Nat]
      /\ device[r.terminal].state # "none"
      /\ r.kind = "takeover" => r.event \in TakeoverEvents
      /\ HasRow(r.user, TenantOf[r.store])
      /\ r.kind = "takeover" => key[r.event] # None /\ key[r.event].operator = r.user
      /\ ClearUpTo(r.floor, r.terminal, r.store)
  BY <1>2, OperateFields
<1>4. /\ row \in OperatorSessionRow /\ row.user = r.user /\ row.terminal = r.terminal
      /\ row.store = r.store /\ row.event = r.event /\ row.floor = r.floor
  BY <1>3 DEF NewSession, OperatorSessionRow
<1>5. /\ sessions \in Seq(OperatorSessionRow) /\ n \in Nat
      /\ \A i \in 1..n : sessions[i] \in OperatorSessionRow
  BY LenProperties, ElementOfSeq DEF TillInvariant, TypeOK
<1>6. sessions' = Append(sessions, row)
  BY DEF IssueOperatorSession
<1>7. /\ sessions' \in Seq(OperatorSessionRow) /\ Len(sessions') = n + 1
      /\ sessions'[n + 1] = row /\ \A i \in 1..n : sessions'[i] = sessions[i]
  <2> HIDE DEF row
  <2> QED BY <1>4, <1>5, <1>6, AppendProperties
<1>8. SessionsGrow
  BY <1>5, <1>7 DEF SessionsGrow
<1>9. UNCHANGED device /\ UNCHANGED membership
  BY <1>1 DEF pairing, accounts, directory
<1>10. PICK u \in Users, t \in Terminals, s \in Stores, f \in Nat, e \in TakeoverEvents \cup {None} :
         u = r.user /\ t = r.terminal /\ s = r.store /\ f = r.floor /\ e = r.event
  BY <1>3
<1>11. ClearUpTo(f, t, s)'
  BY <1>3, <1>5, <1>7, <1>8, <1>10, SessionFactsStay
<1>12. SessionsStand'
  <2>1. ASSUME NEW i \in 1..Len(sessions'), i \notin 1..Len(sessions)
        PROVE  /\ HasRow(sessions'[i].user, TenantOf[sessions'[i].store])
               /\ device[sessions'[i].terminal].state # "none"
               /\ ClearUpTo(sessions[i].floor, sessions[i].terminal, sessions[i].store)'
    <3>1. sessions'[i] = row
      BY <1>5, <1>7, <2>1
    <3>2. /\ sessions'[i].user = u /\ sessions'[i].terminal = t /\ sessions'[i].store = s
          /\ sessions'[i].floor = f
      BY <1>4, <1>10, <3>1
    <3> QED BY <1>3, <1>10, <1>11, <3>2 DEF ClearUpTo
  <2>2. /\ \A x \in ended : x[1] \in 1..n /\ sessions[x[1]].state = "revoked"
        /\ \A x, y \in ended : x[1] = y[1] => x[2] = y[2]
    BY DEF TillInvariant, SessionsStand
  <2>3. \A x \in ended' : x[1] \in 1..Len(sessions') /\ sessions'[x[1]].state = "revoked"
    BY <1>1, <1>5, <1>7, <2>2
  <2>4. \A x, y \in ended' : x[1] = y[1] => x[2] = y[2]
    BY <1>1, <2>2
  <2> HIDE DEF n, row, r
  <2> QED BY <1>7, <1>8, <1>9, <2>1, <2>3, <2>4, SessionsKeepPromises
<1>13. KeysStand' /\ KeysGrow
  BY <1>1, <1>7, <1>8, KeysKeepSessions
<1>14. /\ key' \in [TakeoverEvents -> {None} \cup TakeoverKeyRow]
       /\ replayed' \subseteq TakeoverEvents \X Users \X Nat /\ ended' \subseteq Nat \X Clients
  BY <1>1 DEF TillInvariant, TypeOK, HistoryTypeOK
<1>15. CASE Finish(c)
  <2>1. /\ Only(c) /\ req'[c].at \notin AccountsSteps /\ req'[c].at # "events"
        /\ TillShape(req[c])'
    BY <1>15, FinishOnly
  <2> QED BY <1>1, <1>7, <1>8, <1>12, <1>13, <1>14, <2>1, OperatorsWrite
<1>16. CASE r.kind # "sign_in" /\ req' = [req EXCEPT ![c].at = "record", ![c].session = n + 1]
  <2>1. PICK m \in Nat : m = n + 1
    BY <1>5
  <2>2. Only(c) /\ req'[c] = [r EXCEPT !.at = "record", !.session = m]
    BY <1>16, <2>1 DEF AccountsInvariant, Only
  <2>3. /\ req'[c] \in [at : OperateSteps, kind : {"sign_in", "takeover"}, user : Users,
                   terminal : Terminals, store : Stores,
                   event : TakeoverEvents \cup {None}, floor : Nat, session : Nat]
        /\ req'[c].at = "record" /\ req'[c].kind = "takeover" /\ req'[c].user = u
        /\ req'[c].terminal = t /\ req'[c].store = s
        /\ req'[c].event = e /\ req'[c].floor = f /\ req'[c].session = m
    <3>1. r.kind = "takeover"
      BY <1>3, <1>16
    <3> QED BY <1>3, <1>10, <2>2, <3>1 DEF OperateSteps
  <2>4. IssuedBy(req[c].session, req[c].event, req[c].user)'
    <3> HIDE DEF n, row, r
    <3> QED BY <1>4, <1>5, <1>7, <1>10, <2>1, <2>3 DEF IssuedBy, n
  <2>5. ClearUpTo(req[c].floor, req[c].terminal, req[c].store)'
    BY <1>11, <2>3 DEF ClearUpTo
  <2>6. HasRow(req[c].user, TenantOf[req[c].store])'
    BY <1>3, <1>9, <1>10, <2>3 DEF HasRow
  <2>7. /\ device'[t].state # "none" /\ e \in TakeoverEvents
        /\ key'[e] # None /\ key'[e].operator = u
    BY <1>1, <1>3, <1>9, <1>10, <1>16
  <2>8. OperateShape(req[c])' /\ req'[c].at \in OperateSteps
    <3> HIDE DEF n, row, r
    <3> QED BY <2>3, <2>4, <2>5, <2>6, <2>7 DEF OperateShape, OperateSteps
  <2>9. TillShape(req[c])' /\ req'[c].at \notin AccountsSteps /\ req'[c].at # "events"
    BY <2>8, OperateOnly
  <2> QED BY <1>1, <1>7, <1>8, <1>12, <1>13, <1>14, <2>2, <2>9, OperatorsWrite
<1> QED BY <1>15, <1>16 DEF IssueOperatorSession

\* The key records the session its own takeover issued.
LEMMA RecordTakeoverSessionKeeps ==
    ASSUME IdentityInvariant, NEW c \in Clients, RecordTakeoverSession(c)
    PROVE  IdentityInvariant'
<1> USE DEF IdentityInvariant
<1> DEFINE r == req[c]
<1>1. UNCHANGED <<pairing, accounts, sessions, replayed, ended, uploads, sales>>
  BY DEF RecordTakeoverSession
<1>2. r.at = "record" /\ r.at \in OperateSteps
  BY DEF RecordTakeoverSession, At, OperateSteps
<1>3. /\ r \in [at : OperateSteps, kind : {"sign_in", "takeover"}, user : Users,
                terminal : Terminals, store : Stores,
                event : TakeoverEvents \cup {None}, floor : Nat, session : Nat]
      /\ r.event \in TakeoverEvents
      /\ key[r.event] # None /\ key[r.event].operator = r.user
      /\ IssuedBy(r.session, r.event, r.user)
  BY <1>2, OperateFields
<1>4. PICK e \in TakeoverEvents, u \in Users, i \in Nat :
        e = r.event /\ u = r.user /\ i = r.session
  BY <1>3
<1>5. key \in [TakeoverEvents -> {None} \cup TakeoverKeyRow] /\ key[e] \in TakeoverKeyRow
  BY <1>3, <1>4 DEF TillInvariant, TypeOK
<1>6. PICK row \in TakeoverKeyRow :
        /\ row = [key[e] EXCEPT !.session = i]
        /\ row.operator = u /\ row.session = i
  <2> DEFINE row == [key[e] EXCEPT !.session = i]
  <2>1. row \in TakeoverKeyRow /\ row.operator = u /\ row.session = i
    BY <1>3, <1>4, <1>5 DEF TakeoverKeyRow
  <2> QED BY <2>1
<1>7. key' = [key EXCEPT ![e] = row]
  BY <1>4, <1>6 DEF RecordTakeoverSession
<1>8. /\ key' \in [TakeoverEvents -> {None} \cup TakeoverKeyRow]
      /\ \A d \in TakeoverEvents : key'[d] = IF d = e THEN row ELSE key[d]
  BY <1>5, <1>7
<1>9. KeysGrow
  BY <1>3, <1>4, <1>6, <1>8, KeyAssumption DEF KeysGrow
<1>10. Len(sessions) \in Nat /\ \A j \in 1..Len(sessions) : sessions[j] \in OperatorSessionRow
  BY LenProperties, ElementOfSeq DEF TillInvariant, TypeOK
<1>11. SessionsGrow
  BY <1>1, <1>10 DEF SessionsGrow
<1>12. SessionsStand'
  BY <1>1 DEF TillInvariant, SessionsStand, HasRow, ClearUpTo, pairing, accounts, directory
<1>13. KeysStand'
  <2>1. IssuedBy(i, e, u)
    BY <1>3, <1>4
  <2>2. ASSUME NEW d \in TakeoverEvents, key'[d] # None, key'[d].session # 0
        PROVE  IssuedBy(key[d].session, d, key[d].operator)'
    <3>1. CASE d = e
      <4>1. key'[d].session = i /\ key'[d].operator = u
        BY <1>6, <1>8, <3>1
      <4> QED BY <1>1, <2>1, <3>1, <4>1 DEF IssuedBy
    <3>2. CASE d # e
      <4>1. key'[d] = key[d]
        BY <1>8, <3>2
      <4>2. IssuedBy(key[d].session, d, key[d].operator)
        BY <2>2, <4>1 DEF TillInvariant, KeysStand
      <4> QED BY <1>1, <4>1, <4>2 DEF IssuedBy
    <3> QED BY <3>1, <3>2
  <2>3. \A x \in replayed' : IssuedBy(x[3], x[1], x[2])'
    BY <1>1 DEF TillInvariant, KeysStand, IssuedBy
  <2> QED BY <2>2, <2>3 DEF KeysStand
<1>14. /\ sessions' \in Seq(OperatorSessionRow) /\ ended' \subseteq Nat \X Clients
       /\ replayed' \subseteq TakeoverEvents \X Users \X Nat
  BY <1>1 DEF TillInvariant, TypeOK, HistoryTypeOK
<1>15. /\ Only(c) /\ req'[c].at \notin AccountsSteps /\ req'[c].at # "events"
       /\ TillShape(req[c])'
  BY FinishOnly DEF RecordTakeoverSession
<1> QED BY <1>1, <1>8, <1>9, <1>11, <1>12, <1>13, <1>14, <1>15, OperatorsWrite

\* A fresh key is the takeover's; one that answers names the session that this
\* event issued to this operator.
LEMMA UpsertTakeoverKeyKeeps ==
    ASSUME IdentityInvariant, NEW c \in Clients, UpsertTakeoverKey(c)
    PROVE  IdentityInvariant'
<1> USE DEF IdentityInvariant
<1>1. UNCHANGED <<pairing, accounts, sessions, ended, uploads, sales>>
  BY DEF UpsertTakeoverKey
<1>2. req[c].at = "key" /\ req[c].at \in OperateSteps
  BY DEF UpsertTakeoverKey, At, OperateSteps
<1>3. PICK e \in TakeoverEvents, u \in Users : e = req[c].event /\ u = req[c].user
  BY <1>2, OperateFields
<1>4. /\ req[c].kind = "takeover" /\ req[c].floor = 0
      /\ HasRow(req[c].user, TenantOf[req[c].store])
  BY <1>2, OperateFields
<1>5. /\ key \in [TakeoverEvents -> {None} \cup TakeoverKeyRow]
      /\ replayed \subseteq TakeoverEvents \X Users \X Nat
      /\ sessions \in Seq(OperatorSessionRow) /\ sessions' \in Seq(OperatorSessionRow)
      /\ ended' \subseteq Nat \X Clients
  BY <1>1 DEF TillInvariant, TypeOK, HistoryTypeOK
<1>6. Len(sessions) \in Nat /\ \A j \in 1..Len(sessions) : sessions[j] \in OperatorSessionRow
  BY <1>5, LenProperties, ElementOfSeq
<1>7. SessionsGrow
  BY <1>1, <1>6 DEF SessionsGrow
<1>8. SessionsStand'
  BY <1>1 DEF TillInvariant, SessionsStand, HasRow, ClearUpTo, pairing, accounts, directory
<1>9. DevicesGrow /\ MembershipGrows
  BY <1>1, PairingStays, NothingGrows DEF accounts, directory
<1>10. CASE /\ key[e] = None /\ key' = [key EXCEPT ![e] = [operator |-> u, session |-> 0]]
            /\ GoTo(c, "revoke") /\ UNCHANGED replayed
  <2>1. PICK row \in TakeoverKeyRow :
          row = [operator |-> u, session |-> 0] /\ row.operator = u /\ row.session = 0
    <3> DEFINE row == [operator |-> u, session |-> 0]
    <3>1. row \in TakeoverKeyRow /\ row.operator = u /\ row.session = 0
      BY DEF TakeoverKeyRow
    <3> QED BY <3>1
  <2>2. /\ key' \in [TakeoverEvents -> {None} \cup TakeoverKeyRow]
        /\ \A d \in TakeoverEvents : key'[d] = IF d = e THEN row ELSE key[d]
    BY <1>5, <1>10, <2>1
  <2>3. KeysGrow /\ key'[e] # None /\ key'[e].operator = u
    BY <1>10, <2>1, <2>2, KeyAssumption DEF KeysGrow
  <2>4. KeysStand'
    <3>1. ASSUME NEW d \in TakeoverEvents, key'[d] # None, key'[d].session # 0
          PROVE  IssuedBy(key[d].session, d, key[d].operator)'
      <4>1. key'[d] = key[d]
        BY <2>1, <2>2, <3>1
      <4>2. IssuedBy(key[d].session, d, key[d].operator)
        BY <3>1, <4>1 DEF TillInvariant, KeysStand
      <4> QED BY <1>1, <4>1, <4>2 DEF IssuedBy
    <3>2. \A x \in replayed' : IssuedBy(x[3], x[1], x[2])'
      BY <1>1, <1>10 DEF TillInvariant, KeysStand, IssuedBy
    <3> QED BY <3>1, <3>2 DEF KeysStand
  <2>5. TypeOK'
    BY <1>1, <2>2 DEF TillInvariant, TypeOK, pairing, uploads, accounts, directory, dashboard
  <2>6. Only(c) /\ OperateShape(req[c])' /\ req'[c].at \in OperateSteps
    BY <1>2, <1>3, <1>4, <1>7, <1>9, <1>10, <2>3, <2>5, OperateGoesOn DEF OperateSteps
  <2>7. TillShape(req[c])' /\ req'[c].at \notin AccountsSteps /\ req'[c].at # "events"
    BY <2>6, OperateOnly
  <2>8. replayed' \subseteq TakeoverEvents \X Users \X Nat
    BY <1>5, <1>10
  <2> QED BY <1>1, <1>5, <1>7, <1>8, <2>2, <2>3, <2>4, <2>6, <2>7, <2>8, OperatorsWrite
<1>11. CASE Finish(c) /\ UNCHANGED <<key, replayed>>
  BY <1>1, <1>11, FinishOnly, MovesTill DEF operators
<1>12. CASE /\ key[e] # None /\ key[e].operator = u /\ GoTo(c, "revoke")
            /\ UNCHANGED <<key, replayed>>
  <2>1. UNCHANGED <<pairing, accounts, operators, uploads, sales>>
    BY <1>1, <1>12 DEF operators
  <2>2. KeysGrow /\ TypeOK'
    BY <2>1, OperateReads
  <2>3. key'[e] # None /\ key'[e].operator = u
    BY <1>12
  <2>4. Only(c) /\ OperateShape(req[c])' /\ req'[c].at \in OperateSteps
    BY <1>2, <1>3, <1>4, <1>7, <1>9, <1>12, <2>2, <2>3, OperateGoesOn DEF OperateSteps
  <2> QED BY <2>1, <2>4, OperateOnly, MovesTill
<1>13. CASE /\ key[e] # None /\ key[e].operator = u /\ key[e].session # 0
            /\ replayed' \in {replayed, replayed \cup {<<e, u, key[e].session>>}}
            /\ Finish(c) /\ UNCHANGED key
  <2>1. key[e] \in TakeoverKeyRow
    BY <1>5, <1>13
  <2>2. PICK i \in Nat : i = key[e].session
    BY <2>1 DEF TakeoverKeyRow
  <2>3. IssuedBy(i, e, u)
    BY <1>13, <2>2 DEF TillInvariant, KeysStand
  <2>4. replayed' \subseteq TakeoverEvents \X Users \X Nat
    BY <1>5, <1>13, <2>2
  <2>5. KeysStand'
    <3>1. \A d \in TakeoverEvents : key'[d] # None /\ key'[d].session # 0 =>
            IssuedBy(key[d].session, d, key[d].operator)'
      BY <1>1, <1>13 DEF TillInvariant, KeysStand, IssuedBy
    <3>2. \A x \in replayed : IssuedBy(x[3], x[1], x[2])
      BY DEF TillInvariant, KeysStand
    <3>3. \A x \in replayed' : IssuedBy(x[3], x[1], x[2])
      BY <1>13, <2>2, <2>3, <3>2
    <3>4. \A x \in replayed' : IssuedBy(x[3], x[1], x[2])'
      BY <1>1, <3>3 DEF IssuedBy
    <3> QED BY <3>1, <3>4 DEF KeysStand
  <2>6. KeysGrow /\ key' \in [TakeoverEvents -> {None} \cup TakeoverKeyRow]
    BY <1>5, <1>13 DEF KeysGrow
  <2>7. /\ Only(c) /\ req'[c].at \notin AccountsSteps /\ req'[c].at # "events"
        /\ TillShape(req[c])'
    BY <1>13, FinishOnly
  <2> QED BY <1>1, <1>5, <1>7, <1>8, <2>4, <2>5, <2>6, <2>7, OperatorsWrite
<1> QED BY <1>3, <1>10, <1>11, <1>12, <1>13 DEF UpsertTakeoverKey, KeyConflict

-----------------------------------------------------------------------------
(* Audit events and shifts.                                                  *)

\* A step that writes uploaded events only.
LEMMA UploadsWrite ==
    ASSUME IdentityInvariant, UNCHANGED <<pairing, accounts, operators, sales>>,
           events' \subseteq AuditEvents, shifts' \subseteq AuditEvents,
           accepted' \in [AuditEvents -> Nat], events \subseteq events', AcceptedByOne',
           NEW c \in Clients, Only(c), req'[c].at \notin AccountsSteps, TillShape(req[c])',
           \A d \in Clients \ {c} : At(d, "events") =>
                \A a \in req[d].ok : accepted'[a] = accepted[a]
    PROVE  IdentityInvariant'
<1> USE DEF IdentityInvariant
<1>1. AccountsInvariant' /\ MembershipGrows
  BY NoAccountsShape, AccountsRequest
<1>2. TypeOK' /\ HistoryTypeOK'
  BY DEF TillInvariant, TypeOK, HistoryTypeOK, pairing, operators, accounts, directory,
         dashboard
<1>3. Paired' /\ DevicesGrow
  BY PairingStays
<1>4. SessionsStand' /\ KeysStand' /\ SessionsGrow /\ KeysGrow
  BY <1>1, <1>3, OperatorsStay
<1>5. NoSaleOnceBarred'
  BY DEF TillInvariant, NoSaleOnceBarred
<1> QED BY <1>1, <1>2, <1>3, <1>4, <1>5, TillStep

\* An event stored now was in no batch's answer: a batch lists what is stored.
LEMMA ProcessEventKeeps ==
    ASSUME IdentityInvariant, NEW c \in Clients, NEW a \in AuditEvents, ProcessEvent(c, a)
    PROVE  IdentityInvariant'
<1> USE DEF IdentityInvariant
<1> DEFINE r == req[c]
<1>1. UNCHANGED <<pairing, accounts, operators, accepted, sales>>
  BY DEF ProcessEvent
<1>2. /\ r \in [at : {"events"}, store : Stores, todo : SUBSET AuditEvents,
                ok : SUBSET AuditEvents]
      /\ r.ok \subseteq events /\ \A b \in r.ok : accepted[b] = 0
      /\ r.at = "events"
  BY DEF ProcessEvent, At, TillInvariant, TillShape, UploadShape
<1>3. /\ events \subseteq AuditEvents /\ shifts \subseteq AuditEvents
      /\ accepted \in [AuditEvents -> Nat]
  BY DEF TillInvariant, TypeOK, HistoryTypeOK
<1>4. PICK ok \in SUBSET AuditEvents :
        /\ req' = [req EXCEPT ![c].todo = @ \ {a}, ![c].ok = ok]
        /\ \/ ok = r.ok /\ UNCHANGED <<events, shifts>>
           \/ /\ ok = r.ok \cup {a} /\ a \notin events /\ InsertEvent(a)
  <2> DEFINE no == \/ \/ ~EventAcceptable(c, a)
                      \/ FreshEvent(a) /\ InsertsShift(a) /\ ~DeviceKnown(a)
                   \/ ~FreshEvent(a)
  <2>1. CASE no
    BY <1>2, <2>1 DEF ProcessEvent
  <2>2. CASE ~no
    BY <1>2, <2>2 DEF ProcessEvent, FreshEvent
  <2> QED BY <2>1, <2>2
<1>5. /\ Only(c) /\ req'[c] = [r EXCEPT !.todo = @ \ {a}, !.ok = ok]
  BY <1>4 DEF AccountsInvariant, Only
<1>6. /\ req'[c] \in [at : {"events"}, store : Stores, todo : SUBSET AuditEvents,
                      ok : SUBSET AuditEvents]
      /\ req'[c].at = "events" /\ req'[c].ok = ok
  BY <1>2, <1>5
<1>7. AcceptedByOne
  BY DEF TillInvariant
<1>8. /\ events' \subseteq AuditEvents /\ shifts' \subseteq AuditEvents
      /\ events \subseteq events' /\ ok \subseteq events'
      /\ ShiftsStand'
  <2>1. ShiftsStand
    BY <1>7 DEF AcceptedByOne
  <2>2. CASE UNCHANGED <<events, shifts>> /\ ok = r.ok
    BY <1>2, <1>3, <2>1, <2>2 DEF ShiftsStand
  <2>3. CASE ok = r.ok \cup {a} /\ InsertEvent(a)
    <3>1. events' = events \cup {a}
      BY <2>3 DEF InsertEvent
    <3>2. CASE InsertsShift(a)
      <4>1. shifts' = shifts \cup {a} /\ OpensShift(a) /\ \A b \in shifts : b.shift # a.shift
        BY <2>3, <3>2 DEF InsertEvent, InsertsShift
      <4> QED BY <1>2, <1>3, <2>1, <2>3, <3>1, <4>1 DEF ShiftsStand
    <3>3. CASE ~InsertsShift(a)
      <4>1. /\ shifts' = shifts
            /\ OpensShift(a) => \E b \in shifts : b.shift = a.shift
        BY <2>3, <3>3 DEF InsertEvent, InsertsShift
      <4> QED BY <1>2, <1>3, <2>1, <2>3, <3>1, <4>1 DEF ShiftsStand
    <3> QED BY <3>2, <3>3
  <2> QED BY <1>4, <2>2, <2>3
<1>9. \A b \in ok : accepted'[b] = 0
  <2>1. a \notin events => accepted[a] = 0
    BY <1>7 DEF AcceptedByOne
  <2> QED BY <1>1, <1>2, <1>4, <2>1
<1>10. TillShape(req[c])'
  BY <1>6, <1>8, <1>9 DEF TillShape, PairShape, OperateShape, SellShape, UploadShape,
                          PairSteps, OperateSteps
<1>11. req'[c].at \notin AccountsSteps
  BY <1>6 DEF AccountsSteps, TokenSteps, WriteSteps
<1>12. AcceptedByOne'
  <2>1. ASSUME NEW d \in Clients, d # c, req[d].at = "events"
        PROVE  req[d].ok \cap ok = {}
    <3>1. req[d].ok \cap r.ok = {} /\ req[d].ok \subseteq events
      BY <1>2, <1>7, <2>1 DEF AcceptedByOne, At, TillInvariant, TillShape, UploadShape
    <3> QED BY <1>4, <3>1
  <2>2. \A d \in Clients : d # c => req'[d] = req[d]
    BY <1>5 DEF Only
  <2>3. \A d, e \in Clients :
          d # e /\ At(d, "events")' /\ At(e, "events")' => req'[d].ok \cap req'[e].ok = {}
    <3> SUFFICES ASSUME NEW d \in Clients, NEW e \in Clients, d # e,
                        req'[d].at = "events", req'[e].at = "events"
        PROVE  req'[d].ok \cap req'[e].ok = {}
      BY DEF At
    <3>1. CASE d = c
      BY <1>6, <2>1, <2>2, <3>1
    <3>2. CASE e = c
      BY <1>6, <2>1, <2>2, <3>2
    <3>3. CASE d # c /\ e # c
      BY <1>7, <2>2, <3>3 DEF AcceptedByOne, At
    <3> QED BY <3>1, <3>2, <3>3
  <2>4. \A b \in AuditEvents : accepted'[b] # 0 => accepted'[b] = 1 /\ b \in events'
    BY <1>1, <1>7, <1>8 DEF AcceptedByOne
  <2> QED BY <1>8, <2>3, <2>4 DEF AcceptedByOne
<1>13. \A d \in Clients \ {c} : At(d, "events") => \A b \in req[d].ok : accepted'[b] = accepted[b]
  BY <1>1
<1>14. accepted' \in [AuditEvents -> Nat]
  BY <1>1, <1>3
<1> QED BY <1>1, <1>5, <1>8, <1>10, <1>11, <1>12, <1>13, <1>14, UploadsWrite

\* What the answer lists was not answered before and is in no other batch.
LEMMA AnswerBatchKeeps ==
    ASSUME IdentityInvariant, NEW c \in Clients, AnswerBatch(c)
    PROVE  IdentityInvariant'
<1> USE DEF IdentityInvariant
<1> DEFINE ok == req[c].ok
<1>1. UNCHANGED <<pairing, accounts, operators, events, shifts, sales>>
  BY DEF AnswerBatch
<1>2. /\ ok \subseteq AuditEvents /\ ok \subseteq events /\ \A b \in ok : accepted[b] = 0
      /\ req[c].at = "events"
  BY DEF AnswerBatch, At, TillInvariant, TillShape, UploadShape
<1>3. /\ Only(c) /\ req'[c].at \notin AccountsSteps /\ req'[c].at # "events"
      /\ TillShape(req[c])'
  BY FinishOnly DEF AnswerBatch
<1>4. /\ events' \subseteq AuditEvents /\ shifts' \subseteq AuditEvents
      /\ events \subseteq events' /\ accepted \in [AuditEvents -> Nat]
  BY <1>1 DEF TillInvariant, TypeOK, HistoryTypeOK
<1>5. AcceptedByOne
  BY DEF TillInvariant
<1>6. \A b \in AuditEvents : accepted'[b] = IF b \in ok THEN accepted[b] + 1 ELSE accepted[b]
  BY DEF AnswerBatch
<1> HIDE DEF ok
<1>7. \A b \in AuditEvents : accepted'[b] \in Nat
  BY <1>4, <1>6
<1>8. accepted' \in [AuditEvents -> Nat]
  BY <1>7 DEF AnswerBatch
<1>9. AcceptedByOne'
  <2>1. \A d \in Clients : d # c => req'[d] = req[d]
    BY <1>3 DEF Only
  <2>2. \A d, e \in Clients :
          d # e /\ At(d, "events")' /\ At(e, "events")' => req'[d].ok \cap req'[e].ok = {}
    BY <1>3, <1>5, <2>1 DEF AcceptedByOne, At
  <2>3. ASSUME NEW b \in AuditEvents, accepted'[b] # 0
        PROVE  accepted'[b] = 1 /\ b \in events'
    <3>1. CASE b \in ok
      BY <1>1, <1>2, <1>6, <3>1
    <3>2. CASE b \notin ok
      BY <1>1, <1>5, <1>6, <2>3, <3>2 DEF AcceptedByOne
    <3> QED BY <3>1, <3>2
  <2> QED BY <1>1, <1>5, <2>2, <2>3 DEF AcceptedByOne, ShiftsStand
<1>10. ASSUME NEW d \in Clients \ {c}, At(d, "events"), NEW b \in req[d].ok
       PROVE  accepted'[b] = accepted[b]
  <2>1. b \in AuditEvents
    BY <1>10 DEF At, TillInvariant, TillShape, UploadShape
  <2>2. b \notin ok
    BY <1>2, <1>5, <1>10 DEF AcceptedByOne, At, ok
  <2> QED BY <1>6, <2>1, <2>2
<1> QED BY <1>1, <1>3, <1>4, <1>8, <1>9, <1>10, UploadsWrite

-----------------------------------------------------------------------------
(* The invariant.                                                            *)

\* Nobody has asked for anything yet.
LEMMA IdleShapes ==
    ASSUME NEW c \in Clients, req[c].at = "idle"
    PROVE  AccountsShape(req[c]) /\ TillShape(req[c])
BY DEF AccountsShape, TokenShape, ContextShape, WriteShape, TokenSteps, WriteSteps, TillShape,
       PairShape, OperateShape, SellShape, UploadShape, PairSteps, OperateSteps

\* The dashboard starts with the rows of its mix.
LEMMA AccountsInitKeeps ==
    ASSUME AccountsInit
    PROVE  AccountsInvariant
<1>1. /\ mix.members \in [Users -> [Tenants -> MembershipRow]]
      /\ mix.logins \in Seq(LoginRow)
      /\ \A i \in 1..Len(mix.logins) :
           /\ mix.logins[i].store # None =>
                TenantOf[mix.logins[i].store] = mix.logins[i].tenant
           /\ mix.logins[i].tenant # None =>
                \/ mix.logins[i].user \in Admins
                \/ mix.members[mix.logins[i].user][mix.logins[i].tenant].state # "none"
  BY RowsAssumption DEF AccountsInit
<1>2. /\ membership = mix.members /\ logins = mix.logins /\ invitations = <<>> /\ tokens = <<>>
      /\ verified = {} /\ writes = {} /\ req = [c \in Clients |-> Idle]
  BY DEF AccountsInit
<1>3. invitations \in Seq(InvitationRow) /\ tokens \in Seq(TokenRow) /\ Len(invitations) = 0
  BY <1>2, EmptySeq
<1>4. AccountsTypeOK
  <2>1. /\ tenant \in [Tenants -> {"none", "active", "suspended", "deleted"}]
        /\ store \in [Stores -> {"none", "active", "inactive", "deleted"}]
    BY DEF AccountsInit
  <2> QED BY <1>1, <1>2, <1>3, <2>1 DEF AccountsTypeOK
<1>5. ContextOfMember
  BY <1>1, <1>2 DEF ContextOfMember, Known, HasRow
<1>6. AcceptedMadeRow /\ BarredNeverWrites
  BY <1>2, <1>3 DEF AcceptedMadeRow, BarredNeverWrites
<1>7. \A c \in Clients : AccountsShape(req[c])
  BY <1>2, IdleShapes DEF Idle
<1>8. req = [c \in Clients |-> req[c]]
  BY <1>2
<1> QED BY <1>4, <1>5, <1>6, <1>7, <1>8 DEF AccountsInvariant

\* Terminals paired at the start were paired by the codes they name.
LEMMA InitPaired ==
    ASSUME Init
    PROVE  /\ code \in [Codes -> PairingCodeRow] /\ device \in [Terminals -> DeviceRow]
           /\ Paired
<1>1. PICK by \in [Terminals -> Codes \cup {None}] :
        /\ \A t \in Terminals : by[t] # None => CodeTerminal[by[t]] = t
        /\ code = [k \in Codes |->
              [status |-> IF \E t \in Terminals : by[t] = k THEN "used" ELSE "none",
               expired |-> FALSE, attempts |-> 0]]
        /\ device = [t \in Terminals |->
              IF by[t] = None THEN [state |-> "none", store |-> None, token |-> None]
              ELSE [state |-> "live", store |-> CodeStore[by[t]], token |-> <<None, by[t]>>]]
  <2>1. CASE "paired" \in mix.does
    BY ZenonT(40), <2>1 DEF Init
  <2>2. CASE "paired" \notin mix.does
    <3>1. PICK by \in {[t \in Terminals |-> None]} :
            /\ code = [k \in Codes |->
                 [status |-> IF \E t \in Terminals : by[t] = k THEN "used" ELSE "none",
                  expired |-> FALSE, attempts |-> 0]]
            /\ device = [t \in Terminals |->
                 IF by[t] = None THEN [state |-> "none", store |-> None, token |-> None]
                 ELSE [state |-> "live", store |-> CodeStore[by[t]], token |-> <<None, by[t]>>]]
      BY <2>2 DEF Init
    <3>2. by \in [Terminals -> Codes \cup {None}] /\ \A t \in Terminals : by[t] = None
      BY <3>1
    <3> QED BY <3>1, <3>2
  <2> QED BY <2>1, <2>2
<1>2. /\ handed = {} /\ tried = [k \in Codes |-> 0]
  BY DEF Init
<1>3. ASSUME NEW k \in Codes
      PROVE  /\ code[k] \in PairingCodeRow /\ code[k].attempts = 0
             /\ code[k].status = "used" <=> \E t \in Terminals : by[t] = k
  <2>1. code[k] = [status |-> IF \E t \in Terminals : by[t] = k THEN "used" ELSE "none",
                   expired |-> FALSE, attempts |-> 0]
    BY <1>1
  <2> QED BY <2>1 DEF PairingCodeRow
<1>4. ASSUME NEW t \in Terminals
      PROVE  /\ device[t] \in DeviceRow
             /\ device[t].state # "none" <=> by[t] # None
             /\ by[t] # None => /\ by[t] \in Codes /\ device[t].store = CodeStore[by[t]]
                                /\ device[t].token = <<None, by[t]>>
  <2>1. CASE by[t] = None
    BY <1>1, <2>1 DEF DeviceRow
  <2>2. CASE by[t] # None
    <3>1. by[t] \in Codes /\ CodeStore[by[t]] \in Stores
      BY <2>2, PosIdentityAssumption
    <3>2. device[t] = [state |-> "live", store |-> CodeStore[by[t]], token |-> <<None, by[t]>>]
      BY <1>1, <2>2
    <3>3. <<None, by[t]>> \in (Clients \cup {None}) \X Codes
      BY <3>1
    <3> QED BY <2>2, <3>1, <3>2, <3>3 DEF DeviceRow
  <2> QED BY <2>1, <2>2
<1>5. code \in [Codes -> PairingCodeRow]
  <2>1. code = [k \in Codes |-> code[k]]
    BY <1>1
  <2> QED BY <1>3, <2>1
<1>6. device \in [Terminals -> DeviceRow]
  <2>1. device = [t \in Terminals |-> device[t]]
    BY <1>1
  <2> QED BY <1>4, <2>1
<1>7. ASSUME NEW k \in Codes, code[k].status = "used"
      PROVE  /\ device[CodeTerminal[k]].state # "none"
             /\ device[CodeTerminal[k]].token[2] = k
  <2>1. PICK t \in Terminals : by[t] = k
    BY <1>3, <1>7
  <2>2. by[t] # None /\ CodeTerminal[k] = t
    BY <1>1, <2>1, PosIdentityAssumption
  <2>3. device[t].token = <<None, k>> /\ device[t].state # "none"
    BY <1>4, <2>1, <2>2
  <2> QED BY <2>2, <2>3
<1>8. ASSUME NEW t \in Terminals, device[t].state # "none"
      PROVE  /\ device[t].token \in (Clients \cup {None}) \X Codes
             /\ CodeTerminal[device[t].token[2]] = t
             /\ device[t].store = CodeStore[device[t].token[2]]
             /\ code[device[t].token[2]].status = "used"
  <2>1. /\ by[t] # None /\ by[t] \in Codes /\ device[t].store = CodeStore[by[t]]
        /\ device[t].token = <<None, by[t]>>
    BY <1>4, <1>8
  <2>2. device[t].token[2] = by[t]
    BY <2>1
  <2> QED BY <1>1, <1>3, <2>1, <2>2
<1>9. \A k \in Codes : tried[k] <= code[k].attempts /\ tried[k] <= MaxAttempts
  BY <1>2, <1>3, PosIdentityAssumption
<1> QED BY <1>2, <1>5, <1>6, <1>7, <1>8, <1>9 DEF Paired

\* IdentityInvariant holds at the start.
LEMMA InitKeeps ==
    ASSUME Init
    PROVE  IdentityInvariant
<1>1. AccountsInvariant
  BY AccountsInitKeeps DEF Init
<1>2. /\ code \in [Codes -> PairingCodeRow] /\ device \in [Terminals -> DeviceRow] /\ Paired
  BY InitPaired
<1>3. /\ handed = {} /\ tried = [k \in Codes |-> 0] /\ sessions = <<>>
      /\ key = [e \in TakeoverEvents |-> None] /\ replayed = {} /\ ended = {} /\ events = {}
      /\ shifts = {} /\ accepted = [a \in AuditEvents |-> 0] /\ sales = {}
      /\ req = [c \in Clients |-> Idle]
  BY DEF Init, AccountsInit
<1>4. sessions \in Seq(OperatorSessionRow) /\ Len(sessions) = 0
  BY <1>3, EmptySeq
<1>5. TypeOK
  BY <1>1, <1>2, <1>3, <1>4 DEF TypeOK, AccountsInvariant, AccountsTypeOK
<1>6. HistoryTypeOK
  BY <1>3 DEF HistoryTypeOK
<1>7. SessionsStand /\ KeysStand
  BY <1>3, <1>4 DEF SessionsStand, KeysStand
<1>8. AcceptedByOne /\ NoSaleOnceBarred
  BY <1>3 DEF AcceptedByOne, ShiftsStand, NoSaleOnceBarred, At, Idle
<1>9. \A c \in Clients : TillShape(req[c])
  BY <1>3, IdleShapes DEF Idle
<1> QED BY <1>1, <1>2, <1>5, <1>6, <1>7, <1>8, <1>9 DEF IdentityInvariant, TillInvariant

\* A step of client c at a till.
LEMMA TillClientKeeps ==
    ASSUME IdentityInvariant, NEW c \in Clients,
           Pair(c) \/ Operate(c) \/ Sell(c) \/ Upload(c)
    PROVE  IdentityInvariant'
<1>1. CASE Pair(c)
  BY <1>1, FindByCodeKeeps, RecordAttemptKeeps, FindPairedBranchKeeps, BurnAndProvisionKeeps
     DEF Pair
<1>2. CASE Operate(c)
  <2>1. ASSUME NEW u \in Users, NEW t \in Terminals, SignIn(c, u, t)
        PROVE  IdentityInvariant'
    BY <2>1, StartPipelineKeeps DEF SignIn
  <2>2. ASSUME NEW u \in Users, NEW t \in Terminals, NEW e \in TakeoverEvents,
               TakeoverConfirm(c, u, t, e)
        PROVE  IdentityInvariant'
    BY <2>2, StartPipelineKeeps DEF TakeoverConfirm
  <2>3. ASSUME NEW i \in 1..Len(sessions), ReadSessionToSignOut(c, i)
        PROVE  IdentityInvariant'
    BY <2>3, ReadSessionToSignOutKeeps
  <2> QED BY <1>2, <2>1, <2>2, <2>3, CheckMembershipKeeps, CheckActiveSessionKeeps,
             UpsertTakeoverKeyKeeps, RevokeActiveOperatorSessionKeeps,
             IssueOperatorSessionKeeps, RecordTakeoverSessionKeeps, MarkSessionRevokedKeeps
          DEF Operate
<1>3. CASE Sell(c)
  BY <1>3, FindActiveByRawTokenKeeps, ReverifyDeviceKeeps, AdmitSaleKeeps DEF Sell
<1>4. CASE Upload(c)
  BY <1>4, SyncBatchKeeps, ProcessEventKeeps, AnswerBatchKeeps DEF Upload
<1> QED BY <1>1, <1>2, <1>3, <1>4

\* Every step keeps IdentityInvariant.
LEMMA NextKeeps ==
    ASSUME IdentityInvariant, [Next]_vars
    PROVE  IdentityInvariant'
<1>1. CASE AccountsNext /\ UNCHANGED pos
  <2>1. AccountsInvariant' /\ MembershipGrows /\ NoTill
    BY <1>1, AccountsNextKeeps DEF IdentityInvariant
  <2>2. TillInvariant'
    BY <1>1, <2>1, TillsUndisturbed DEF IdentityInvariant, AccountsInvariant
  <2> QED BY <2>1, <2>2 DEF IdentityInvariant
<1>2. ASSUME NEW c \in Clients, Pair(c) \/ Operate(c) \/ Sell(c) \/ Upload(c)
      PROVE  IdentityInvariant'
  BY <1>2, TillClientKeeps
<1>3. ASSUME NEW k \in Codes, SeedCode(k) \/ ExpireCode(k) PROVE IdentityInvariant'
  BY <1>3, SeedOrExpireKeeps
<1>4. ASSUME NEW t \in Terminals, RevokeDevice(t) PROVE IdentityInvariant'
  BY <1>4, RevokeDeviceKeeps
<1>5. ASSUME NEW i \in 1..Len(sessions), ExpireSession(i) PROVE IdentityInvariant'
  BY <1>5, ExpireSessionKeeps
<1>6. CASE UNCHANGED vars
  <2>1. UNCHANGED accounts /\ UNCHANGED pos /\ UNCHANGED req
    BY <1>6 DEF vars
  <2>2. AccountsInvariant' /\ MembershipGrows
    BY <2>1, AccountsUntouched DEF IdentityInvariant
  <2>3. TillInvariant'
    BY <2>1, <2>2, TillsUndisturbed DEF IdentityInvariant, AccountsInvariant, NoTill
  <2> QED BY <2>2, <2>3 DEF IdentityInvariant
<1> QED BY <1>1, <1>2, <1>3, <1>4, <1>5, <1>6 DEF Next

\* IdentityInvariant is an invariant of the specification: no interleaving of
\* dashboard and till, no expiry and no request that dies half way leads out.
THEOREM IdentityInvariantHolds == Spec => []IdentityInvariant
<1>1. Init => IdentityInvariant
  BY InitKeeps
<1>2. IdentityInvariant /\ [Next]_vars => IdentityInvariant'
  BY NextKeeps
<1> QED BY <1>1, <1>2, PTL DEF Spec

-----------------------------------------------------------------------------
(* The properties.                                                           *)

\* A used code, its device and the token handed out stand for each other, and
\* overlapping redemptions never exceed the limit: burnAndProvision is all or
\* nothing and recordAttempt counts in the database.
THEOREM BurnedIffProvisionedHolds == Spec => []BurnedIffProvisioned
<1>1. IdentityInvariant => BurnedIffProvisioned
  <2> SUFFICES ASSUME IdentityInvariant PROVE BurnedIffProvisioned
    OBVIOUS
  <2>1. TypeOK /\ Paired
    BY DEF IdentityInvariant, TillInvariant
  <2>2. ASSUME NEW k \in Codes, code[k].status = "used"
        PROVE  /\ device[CodeTerminal[k]].state # "none"
               /\ device[CodeTerminal[k]].token[2] = k
               /\ device[CodeTerminal[k]].store = CodeStore[k]
    <3>1. CodeTerminal[k] \in Terminals
      BY PosIdentityAssumption
    <3> QED BY <2>1, <2>2, <3>1 DEF Paired
  <2> QED BY <2>1, <2>2 DEF BurnedIffProvisioned, Paired
<1> QED BY <1>1, IdentityInvariantHolds, PTL

\* Two sessions are live at one terminal only when the later one's request looked
\* there before the earlier was issued; one party is told it ended a session, and
\* a replay answers with the session its own event issued.
THEOREM TwoSessionsOnlyByRaceHolds == Spec => []TwoSessionsOnlyByRace
<1>1. IdentityInvariant => TwoSessionsOnlyByRace
  <2> SUFFICES ASSUME IdentityInvariant PROVE TwoSessionsOnlyByRace
    OBVIOUS
  <2>1. /\ SessionsStand /\ KeysStand
        /\ sessions \in Seq(OperatorSessionRow) /\ Len(sessions) \in Nat
    BY LenProperties DEF IdentityInvariant, TillInvariant, TypeOK
  <2>2. ASSUME NEW i \in 1..Len(sessions), NEW j \in 1..Len(sessions),
               sessions[i].state = "live", sessions[i].terminal = sessions[j].terminal,
               sessions[i].store = sessions[j].store
        PROVE  sessions[j].floor < i
    <3>1. sessions[j] \in OperatorSessionRow
      BY <2>1, ElementOfSeq
    <3>2. sessions[j].floor \in Nat
      BY <3>1 DEF OperatorSessionRow
    <3>3. ClearUpTo(sessions[j].floor, sessions[j].terminal, sessions[j].store)
      BY <2>1 DEF SessionsStand
    <3>4. i \notin 1..sessions[j].floor
      BY <2>2, <3>3 DEF ClearUpTo
    <3> QED BY <2>1, <3>2, <3>4
  <2>3. \A r \in replayed : sessions[r[3]].event = r[1] /\ sessions[r[3]].user = r[2]
    BY <2>1 DEF KeysStand, IssuedBy
  <2>4. \A x, y \in ended : x[1] = y[1] => x[2] = y[2]
    BY <2>1 DEF SessionsStand
  <2> QED BY <2>2, <2>3, <2>4 DEF TwoSessionsOnlyByRace
<1> QED BY <1>1, IdentityInvariantHolds, PTL

\* A sale is never let in for an operator barred from its first read on: the
\* guard reads device and membership again.
THEOREM NoSaleOnceBarredHolds == Spec => []NoSaleOnceBarred
<1>1. IdentityInvariant => NoSaleOnceBarred
  BY DEF IdentityInvariant, TillInvariant
<1> QED BY <1>1, IdentityInvariantHolds, PTL

\* Every shift.open event stored has its shift, one row for each, and an event is
\* answered as accepted at most once: one transaction, ON CONFLICT DO NOTHING.
THEOREM ShiftIffOpenedHolds == Spec => []ShiftIffOpened
<1>1. IdentityInvariant => ShiftIffOpened
  <2> SUFFICES ASSUME IdentityInvariant PROVE ShiftIffOpened
    OBVIOUS
  <2>1. AcceptedByOne /\ accepted \in [AuditEvents -> Nat]
    BY DEF IdentityInvariant, TillInvariant, HistoryTypeOK
  <2>2. \A a \in AuditEvents : accepted[a] <= 1
    BY <2>1 DEF AcceptedByOne
  <2> QED BY <2>1, <2>2 DEF ShiftIffOpened, AcceptedByOne
<1> QED BY <1>1, IdentityInvariantHolds, PTL

\* A session's active store is one of its active tenant, however its switches
\* overlap.
THEOREM StoreOfActiveTenantHolds == Spec => []StoreOfActiveTenant
<1>1. IdentityInvariant => StoreOfActiveTenant
  BY DEF IdentityInvariant, AccountsInvariant, ContextOfMember, StoreOfActiveTenant
<1> QED BY <1>1, IdentityInvariantHolds, PTL

\* An invitation makes one membership exactly when it is accepted, and nobody
\* becomes a member by two.
THEOREM InvitationSpentOnceHolds == Spec => []InvitationSpentOnce
<1>1. IdentityInvariant => InvitationSpentOnce
  <2> SUFFICES ASSUME IdentityInvariant PROVE InvitationSpentOnce
    OBVIOUS
  <2>1. AcceptedMadeRow
    BY DEF IdentityInvariant, AccountsInvariant
  <2>2. \A n \in 1..Len(invitations) : invitations[n].made > 0 => invitations[n].status = "accepted"
    BY <2>1 DEF AcceptedMadeRow
  <2> QED BY <2>1, <2>2 DEF InvitationSpentOnce, AcceptedMadeRow
<1> QED BY <1>1, IdentityInvariantHolds, PTL

\* No dashboard write is made for a user barred from the request's first read
\* on: the guards read the membership again.
THEOREM BarredNeverWritesHolds == Spec => []BarredNeverWrites
<1>1. IdentityInvariant => BarredNeverWrites
  BY DEF IdentityInvariant, AccountsInvariant
<1> QED BY <1>1, IdentityInvariantHolds, PTL
=============================================================================
