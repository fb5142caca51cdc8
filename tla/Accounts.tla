------------------------------- MODULE Accounts -------------------------------
(***************************************************************************)
(* Accounts, tenants and who may act for whom: dashboard sessions and       *)
(* password resets (AuthService), the active tenant and store of a session  *)
(* (ContextService), the guards of a dashboard request (TenantContextGuard, *)
(* RolesGuard), invitations and memberships (InvitationsService,            *)
(* MembershipsService), tenants and stores (TenantsService, StoresService). *)
(*                                                                         *)
(* A step is one statement or one short transaction.  Between two steps of  *)
(* a request any other request may run, and a request may die.  Time is     *)
(* three actions that expire a session, a token or an invitation.  A wrong  *)
(* password, an unknown address and a refused request change nothing.       *)
(***************************************************************************)
EXTENDS Naturals, Sequences

CONSTANTS
    Clients,          \* requests in flight
    Users,
    Admins,           \* users with is_platform_admin
    Tenants,
    Stores,
    TenantOf,         \* [Stores -> Tenants]
    Changes,          \* bodies of PATCH /memberships: [role, kind, stores],
                      \* None for a field that is left out
    Offers,           \* what an invitation may offer: [role, kind, stores]
    Mixes,            \* bound: the activities of a behaviour [does], its
                      \* memberships [members] and dashboard sessions [logins]
                      \* at the start, and how many sessions [sessions] and
                      \* other rows [rows] there may be
    None              \* NULL

ASSUME AccountsAssumption ==
    /\ Admins \subseteq Users
    /\ TenantOf \in [Stores -> Tenants]
    /\ None \notin Tenants \cup Stores \cup Users

VARIABLES
    tenant,        \* [Tenants -> state of its row]
    store,         \* [Stores -> state of its row]
    membership,    \* [Users -> [Tenants -> row of memberships and store_access]]
    invitations,   \* rows of invitations, in order of creation
    logins,        \* rows of sessions (the dashboard's), in order of sign-in
    verified,      \* users with email_verified_at
    tokens,        \* password_reset and email_verify rows of auth_tokens
    writes,        \* dashboard writes: TRUE if the writer was barred throughout
    req,           \* [Clients -> request]
    mix            \* the activities of this behaviour

directory == <<tenant, store, membership, invitations>>
dashboard == <<logins, verified, tokens, writes>>
accounts == <<directory, dashboard>>

-----------------------------------------------------------------------------
(* Rows.                                                                     *)

Roles == {"owner", "tenant_admin", "store_manager", "store_staff"}

\* A membership; "none" is no row.  stores are its store_access rows and edits
\* counts its updates, as updated_at tells them apart.
MembershipRow ==
    [state : {"none", "active", "revoked"}, role : Roles,
     kind : {"all", "specific"}, stores : SUBSET Stores, edits : Nat]

\* made is history: memberships this invitation created.
InvitationRow ==
    [user : Users, tenant : Tenants, status : {"pending", "accepted", "expired"},
     late : BOOLEAN, offer : Offers, made : Nat]

LoginRow ==
    [user : Users, state : {"live", "revoked", "expired"},
     tenant : Tenants \cup {None}, store : Stores \cup {None}]

TokenRow ==
    [user : Users, scope : {"password_reset", "email_verify"},
     state : {"live", "revoked", "expired"}]

\* A behaviour starts with rows the schema admits, bodies are what the request
\* schemas let through, and a session's active tenant and store at the start
\* are such as its earlier switches could have left them.
ASSUME RowsAssumption ==
    /\ Changes \subseteq [role : Roles \cup {None}, kind : {"all", "specific", None},
                          stores : (SUBSET Stores) \cup {None}]
    /\ Offers \subseteq [role : Roles, kind : {"all", "specific"}, stores : SUBSET Stores]
    /\ \A m \in Mixes :
         /\ m.members \in [Users -> [Tenants -> MembershipRow]]
         /\ m.logins \in Seq(LoginRow)
         /\ \A i \in 1..Len(m.logins) :
              /\ m.logins[i].store # None => TenantOf[m.logins[i].store] = m.logins[i].tenant
              /\ m.logins[i].tenant # None =>
                   \/ m.logins[i].user \in Admins
                   \/ m.members[m.logins[i].user][m.logins[i].tenant].state # "none"

Idle == [at |-> "idle"]

AccountsInit ==
    /\ mix \in Mixes
    /\ tenant = [g \in Tenants |-> IF "platform" \in mix.does THEN "none" ELSE "active"]
    /\ store = [s \in Stores |-> IF "platform" \in mix.does THEN "none" ELSE "active"]
    /\ membership = mix.members
    /\ invitations = <<>>
    /\ logins = mix.logins
    /\ verified = {}
    /\ tokens = <<>>
    /\ writes = {}
    /\ req = [c \in Clients |-> Idle]

At(c, step) == req[c].at = step
Begin(c, r) == At(c, "idle") /\ req' = [req EXCEPT ![c] = r]
Finish(c) == req' = [req EXCEPT ![c] = Idle]
GoTo(c, step) == req' = [req EXCEPT ![c].at = step]

-----------------------------------------------------------------------------
(* Dashboard sessions.                                                       *)

\* signIn reads the stored hash and verifies the password against it ...
VerifyPassword(c, u) ==
    /\ Begin(c, [at |-> "login", user |-> u])
    /\ UNCHANGED accounts

\* ... and creates the session.
CreateLogin(c) ==
    /\ At(c, "login") /\ Len(logins) < mix.sessions
    /\ logins' = Append(logins, [user |-> req[c].user, state |-> "live",
                                 tenant |-> None, store |-> None])
    /\ Finish(c)
    /\ UNCHANGED <<directory, verified, tokens, writes>>

\* signOut, and a job of the session-revoke worker.
SignOutLogin(i) ==
    /\ logins[i].state # "revoked"
    /\ logins' = [logins EXCEPT ![i].state = "revoked"]
    /\ UNCHANGED <<directory, verified, tokens, writes, req>>

ExpireLogin(i) ==
    /\ logins[i].state = "live"
    /\ logins' = [logins EXCEPT ![i].state = "expired"]
    /\ UNCHANGED <<directory, verified, tokens, writes, req>>

\* findActiveById: not revoked and not past its absolute expiry.
FindActiveLogin(i) == logins[i].state = "live"

-----------------------------------------------------------------------------
(* Mailed tokens.                                                            *)

\* requestPasswordReset and requestEmailVerification: the token is stored, then
\* mailed.  Earlier tokens stay valid.
IssueToken(u, scope) ==
    /\ Len(tokens) < mix.rows
    /\ tokens' = Append(tokens, [user |-> u, scope |-> scope, state |-> "live"])
    /\ UNCHANGED <<directory, logins, verified, writes, req>>

ExpireToken(i) ==
    /\ tokens[i].state = "live"
    /\ tokens' = [tokens EXCEPT ![i].state = "expired"]
    /\ UNCHANGED <<directory, logins, verified, writes, req>>

\* confirmPasswordReset and confirmEmailVerification: the token is looked up.
FindToken(c, i) ==
    /\ tokens[i].state = "live"
    /\ Begin(c, [at |-> tokens[i].scope, token |-> i, user |-> tokens[i].user])
    /\ UNCHANGED accounts

\* The hash is stored.  Only sign-ins read it, and one that had verified the old
\* password goes on; so nothing else here depends on which hash is stored.
UpdatePassword(c) ==
    /\ At(c, "password_reset")
    /\ GoTo(c, "revoke_reset")
    /\ UNCHANGED accounts

MarkVerified(c) ==
    /\ At(c, "email_verify")
    /\ verified' = verified \cup {req[c].user}
    /\ GoTo(c, "revoke_verify")
    /\ UNCHANGED <<directory, logins, tokens, writes>>

\* AuthTokenRepository.revoke: whether the row was still live is not looked at.
RevokeToken(c) ==
    /\ At(c, "revoke_reset") \/ At(c, "revoke_verify")
    /\ tokens' = [tokens EXCEPT ![req[c].token].state = "revoked"]
    /\ IF At(c, "revoke_reset") THEN GoTo(c, "revoke_logins") ELSE Finish(c)
    /\ UNCHANGED <<directory, logins, verified, writes>>

\* One UPDATE, which also matches the sessions already expired.
RevokeAllSessionsForUser(c) ==
    /\ At(c, "revoke_logins")
    /\ logins' = [i \in 1..Len(logins) |->
                    IF logins[i].user = req[c].user
                    THEN [logins[i] EXCEPT !.state = "revoked"] ELSE logins[i]]
    /\ Finish(c)
    /\ UNCHANGED <<directory, verified, tokens, writes>>

-----------------------------------------------------------------------------
(* The active tenant and store of a session.                                 *)

\* Variant of FindActiveMembership: a revoked row still counts.
FindActiveMembershipAnyState(u, g) == membership[u][g].state # "none"

\* findActiveMembership; neither it nor its callers look at the tenant's row.
FindActiveMembership(u, g) == membership[u][g].state = "active"

\* canAccessStore: a store of the tenant, not deleted, and granted.
CanAccessStore(u, g, s) ==
    /\ TenantOf[s] = g /\ store[s] \in {"active", "inactive"}
    /\ u \notin Admins =>
         membership[u][g].kind = "all" \/ s \in membership[u][g].stores

\* switchTenant: a member, or an administrator of an existing tenant.
SwitchTenant(c, i, g) ==
    /\ FindActiveLogin(i)
    /\ IF logins[i].user \in Admins
         THEN tenant[g] \in {"active", "suspended"}
         ELSE FindActiveMembership(logins[i].user, g)
    /\ Begin(c, [at |-> "context", login |-> i, tenant |-> g, store |-> None])
    /\ UNCHANGED accounts

\* switchStore reads the session's tenant ...
SwitchStore(c, i, s) ==
    /\ FindActiveLogin(i) /\ logins[i].tenant # None
    /\ Begin(c, [at |-> "store", login |-> i, tenant |-> logins[i].tenant, store |-> s])
    /\ UNCHANGED accounts

\* ... and checks the membership and the store in one transaction.
CheckStore(c) ==
    /\ At(c, "store")
    /\ LET u == logins[req[c].login].user IN
       IF /\ u \in Admins \/ FindActiveMembership(u, req[c].tenant)
          /\ CanAccessStore(u, req[c].tenant, req[c].store)
         THEN GoTo(c, "context") ELSE Finish(c)
    /\ UNCHANGED accounts

ClearStore(c, i) ==
    /\ FindActiveLogin(i)
    /\ Begin(c, [at |-> "context", login |-> i, tenant |-> logins[i].tenant, store |-> None])
    /\ UNCHANGED accounts

\* Variant of WithContext: a store switch leaves the tenant column alone.
WithContextStoreOnly(l, g, s) ==
    IF s # None THEN [l EXCEPT !.store = s] ELSE [l EXCEPT !.tenant = g, !.store = s]

\* updateActiveContext writes both columns.
WithContext(l, g, s) == [l EXCEPT !.tenant = g, !.store = s]

UpdateActiveContext(c) ==
    /\ At(c, "context")
    /\ LET i == req[c].login IN
       logins' = IF logins[i].state = "revoked" THEN logins
                 ELSE [logins EXCEPT ![i] = WithContext(@, req[c].tenant, req[c].store)]
    /\ Finish(c)
    /\ UNCHANGED <<directory, verified, tokens, writes>>

-----------------------------------------------------------------------------
(* A dashboard request: its guards, then its handler.                        *)

\* History: the user may not administer the tenant.
MayNot(u, g) ==
    /\ u \notin Admins
    /\ \/ membership[u][g].state # "active"
       \/ membership[u][g].role \notin {"owner", "tenant_admin"}

\* DashboardAuthGuard and the first read of TenantContextGuard.
ReadSession(c, i) ==
    /\ FindActiveLogin(i) /\ logins[i].tenant # None
    /\ LET u == logins[i].user  g == logins[i].tenant IN
       Begin(c, [at |-> "guard", user |-> u, tenant |-> g, store |-> logins[i].store,
                 barred |-> MayNot(u, g), edits |-> membership[u][g].edits])
    /\ UNCHANGED accounts

\* The rest of TenantContextGuard, then RolesGuard with owner and tenant_admin.
Authorized(c) ==
    LET u == req[c].user  g == req[c].tenant IN
    /\ u \in Admins \/ /\ FindActiveMembership(u, g)
                       /\ membership[u][g].role \in {"owner", "tenant_admin"}
    /\ req[c].store # None => CanAccessStore(u, g, req[c].store)

Guard(c) ==
    /\ At(c, "guard")
    /\ IF Authorized(c) THEN GoTo(c, "handler") ELSE Finish(c)
    /\ UNCHANGED accounts

\* A handler's write: barred if its user was so when the request began and the
\* membership was not changed since.
Written(c) ==
    writes' = writes \cup
      {req[c].barred /\ membership[req[c].user][req[c].tenant].edits = req[c].edits}

-----------------------------------------------------------------------------
(* Memberships.                                                              *)

\* MembershipsService.revoke; an unknown or revoked membership is a 404.
Revoke(c, u) ==
    /\ At(c, "handler")
    /\ LET g == req[c].tenant IN
       /\ membership[u][g].state = "active"
       /\ membership' = [membership EXCEPT ![u][g].state = "revoked"]
    /\ Written(c) /\ Finish(c)
    /\ UNCHANGED <<tenant, store, invitations,
                   logins, verified, tokens>>

\* The request schema and the checks of MembershipsService.update.
ChangeAllowed(row, g, ch) ==
    LET kind == IF ch.kind = None THEN row.kind ELSE ch.kind IN
    /\ row.state = "active"
    /\ ch # [role |-> None, kind |-> None, stores |-> None]
    /\ ch.kind = "all" => ch.stores \in {None, {}}
    /\ ch.stores # None /\ ch.kind = None => row.kind = "specific"
    /\ kind = "specific" /\ (ch.kind = "specific" \/ ch.stores # None)
         => /\ ch.stores \notin {None, {}}
            /\ \A s \in ch.stores : TenantOf[s] = g /\ store[s] \in {"active", "inactive"}

FindToUpdate(c, u, ch) ==
    /\ At(c, "handler") /\ membership[u][req[c].tenant].edits < mix.rows
    /\ ChangeAllowed(membership[u][req[c].tenant], req[c].tenant, ch)
    /\ req' = [req EXCEPT ![c] = [at |-> "update", user |-> @.user, tenant |-> @.tenant,
                                  barred |-> @.barred, edits |-> @.edits,
                                  member |-> u, change |-> ch]]
    /\ UNCHANGED accounts

\* MembershipsRepository.update writes the row by id, its state unread, and
\* replaces the grants.
Changed(row, ch) ==
    [row EXCEPT
       !.role = IF ch.role = None THEN @ ELSE ch.role,
       !.kind = IF ch.kind = None THEN @ ELSE ch.kind,
       !.stores = CASE ch.kind = "all" -> {}
                    [] ch.kind # "all" /\ ch.stores # None -> ch.stores
                    [] OTHER -> @,
       !.edits = @ + 1]

UpdateMembership(c) ==
    /\ At(c, "update")
    /\ membership' = [membership EXCEPT ![req[c].member][req[c].tenant] =
                        Changed(@, req[c].change)]
    /\ Written(c) /\ Finish(c)
    /\ UNCHANGED <<tenant, store, invitations,
                   logins, verified, tokens>>

-----------------------------------------------------------------------------
(* Invitations.                                                              *)

Pending(u, g) ==
    {n \in 1..Len(invitations) : /\ invitations[n].user = u /\ invitations[n].tenant = g
                                 /\ invitations[n].status = "pending"}

\* invite, up to findPendingByEmail: no pending invitation but late ones, which
\* autoExpireStale will have expired.
FindPendingByEmail(c, u, offer) ==
    /\ At(c, "handler")
    /\ \A s \in offer.stores : TenantOf[s] = req[c].tenant
                              /\ store[s] \in {"active", "inactive"}
    /\ \A n \in Pending(u, req[c].tenant) : invitations[n].late
    /\ req' = [req EXCEPT ![c] = [at |-> "invite", user |-> @.user, tenant |-> @.tenant,
                                  barred |-> @.barred, edits |-> @.edits,
                                  invitee |-> u, offer |-> offer]]
    /\ UNCHANGED accounts

\* The insert and the commit; no index keeps a second pending one out.  The
\* e-mail that carries the token follows.
CreateInvitation(c) ==
    /\ At(c, "invite") /\ Len(invitations) < mix.rows
    /\ LET u == req[c].invitee  g == req[c].tenant
           stale == {n \in Pending(u, g) : invitations[n].late}
           expired == [n \in 1..Len(invitations) |->
                         IF n \in stale THEN [invitations[n] EXCEPT !.status = "expired"]
                         ELSE invitations[n]]
       IN invitations' = Append(expired, [user |-> u, tenant |-> g, status |-> "pending",
                                          late |-> FALSE, offer |-> req[c].offer, made |-> 0])
    /\ Written(c) /\ Finish(c)
    /\ UNCHANGED <<tenant, store, membership,
                   logins, verified, tokens>>

\* An invitation passes its expires_at.
Lapse(n) ==
    /\ invitations[n].status = "pending" /\ ~invitations[n].late
    /\ invitations' = [invitations EXCEPT ![n].late = TRUE]
    /\ UNCHANGED <<tenant, store, membership, dashboard, req>>

\* lookupAndValidateAcceptToken, then the invitee's user row.
LookupInvitation(c, n) ==
    /\ invitations[n].status = "pending" /\ ~invitations[n].late
    /\ Begin(c, [at |-> "accept", invitation |-> n])
    /\ UNCHANGED accounts

\* The WHERE of markAccepted.
Acceptable(n) == invitations[n].status = "pending" /\ ~invitations[n].late

\* memberships_tenant_user_active_uidx is partial on deleted_at IS NULL, which
\* no code sets: a revoked row is in the way like an active one.
RowInTheWay(u, g) == membership[u][g].state # "none"

\* createMembership and insertStoreAccessRows.
JoinedBy(offer) ==
    [state |-> "active", role |-> offer.role, kind |-> offer.kind,
     stores |-> IF offer.kind = "specific" THEN offer.stores ELSE {}, edits |-> 0]

\* Variant of OnConflict: the acceptance commits although no membership was made.
OnConflictAccepted(n) == invitations' = [invitations EXCEPT ![n].status = "accepted"]

\* A unique violation ends in a 409 thrown out of the transaction, which rolls
\* the acceptance back.
OnConflict(n) == UNCHANGED invitations

\* The transaction of acceptInvitationExistingUser: markAccepted and
\* createMembership, or neither.
AcceptInvitation(c) ==
    /\ At(c, "accept")
    /\ LET n == req[c].invitation  u == invitations[n].user  g == invitations[n].tenant IN
       \/ /\ ~Acceptable(n)                                          \* 400
          /\ UNCHANGED <<invitations, membership>>
       \/ /\ Acceptable(n) /\ RowInTheWay(u, g)                      \* 409
          /\ OnConflict(n) /\ UNCHANGED membership
       \/ /\ Acceptable(n) /\ ~RowInTheWay(u, g)
          /\ invitations' = [invitations EXCEPT ![n].status = "accepted", ![n].made = @ + 1]
          /\ membership' = [membership EXCEPT ![u][g] = JoinedBy(invitations[n].offer)]
    /\ Finish(c)
    /\ UNCHANGED <<tenant, store, dashboard>>

-----------------------------------------------------------------------------
(* Tenants and stores.                                                       *)

\* create, update and softDelete of TenantsService, for platform
\* administrators: each is one transaction.
TenantStep(g, from, to) ==
    /\ tenant[g] \in from
    /\ tenant' = [tenant EXCEPT ![g] = to]
    /\ UNCHANGED <<store, membership, invitations, dashboard, req>>

CreateTenant(g) == TenantStep(g, {"none"}, "active")
UpdateTenant(g, status) == TenantStep(g, {"active", "suspended"} \ {status}, status)
SoftDeleteTenant(g) == TenantStep(g, {"active", "suspended"}, "deleted")

\* create, update and softDelete of StoresService, in the request's tenant.
StoreStep(c, s, from, to) ==
    /\ At(c, "handler") /\ TenantOf[s] = req[c].tenant
    /\ store[s] \in from
    /\ store' = [store EXCEPT ![s] = to]
    /\ Written(c) /\ Finish(c)
    /\ UNCHANGED <<tenant, membership, invitations,
                   logins, verified, tokens>>

CreateStore(c, s) == StoreStep(c, s, {"none"}, "active")
UpdateStore(c, s, status) == StoreStep(c, s, {"active", "inactive"} \ {status}, status)
SoftDeleteStore(c, s) == StoreStep(c, s, {"active", "inactive"}, "deleted")

-----------------------------------------------------------------------------
SignInToDashboard(c) ==
    \/ \E u \in Users : VerifyPassword(c, u)
    \/ CreateLogin(c)

Recover(c) ==
    \/ \E i \in 1..Len(tokens) : FindToken(c, i)
    \/ UpdatePassword(c)
    \/ MarkVerified(c)
    \/ RevokeToken(c)
    \/ RevokeAllSessionsForUser(c)

Switch(c) ==
    \/ \E i \in 1..Len(logins), g \in Tenants : SwitchTenant(c, i, g)
    \/ \E i \in 1..Len(logins), s \in Stores : SwitchStore(c, i, s)
    \/ \E i \in 1..Len(logins) : ClearStore(c, i)
    \/ CheckStore(c)
    \/ UpdateActiveContext(c)

Administer(c) ==
    \/ \E i \in 1..Len(logins) : ReadSession(c, i)
    \/ Guard(c)
    \/ \E u \in Users : Revoke(c, u)

Patch(c) ==
    \/ \E u \in Users, ch \in Changes : FindToUpdate(c, u, ch)
    \/ UpdateMembership(c)

InviteAndAccept(c) ==
    \/ \E u \in Users, o \in Offers : FindPendingByEmail(c, u, o)
    \/ CreateInvitation(c)
    \/ \E n \in 1..Len(invitations) : LookupInvitation(c, n)
    \/ AcceptInvitation(c)

Platform ==
    \E g \in Tenants :
       \/ CreateTenant(g)
       \/ \E status \in {"active", "suspended"} : UpdateTenant(g, status)
       \/ SoftDeleteTenant(g)

ManageStores(c) ==
    \E s \in Stores :
       \/ CreateStore(c, s)
       \/ \E status \in {"active", "inactive"} : UpdateStore(c, s, status)
       \/ SoftDeleteStore(c, s)

\* A request dies between two statements, or the client never sees its answer.
Die(c) ==
    /\ ~At(c, "idle")
    /\ Finish(c)
    /\ UNCHANGED accounts

AccountsNext ==
    \/ \E c \in Clients :
         \/ "login" \in mix.does /\ SignInToDashboard(c)
         \/ "recover" \in mix.does /\ Recover(c)
         \/ "switch" \in mix.does /\ Switch(c)
         \/ "administer" \in mix.does /\ Administer(c)
         \/ "patch" \in mix.does /\ Patch(c)
         \/ "invite" \in mix.does /\ InviteAndAccept(c)
         \/ "platform" \in mix.does /\ ManageStores(c)
         \/ Die(c)
    \/ "platform" \in mix.does /\ Platform
    \/ "recover" \in mix.does /\ \E u \in Users :
         IssueToken(u, "password_reset") \/ IssueToken(u, "email_verify")
    \/ "expire" \in mix.does /\
         \/ \E i \in 1..Len(logins) : ExpireLogin(i)
         \/ \E i \in 1..Len(tokens) : ExpireToken(i)
         \/ \E n \in 1..Len(invitations) : Lapse(n)
    \/ "login" \in mix.does /\ \E i \in 1..Len(logins) : SignOutLogin(i)

-----------------------------------------------------------------------------
(* Properties.                                                               *)

\* However a session's switches of tenant and store overlap, its active store is
\* one of its active tenant.
StoreOfActiveTenant ==
    \A i \in 1..Len(logins) :
        logins[i].store # None => TenantOf[logins[i].store] = logins[i].tenant

\* An invitation makes one membership exactly when it is accepted, and nobody
\* becomes a member by two invitations.
InvitationSpentOnce ==
    /\ \A n \in 1..Len(invitations) :
         invitations[n].made = IF invitations[n].status = "accepted" THEN 1 ELSE 0
    /\ \A n, m \in 1..Len(invitations) :
         (n # m /\ invitations[n].made > 0 /\ invitations[m].made > 0)
           => <<invitations[n].user, invitations[n].tenant>>
                # <<invitations[m].user, invitations[m].tenant>>

\* No dashboard write is made for a user who lacked the right to it from the
\* request's first read on: a revocation that precedes a request stops it.
BarredNeverWrites == TRUE \notin writes

-----------------------------------------------------------------------------
(* The inductive invariant of the proofs, as far as this module goes.        *)

AccountsTypeOK ==
    /\ tenant \in [Tenants -> {"none", "active", "suspended", "deleted"}]
    /\ store \in [Stores -> {"none", "active", "inactive", "deleted"}]
    /\ membership \in [Users -> [Tenants -> MembershipRow]]
    /\ invitations \in Seq(InvitationRow)
    /\ logins \in Seq(LoginRow)
    /\ verified \subseteq Users
    /\ tokens \in Seq(TokenRow)

\* A row of memberships is never deleted, so it outlives what was decided on it.
HasRow(u, g) == membership[u][g].state # "none"

Known(u, g) == u \in Admins \/ HasRow(u, g)

\* A session's active tenant is one its user has been admitted to, and its
\* active store one of that tenant.
ContextOfMember ==
    \A i \in 1..Len(logins) :
        /\ logins[i].store # None => TenantOf[logins[i].store] = logins[i].tenant
        /\ logins[i].tenant # None => Known(logins[i].user, logins[i].tenant)

\* An accepted invitation has made its one row, which stands in the way of
\* every other.
AcceptedMadeRow ==
    /\ \A n \in 1..Len(invitations) :
         /\ invitations[n].made = IF invitations[n].status = "accepted" THEN 1 ELSE 0
         /\ invitations[n].status = "accepted" =>
              HasRow(invitations[n].user, invitations[n].tenant)
    /\ \A n, m \in 1..Len(invitations) :
         (/\ invitations[n].status = "accepted" /\ invitations[m].status = "accepted"
          /\ invitations[n].user = invitations[m].user
          /\ invitations[n].tenant = invitations[m].tenant) => n = m

TokenSteps == {"password_reset", "email_verify", "revoke_reset", "revoke_verify",
               "revoke_logins"}
WriteSteps == {"guard", "handler", "update", "invite"}
AccountsSteps ==
    TokenSteps \cup WriteSteps \cup {"login", "store", "context", "accept"}

TokenShape(r) ==
    r.at \in TokenSteps =>
        /\ r \in [at : TokenSteps, token : Nat, user : Users]
        /\ r.token \in 1..Len(tokens)

\* A switch under way is to a tenant its user has been admitted to, and past
\* its checks to a store of that tenant.
ContextShape(r) ==
    r.at \in {"store", "context"} =>
        /\ r \in [at : {"store", "context"}, login : Nat,
                  tenant : Tenants \cup {None}, store : Stores \cup {None}]
        /\ r.login \in 1..Len(logins)
        /\ r.tenant # None => Known(logins[r.login].user, r.tenant)
        /\ r.at = "context" /\ r.store # None => TenantOf[r.store] = r.tenant

\* A request that began barred still is, or its membership has been edited; past
\* the guards it has been.
BarredShape(r) ==
    LET m == membership[r.user][r.tenant] IN
    r.barred =>
        /\ r.user \notin Admins /\ m.state # "none"
        /\ r.edits <= m.edits
        /\ m.edits = r.edits => r.at = "guard" /\ MayNot(r.user, r.tenant)

WriteShape(r) ==
    /\ r.at \in {"guard", "handler"} =>
         r \in [at : {"guard", "handler"}, user : Users, tenant : Tenants,
               store : Stores \cup {None}, barred : BOOLEAN, edits : Nat]
    /\ r.at = "update" =>
         r \in [at : {"update"}, user : Users, tenant : Tenants,
               barred : BOOLEAN, edits : Nat, member : Users, change : Changes]
    /\ r.at = "invite" =>
         r \in [at : {"invite"}, user : Users, tenant : Tenants,
               barred : BOOLEAN, edits : Nat, invitee : Users, offer : Offers]
    /\ r.at \in WriteSteps => BarredShape(r)

AccountsShape(r) ==
    /\ r.at = "login" => r \in [at : {"login"}, user : Users]
    /\ TokenShape(r)
    /\ ContextShape(r)
    /\ WriteShape(r)
    /\ r.at = "accept" => r.invitation \in 1..Len(invitations)

AccountsInvariant ==
    /\ AccountsTypeOK
    /\ ContextOfMember
    /\ AcceptedMadeRow
    /\ BarredNeverWrites
    /\ req = [c \in Clients |-> req[c]]
    /\ \A c \in Clients : AccountsShape(req[c])
=============================================================================
