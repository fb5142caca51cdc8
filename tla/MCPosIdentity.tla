---------------------------- MODULE MCPosIdentity -----------------------------
(* A small instance of PosIdentity for TLC: one terminal, two codes that      *)
(* would place it in different stores of one tenant, a store of another       *)
(* tenant, two users and a platform administrator, one takeover event and one *)
(* shift that both users report as opened.                                    *)
EXTENDS PosIdentity, TLC

CONSTANTS c1, c2, u1, u2, u3, g1, g2, s1, s2, s3, t1, k1, k2, e1, h1

TwoTenants == [s \in Stores |-> IF s = s3 THEN g2 ELSE g1]
TwoStores == [k \in Codes |-> IF k = k1 THEN s1 ELSE s2]
SameTerminal == [k \in Codes |-> t1]

ShiftOpen(u) ==
    [action |-> "shift.open", store |-> s1, terminal |-> t1, actor |-> u, shift |-> h1]
Uploads == {ShiftOpen(u1), ShiftOpen(u2)}

OnlySecondStore == [role |-> None, kind |-> "specific", stores |-> {s2}]
Demotion == [role |-> "store_staff", kind |-> None, stores |-> None]
Patches == {OnlySecondStore, Demotion}
StaffOfFirstStore == [role |-> "store_staff", kind |-> "specific", stores |-> {s1}]
OneOffer == {StaffOfFirstStore}

NoRow == [state |-> "none", role |-> "store_staff", kind |-> "all", stores |-> {}, edits |-> 0]
Row(role) == [NoRow EXCEPT !.state = "active", !.role = role]

\* Both are tenant administrators of the first tenant, u1 of the second too.
Team == [u \in Users |-> [g \in Tenants |->
           IF (g = g1 /\ u # u3) \/ u = u1 THEN Row("tenant_admin") ELSE NoRow]]
Loner == [u \in Users |-> [g \in Tenants |->
           IF g = g1 /\ u = u1 THEN Row("owner") ELSE NoRow]]

Nobody == [u \in Users |-> [g \in Tenants |-> NoRow]]

ClientSymmetry == Permutations(Clients)

SignedIn(u, g) == [user |-> u, state |-> "live", tenant |-> g, store |-> None]

Mix(does, members, ins, sessionCap, rowCap) ==
    [does |-> does, members |-> members, logins |-> ins,
     sessions |-> sessionCap, rows |-> rowCap]

\* Pairing; uploads against a removed membership; operator sessions against each other; sales
\* against what may bar them; password resets against sign-ins; context switches;
\* invitations; administrators who demote and remove one another; stores.
AllMixes ==
    {Mix({"pair", "revoke"}, Team, <<>>, 0, 0),
     Mix({"paired", "operate", "takeover"}, Team, <<>>, 3, 0),
     Mix({"paired", "operate", "takeover", "expire"}, Team, <<>>, 2, 0),
     Mix({"paired", "operate", "sell", "administer", "patch", "revoke"}, Team, <<SignedIn(u1, g1)>>, 1, 1),
     Mix({"paired", "upload", "administer"}, Team, <<SignedIn(u2, g1)>>, 0, 0),
     Mix({"login", "recover", "expire"}, Team, <<>>, 2, 1),
     Mix({"login", "switch"}, Team, <<>>, 1, 0),
     Mix({"administer", "invite", "expire"}, Loner, <<SignedIn(u1, g1)>>, 1, 2),
     Mix({"administer", "patch"}, Team, <<SignedIn(u1, g1), SignedIn(u2, g1)>>, 2, 1),
     Mix({"platform", "administer", "switch"}, Nobody, <<SignedIn(u3, None)>>, 1, 0)}
=============================================================================
