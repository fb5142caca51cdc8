SPECIFICATION Spec
CONSTANTS
    None = None
    c1 = c1
    c2 = c2
    u1 = u1
    u2 = u2
    u3 = u3
    s1 = s1
    s2 = s2
    s3 = s3
    g1 = g1
    g2 = g2
    t1 = t1
    k1 = k1
    k2 = k2
    e1 = e1
    h1 = h1
    Clients = {c1, c2}
    Users = {u1, u2, u3}
    Admins = {u3}
    Tenants = {g1, g2}
    Stores = {s1, s2, s3}
    TenantOf <- TwoTenants
    Changes <- Patches
    Offers <- OneOffer
    Terminals = {t1}
    Codes = {k1, k2}
    CodeStore <- TwoStores
    CodeTerminal <- SameTerminal
    MaxAttempts = 1
    TakeoverEvents = {e1}
    AuditEvents <- Uploads
    Mixes <- AllMixes
SYMMETRY ClientSymmetry
INVARIANTS
    BurnedIffProvisioned
    TwoSessionsOnlyByRace
    NoSaleOnceBarred
    ShiftIffOpened
    StoreOfActiveTenant
    InvitationSpentOnce
    BarredNeverWrites
CHECK_DEADLOCK FALSE
