SPECIFICATION ApiSpec
CONSTANTS
    q1 = q1
    q2 = q2
    q3 = q3
    q4 = q4
    tA = tA
    tB = tB
    k1 = k1
    Requests = {q1, q2, q3, q4}
    NoRequest = NoRequest
    Tenants = {tA, tB}
    Tuples = {k1}
    Bodies <- AllBodies
    TenantOf <- TwoTenants
    TupleOf <- OneKey
    BodyOf <- TwoBodies
    None = None
    p1 = p1
    p2 = p2
    n1 = n1
    n2 = n2
    s1 = s1
    s2 = s2
    c1 = c1
    c2 = c2
    w1 = w1
    w2 = w2
    Products = {p1, p2}
    Refs = {n1, n2}
    Stores = {s1, s2}
    OnHand <- Stock
    ItemViews <- Views
    Reports <- BinViews
    PageLimit = 1
    Workers = {w1, w2}
    Clients = {c1, c2}
    MaxAttempts = 2
    MaxRuns = 2
    Mixes <- AllMixes
INVARIANTS
    AtMostOnce
    ReplayIsOriginal
    RunReportedOnce
    RepairsStand
    RotationSupersedes
PROPERTIES
    AnsweredRunsComplete
CHECK_DEADLOCK FALSE
