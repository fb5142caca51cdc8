SPECIFICATION CaptureSpec
CONSTANTS
    u1 = u1
    u2 = u2
    Tills = {u1, u2}
    StoreOf <- TwoStores
    Keys = {k1, k2}
    Refs = {r1, r2}
    MaxRequests = 3
    Sales = {s1, s2}
    Txns = {t1, t2}
    NoTxn = NoTxn
    NoSale = NoSale
    JobAttempts = 1
    MaxRows = 1
SYMMETRY Symmetry
INVARIANTS
    PostedOnce
    EveryRowAccounted
    CapturedOnce
    ReversedOnce
PROPERTIES
    QuarantineNeverClobbers
CHECK_DEADLOCK FALSE
