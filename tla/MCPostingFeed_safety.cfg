SPECIFICATION Spec
CONSTANTS
    r1 = r1
    r2 = r2
    p1 = p1
    s1 = s1
    Refs = {r1, r2}
    Products = {p1}
    AdHoc = AdHoc
    LineProducts <- SameProduct
    Stores = {s1}
    StoreOf <- SameStore
    Documents = {d1, d2}
    NoDocument = NoDocument
    NoRef = NoRef
    Txns = {t1, t2}
    PageSize = 1
    RetryBudget = 1
    MaxIncidents = 1
    MaxRepairs = 1
SYMMETRY FeedSymmetry
INVARIANTS
    FeedInvariant
PROPERTIES
    OutcomeStands
CHECK_DEADLOCK FALSE
