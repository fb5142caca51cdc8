SPECIFICATION CatalogueSpec
CONSTANTS
    None = None
    cashier = cashier
    manager = manager
    owner = owner
    s1 = s1
    Stores = {s1}
    Identifiers <- OneBarcode
    Products = {1}
    Clients = {cashier, manager, owner}
    Role <- Roles
    Scope <- Scopes
    ListLimit = 2
    MaxItems = 2
    MaxAliases = 1
    MaxFaults = 1
    Null = Null
    Shelf = {1, 2, 3}
    BaseRows <- FewRows
    OverrideRows <- FewOverrides
    Representable = {1, 2}
    Writers = {w1, w2}
    Limit = 1
    MaxEdits = 3
INVARIANTS
    ResolvedIsAnswerable
    SettledByOne
    ReportsAreTrue
    StaleIsAnnounced
PROPERTIES
    EventuallyMirrors
CHECK_DEADLOCK FALSE
