SPECIFICATION LedgerSpec
CONSTANTS
    insurer = insurer
    local = local
    s1 = s1
    s2 = s2
    saleA = saleA
    Payers = {insurer, local}
    Stores = {s1, s2}
    TenantWide = TenantWide
    payerStore <- InsurerAndLocal
    Sales = {saleA}
    saleStore <- SaleInFirst
    OwedAmounts = {2}
    Payments = {1}
    Remittances = {2}
    MaxPayers = 2
    MaxRefs = 2
    MaxClaims = 2
    Consoles = {k1}
    Txns = {t1, t2}
    NoPayer = NoPayer
    p1 = p1
    u1 = u1
    None = None
    StockStores = {s1, s2}
    Products = {p1}
    Units = {u1, u2}
    ManualEntries <- Entries
    ManualProducts = {p1}
    Quantities = {1}
    NumericMax = 2
    ExactMax = 1
    AsNumber <- Coarse
    Variance <- CoarseVariance
    SaleStore = s1
    SaleLines <- TwoLines
    MaxBackfill = 2
    Clients = {t1, t2}
    MaxOps = 3
SYMMETRY TxnSymmetry
INVARIANTS
    MoneyConserved
    ClearedClaimStands
    OneUnitPerProduct
    TransfersBalance
    AppliedAndAnnouncedOnce
PROPERTIES
    ReconciledOnce
    
CHECK_DEADLOCK FALSE
