SPECIFICATION PoolFairSpec
CONSTANTS
    plain = plain
    posting = posting
    recon = recon
    Rows = {plain, posting, recon}
    Depth <- ThreeKinds
    Jobs = {j1, j2}
    Drainer = Drainer
    MaxConnections = 3
PROPERTIES
    TickCompletes
CHECK_DEADLOCK FALSE
