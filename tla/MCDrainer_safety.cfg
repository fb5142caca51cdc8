SPECIFICATION DrainerSpec
CONSTANTS
    e1 = e1
    e2 = e2
    Events = {e1, e2}
    Drainers = {d1, d2}
    EventType <- MovementAndAudit
    NoDrainer = NoDrainer
    AuditType = "audit.event.created"
    RoutableTypes <- Registered
    OccurredAt <- Older
    BatchSize = 2
    PurgeBatchSize = 1
    MaxAttempts = 3
    Delay1 = 1
    Delay2 = 2
    Delay3 = 2
    DelayPlateau = 2
    DeliveredRetention = 2
    FailedRetention = 3
    MaxFaults = 1
    plain = plain
    posting = posting
    recon = recon
    Rows = {plain, posting, recon}
    Depth <- ThreeKinds
    Jobs = {j1, j2}
    Drainer = Drainer
    MaxConnections = 3
INVARIANTS
    SingleHolder
    HeldRowIsCurrent
    DeliveredHadEffect
    StrandedOnlyByFaultOrNoConsumer
PROPERTIES
    ImplementsDelivery
    EventuallySettled
    TickEndsOrStarves
CHECK_DEADLOCK FALSE
