SPECIFICATION FairSpec
CONSTANTS
    c1 = c1
    c2 = c2
    c3 = c3
    Connections = {c1, c2, c3}
    SensorOf <- MCSensorOf
    MaxSent <- MCMaxSent
    BufferSize = 2
    Now = 9
    Starts <- MCStarts
    None = None
    EnoughRows = 3
    HealthRows = 3
    StuckRows = 2
    ActiveMinutes = 2
    MaxItems = 2
    Error = 1
    Sensors = {1, 2}
    Asked = {1}
    Windows = {1, 2, 3, 4}
    Bounds = {None, 1, 2}
    Sigmas = {1, 2}
INVARIANTS
    StoredAsSent
    NothingLostUndisturbed
    CountersAddUp
    BufferHoldsNewest
    SummaryConsistent
    SplitsAreExact
    StatisticsAgree
    ActivityAgrees
PROPERTY
    GoodMessagesStored
