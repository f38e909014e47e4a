SPECIFICATION PartSpec
CONSTANTS
    None = None
    Unset = Unset
    u1 = u1
    u2 = u2
    t1 = t1
    t2 = t2
    s1 = s1
    s2 = s2
    Unused = Unused
    Terminals = {u1, u2}
    Strangers = {t1}
    MaxFaults = 1
    AgentSessions = {s1, s2}
    Queued <- OwedToLinear
    SendBatch = 2
    SendWorkers = 1
    MaxOutages = 1
    MaxRestarts = 1
    MaxAttempts = 1
    Conns = 3
    MaxSpawns = 2
    MaxBreaks = 1
CHECK_DEADLOCK FALSE
INVARIANTS
    ServiceAsDescribed
    UnifiedTerminalsHold
    ChatsHold
    OutboxHolds
    PeersHeld
    LaunchesBind
    ExposureSound
PROPERTIES
    PickerTruthful
