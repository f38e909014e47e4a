SPECIFICATION PartSpec
CONSTANTS
    None = None
    Null = Null
    Nil = Nil
    u1 = u1
    u2 = u2
    t1 = t1
    t2 = t2
    v1 = v1
    v2 = v2
    d = d
    s1 = s1
    Unused = Unused
    Terminals = {t1}
    Spaces = {d, s1}
    DefaultSpace = d
    Hangs = TRUE
    BirthInPass = TRUE
    Sessions = {u1, u2}
    MaxEvents = 7
    MaxFaults = 1
    MaxFailures = 1
    MaxCrashes = 1
    Conversation = u1
    Hosts = {t1, t2}
    Absent = Absent
    MaxTurns = 1
    MaxConns = 2
    MaxFrames = 8
    MaxLosses = 1
CHECK_DEADLOCK FALSE
INVARIANTS
    RecordsInStep
    ObservesTruly
    HooksTruthful
PROPERTIES
    OnlyAdvances
    StoreHolds
