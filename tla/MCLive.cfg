SPECIFICATION PartSpec
CONSTANTS
    None = None
    u1 = u1
    u2 = u2
    s1 = s1
    s2 = s2
    mention = mention
    Unused = Unused
CHECK_DEADLOCK FALSE
PROPERTIES
    ImplementsOwedCalls
    SettlesWithT3
    StopsReturn
    NobodyLeftWaiting
    WorkGetsDone
    ShownAsTheyAre
