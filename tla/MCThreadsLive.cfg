SPECIFICATION FairSpec
CONSTANTS
    Keys = {k1}
    Terminals = {t1, t2}
    ProviderTurns = {p1, p2}
    Responses = {r1}
    None = None
    ThreadIds = {h1}
    Openers = {o1, o2}
    Reports <- OneReport
    MaxTurns = 0
    MaxFailures = 0
    MaxCrashes = 0
    LateSessions = FALSE
    p1 = p1
    p2 = p2
    r1 = r1

CHECK_DEADLOCK FALSE
PROPERTIES
    OpenReturns
    GoneTerminalsReleased
