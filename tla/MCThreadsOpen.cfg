SPECIFICATION Spec
CONSTANTS
    Keys = {k1}
    Terminals = {t1, t2, t3}
    ProviderTurns = {p1, p2}
    Responses = {r1}
    None = None
    ThreadIds = {h1}
    Openers = {o1, o2}
    Reports <- OneReport
    MaxTurns = 0
    MaxFailures = 1
    MaxCrashes = 1
    LateSessions = FALSE
    p1 = p1
    p2 = p2
    r1 = r1
CONSTRAINT NoSweep
SYMMETRY Symmetry
CHECK_DEADLOCK FALSE
INVARIANTS
    NoSecondResume
