SPECIFICATION Spec
CONSTANTS
    Keys = {k1, k2}
    Terminals = {t1, t2}
    ProviderTurns = {p1, p2}
    Responses = {r1}
    None = None
    ThreadIds = {h1, h2}
    Openers = {o1, o2}
    Reports <- FewReports
    MaxTurns = 1
    MaxFailures = 1
    MaxCrashes = 1
    LateSessions = TRUE
    p1 = p1
    p2 = p2
    r1 = r1
SYMMETRY Symmetry
CHECK_DEADLOCK FALSE
INVARIANTS
    ViewMatchesStore
    OneThreadPerConversation
    ActiveOnce
    ChangesAnnounced

