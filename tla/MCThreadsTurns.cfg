SPECIFICATION Spec
CONSTANTS
    Keys = {k1, k2}
    Terminals = {t1}
    ProviderTurns = {p1, p2}
    Responses = {r1}
    None = None
    ThreadIds = {h1, h2}
    Openers = {}
    Reports <- RichReports
    MaxTurns = 2
    MaxFailures = 0
    MaxCrashes = 1
    LateSessions = FALSE
    p1 = p1
    p2 = p2
    r1 = r1

SYMMETRY Symmetry
CHECK_DEADLOCK FALSE
INVARIANTS
    TypeOK
    RecordsCoherent
    ClaimsBacked
PROPERTIES
    EndedTurnsFinal
