SPECIFICATION PartSpec
CONSTANTS
    None = None
    Null = Null
    Nil = Nil
    u1 = u1
    u2 = u2
    u3 = u3
    v1 = v1
    v2 = v2
    s1 = s1
    s2 = s2
    mention = mention
    followUp = followUp
    bare = bare
    NoFile = NoFile
    Deliveries = {mention, followUp, bare}
    Capacity = 1
    MaxFaults = 1
    MaxCrashes = 1
    Sessions = {s1, s2}
    Threads = {h1, h2}
    SessionOf <- Subject
    KindOf <- Kinds
    ProjectIds = {u1, u2}
    Origins <- Homes
    Directories <- Roots
    MaxChanges = 4
    MaxFailedWrites = 1
    Handlers = {u1, u2}
    ArtifactIds = {1, 2}
    MaxPubs = 3
    MaxVersions = 3
    MaxFailures = 1
    MaxRestarts = 1
    Copies = {v1, v2}
    Processes = {u1, u2, u3}
    Wants <- Builds
    MaxUses = 5
    MaxBreaks = 2
    Files = 2
    MaxSaves = 3
    Attempts = 3
    MaxBuilds = 2
    MaxSchema = 4
    MaxRows = 2
    MaxStops = 2
    Callers = {u1, u2, u3}
    MaxTokens = 3
    MaxMishaps = 2
SYMMETRY Symmetry
CHECK_DEADLOCK FALSE
INVARIANTS
    MentionsHonoured
    PublicationsHold
    CopiesSound
    ProjectsHold
PROPERTIES
    FilesSurvive
