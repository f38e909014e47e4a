SPECIFICATION PublishingSpec
CONSTANTS
    Handlers = {h1, h2}
    ArtifactIds = {1, 2}
    MaxPubs = 2
    MaxVersions = 2
    MaxFailures = 1
    MaxRestarts = 1
    Copies = {c1, c2}
CHECK_DEADLOCK FALSE
INVARIANT RefusedHasNoResult
