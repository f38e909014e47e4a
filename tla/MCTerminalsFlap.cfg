SPECIFICATION Spec
CONSTANTS
    Terminals = {t1}
    Spaces = {d}
    DefaultSpace = d
    None = None
    Hangs = FALSE
    BirthInPass = TRUE
    MaxFailures = 0
    MaxCrashes = 0
CHECK_DEADLOCK FALSE
PROPERTY NoFlapToMissing
