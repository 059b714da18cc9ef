SPECIFICATION FairSpec
CONSTANTS
    MaxVersion = 2
    Good = {1}
    Bundled = {1, 2}
    Faults = {"snapshot", "stop", "start", "restore"}
    CrashPoints = {}
    MaxCrashes = 0
    MaxWrites = 0
    Images = {}
INVARIANT ServesOwnSchema
PROPERTIES SuccessIsComplete UpdateEnds
CHECK_DEADLOCK FALSE
