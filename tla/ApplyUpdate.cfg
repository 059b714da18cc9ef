SPECIFICATION FairSpec
CONSTANTS
    MaxVersion = 2
    Good = {1, 2}
    Bundled = {1, 2, 3}
    Faults = {"aside", "copy", "migrate"}
    CrashPoints = {"snapshot", "extract", "stop", "wait", "aside", "land", "version", "migrate", "start", "health", "cleanup", "finish", "rbStop", "rbTree", "rbVersion", "rbDb", "rbWal", "rbUp", "rbMark", "idle"}
    MaxCrashes = 1
    MaxWrites = 1
    Images = {1}
INVARIANTS TreeKept NextStartWorks
PROPERTIES SuccessIsComplete RollbackExact UpdateReleases
CHECK_DEADLOCK FALSE
