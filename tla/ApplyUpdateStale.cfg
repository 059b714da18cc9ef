SPECIFICATION Spec
CONSTANTS
    MaxVersion = 2
    Good = {1, 2}
    Bundled = {1, 2, 3}
    Faults = {}
    CrashPoints = {"migrate", "start", "health"}
    MaxCrashes = 1
    MaxWrites = 0
    Images = {}
PROPERTY RollbackRestoresSnapshot
CHECK_DEADLOCK FALSE
