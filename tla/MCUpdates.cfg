SPECIFICATION MCSpec
CONSTANTS
    Install = {r1, r2}
    r1 = r1
    r2 = r2
    Release = {v1}
    v1 = v1
    Signed = TRUE
    AutoMode = TRUE
    Faults = {"disk", "net", "gpg"}
    MaxInstalls = 3
    MaxDeaths = 1
    Published <- MCPublished
    Checks = {c1, c2}
    c1 = c1
    c2 = c2
    MaxSaves = 2
    MaxChecks = 2
    Newest = 3
    MaxModals = 2
    System = 1
    MaxRestarts = 3
    Latest = 2
    MaxRuns = 3
    MaxFaults = 3
INVARIANTS SlotHeld AgentWasVerified RerunRecovers
PROPERTIES InstallsAsChosen UpdatesEnd ModalEnds
CHECK_DEADLOCK FALSE
