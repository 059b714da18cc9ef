SPECIFICATION FairSpec
CONSTANTS
    Submitter = {a, b, c}
    a = a
    b = b
    c = c
    Seed = Seed
    Nobody = Nobody
    TrxMayFail = TRUE
    MaxDeaths = 1
INVARIANTS OneAccount DoneIsDone
PROPERTIES OneOwnerSpec Answered
CHECK_DEADLOCK FALSE
