SPECIFICATION Spec
CONSTANTS
    Submitter = {a}
    a = a
    Seed = Seed
    Nobody = Nobody
    TrxMayFail = FALSE
    MaxDeaths = 0
PROPERTY FreshRestoreAccepted
CHECK_DEADLOCK FALSE
