SPECIFICATION MCSpec
CONSTANTS
    MaxTime = 3
    MaxPassword = 3
    MaxTokens = 2
    StepSeconds = 2
    MaxAsked = 2
    Mounts = {1, 2}
    MaxDeaths = 2
    Codes = {1}
    Requests = {1, 2}
    MaxLost = 1
    MaxRestarts = 1
    Drawers = {d}
    d = d
    Convs = 2
    Urls = {u}
    u = u
    HistoryLimit = 4
    MaxTurns = 2
INVARIANT AccessProved
PROPERTIES LiveSessionKept GetsIn StreamComesBack WaitsEnd
CHECK_DEADLOCK FALSE
