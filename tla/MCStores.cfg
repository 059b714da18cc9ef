SPECIFICATION MCSpec
CONSTANTS
    Rows = {1, 2}
    MaxUuid = 3
    MaxRequests = 3
    MaxPurges = 1
    Callers = {p, q}
    Hosts = {1, 2}
    Origins = {1, 2}
    Ports = {1, 2, 3}
    Zones = {za, zb}
    za = za
    zb = zb
    MaxIds = 4
    MaxSecrets = 3
    MaxKeys = 2
    Managers = {p, q}
    MaxLines = 2
    MaxCommits = 1
    MaxDeaths = 3
    Drawers = {d}
    d = d
    Convs = 2
    Urls = {"u1", "u2"}
    Saves = {1, 2}
    Clicks = {p, q}
    p = p
    q = q
    HistoryLimit = 4
    MaxTurns = 2
    MaxRestarts = 1
SYMMETRY Symmetry
INVARIANTS NoPortBurnt KeyTableTrue DataSound AsAllowed
PROPERTIES TunnelsAsAsked LiveZoneKept
CHECK_DEADLOCK FALSE
