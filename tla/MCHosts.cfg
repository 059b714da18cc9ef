SPECIFICATION MCSpec
CONSTANTS
    Hosts = {h1, h2}
    h1 = h1
    h2 = h2
    Jobs = {x, y}
    x = x
    y = y
    MaxRequests = 3
    MaxOrders = 2
    MaxRestarts = 1
    Attempts = 2
    Origins <- MCOrigins
    MaxAsked = 2
    MaxChanges = 1
    Admins = {x, y}
    Visitors = {x, y}
    MaxSaves = 2
    MaxActive = 2
    MaxStep = 2
    Names = {"web", "game"}
    Zones = {7}
    EndsWith <- MCEndsWith
    Cloudflared = {1}
    Playit = {2}
    Entries <- MCEntries
    Callers = {x, y}
    FileLength = 2
    MaxHosts = 2
    Tabs = {x, y}
    EditedHosts = {site}
    site = site
    Clicks = {k}
    k = k
    Tunnels = {t1, t2}
    t1 = t1
    t2 = t2
    MaxPuts = 2
SYMMETRY Symmetry
INVARIANTS EdgeSound DiagnosisTrue ImportSound
PROPERTIES GatewayHolds EditSound
CHECK_DEADLOCK FALSE
