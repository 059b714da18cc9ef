SPECIFICATION FairSpec
CONSTANTS
    Host = {h1, h2}
    h1 = h1
    h2 = h2
    Tunnel = {t1, t2}
    t2 = t2
    t1 = t1
    Zone = {z1, z2}
    z1 = z1
    z2 = z2
    Rev = {1, 2}
    Request = {r1, r2}
    r1 = r1
    r2 = r2
    Kinds = {"create", "edit", "toggle", "redeploy", "delete"}
    Installed = {{h1}}
    Input <- MCInput
    Faults = {"dns", "disk", "status"}
    MaxOps = 2
INVARIANTS ServedAsRow RecordsTrue
PROPERTIES RequestsEnd
CHECK_DEADLOCK FALSE
