\* Two requests that start or restart (a restart whose start is refused ends as a
\* plain stop), two supervisor objects, one spare child, the fallback allowed.
CONSTANTS
  None = None
  Procs = {p1, p2}
  Kids = {k1, k2, k3}
  Callers = {c1, c2}
  AutoProtocol = TRUE
  Ops = {"start", "restart"}
SPECIFICATION Spec
INVARIANTS NoLeak SupervisorsAgree
PROPERTIES StopsAndRespawns
CHECK_DEADLOCK FALSE
