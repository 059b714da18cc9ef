\* force-sync pressed twice: two overlapping restarts, no fallback.
CONSTANTS
  None = None
  Procs = {p1, p2}
  Kids = {k1, k2, k3}
  Callers = {c1, c2}
  AutoProtocol = FALSE
  Ops = {"restart"}
SPECIFICATION Spec
INVARIANT OneSupervisor
CHECK_DEADLOCK FALSE
