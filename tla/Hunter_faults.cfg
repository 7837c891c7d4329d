SPECIFICATION Spec
CONSTANTS
  IPs = {i1, i2}
  Requests = {r1, r2}
  CbThreshold = 2
  MaxCycles = 1
  Faults = {"ssh", "answer", "database", "redis", "router_reboot", "restart"}
  None = None
SYMMETRY Symmetry
INVARIANT ListInvariant
INVARIANT ListMatchesFirewall
INVARIANT HistoryKept
