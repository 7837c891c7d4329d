SPECIFICATION FairSpec
CONSTANTS
  IPs = {edge, ap}
  APs = {edge, ap}
  Gateways = {edge}
  Gap = 1
  Settle = 1
  Window = 2
  RepeatWindow = 2
  RepeatMin = 2
  MinAps = 1
  MinDevices = 2
  MassDevices = 3
  MassAps = 1
  Retention = 4
  Aggressive = 3
  Day = 3
  MaxTime = 4
  MaxRows = 5
  MaxFaults = 1
  Faults = {"wan", "maintenance", "row_lost", "restart", "mark_fails", "prune"}
PROPERTY ReportsOnce
PROPERTY ReportSent
CHECK_DEADLOCK FALSE
