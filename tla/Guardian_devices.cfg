SPECIFICATION MCSpec
CONSTANTS
  Instances = {"given", "copies"}
  Nodes = {n1}
  Routers = {n1}
  SnmpNodes = {}
  Threshold = 1
  OfflinePersist = 2
  DegradedPersist = 1
  PreventiveTicks = 1
  PreventiveMax = 1
  Cooldown = 1
  FailRetry = 1
  Calls = {"devices", "node_maintenance"}
  Faults = {"all_ips_read", "blip", "wan", "probe"}
  Expiring = {"preventive_count", "notified", "escalated"}
  None = None
INVARIANT CycleInvariant
 
PROPERTY CleanupSparesActive
