SPECIFICATION Spec
CONSTANTS
  Nodes = {n1}
  Routers = {}
  SnmpNodes = {}
  Threshold = 1
  OfflinePersist = 2
  DegradedPersist = 1
  PreventiveTicks = 0
  PreventiveMax = 1
  Cooldown = 1
  FailRetry = 1
  Calls = {"manual"}
  Faults = {}
  Expiring = {}
  None = None
PROPERTY AutoRebootRespectsManual
