SPECIFICATION MCSpec
CONSTANTS
  Instances = {"given", "live"}
  Nodes = {n1}
  Routers = {}
  SnmpNodes = {}
  Threshold = 1
  OfflinePersist = 2
  DegradedPersist = 1
  PreventiveTicks = 2
  PreventiveMax = 1
  Cooldown = 1
  FailRetry = 1
  Calls = {"manual", "maintenance"}
  Faults = {"restart", "redis_write"}
  Expiring = {}
  None = None
INVARIANT RebootMatchesPanel
INVARIANT MaintenanceHonoured
PROPERTY CooldownSeenByRead
PROPERTY LiveFailsafeFires
PROPERTY LiveRecoveryReached
PROPERTY LivePreventiveEnds
PROPERTY LiveOrphanStatusCleared
