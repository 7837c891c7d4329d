SPECIFICATION MCSpec
CONSTANTS
  Sources = {crit, high, other}
  Critical = {crit}
  Ignored = {other}
  Panels = {}
  Poller = poller
  Limit = 2
  PanelLimit = 1
  MaxSeen = 3
  RecurrenceMin = 2
  Window = 1
  DedupTtl = 1
  MaxAlerts = 4
  Happens = {"rotate", "redis"}
INVARIANT MemoryInvariant
 
PROPERTY HandledOnce
PROPERTY CriticalBlocked
