SPECIFICATION JobsSpec
CONSTANTS
  Devices = {nas, pms}
  Ssh = {nas}
  Planned = {nas, pms}
  Workers = {w1, w2}
  Leader = w1
  Slots = {s1, s2}
  Minutes = 2
  Days = 2
  LocalKeep = 1
  CloudKeep = 1
  PanelKeep = 1
  SyncMinute = 1
  MaxMade = 2
  DrillSlots = {x1, x2}
  DrillLeader = w2
  DrillDay = 1
  DrillMinute = 0
  MaxHappens = 1
  Happens = {"now", "all", "edit", "delete", "fail", "cloud", "restart", "late", "sync", "panel", "forget", "drill", "clock"}
  AuditWorkers = {v1, v2}
  PortKeys = {p1, p2}
  PatchKeys = {p3}
  MaxScans = 2
  MaxFindings = 4
  MaxChanges = 2
  Users = {1, 2, 3, 4}
  Names = {"root", "admin", "ana"}
  Servers = {u1, u2}
  MaxSessions = 3
  MaxEdits = 1
INVARIANT JobsTypeOK
INVARIANT BackupsSound
 
PROPERTY EveryDay
PROPERTY PruneKeepsACopy
 
PROPERTY SeenIsPending
CHECK_DEADLOCK FALSE
SYMMETRY Symmetry
