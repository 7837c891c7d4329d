SPECIFICATION FairSpec
CONSTANTS
  IPs = {a, b}
  Profiles = {"network_gear", "ap_guardian"}
  Stock = {a}
  StockProfiles = {"network_gear", "printer"}
  Mass = 2
  Cap = 1
  Backoff = 1
  Pulse = TRUE
  MaxHappens = 3
  Happens = {"down", "loss", "gateway", "flicker", "guardian", "add", "remove", "edit", "database", "redis", "flush", "restart"}
INVARIANT EventsMatch
 
 
PROPERTY ShownAgain
CHECK_DEADLOCK FALSE
