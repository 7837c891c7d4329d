SPECIFICATION FairSpec
CONSTANTS
  MaxCalls = 2
  MaxPids = 2
  Modes = {"quick", "rescan", "replace"}
  MaxUnlinks = 1
  MaxHappens = 3
  Happens = {"scan", "cancel", "crash", "restart", "slow", "edit", "delete", "archive", "fail"}
  Hosts = {h}
  Creds = {k1}
  Batch = 1
 
PROPERTY SlotFreed
