SPECIFICATION HostSpec
CONSTANTS
  Workers = {w1, w2}
  NoWorker = NoWorker
  Notices = {m1, m2, untagged}
  Allowed = {m1, m2}
  Bot = bot
  NoNotice = NoNotice
  MaxFaults = 2
  Faults = {"lock", "crash", "bot", "queue", "telegram", "answer", "database"}
  Destinations = {d1, d2, d3}
  MinFail = 2
  FailSec = 2
  AlertPause = 3
  MaxCuts = 2
  NoStamp = NoStamp
  Day = 4
  HeartbeatHours = {0, 1, 3}
  RestartsToTell = 3
  MaxLost = 2
  NoHour = NoHour
  Requests = {q1, q2}
  NoUse = NoUse
  MaxFailures = 2
  BurstWindow = 3
  BurstFailures = 3
  MaxLines = 2
  Things = {usb, deploy}
  Trusted = {deploy}
  NicWindow = 2
  MaxDrops = 3
  MaxSamples = 3
  GuardianRows = {1}
  InfraRows = {2}
  IdleRows = {3}
  Addresses = {1, 2, 3, 4}
  Nowhere = Nowhere
  NoMac = NoMac
  HomeOf <- Home
  MaxMoves = 3
  Aps = {ap}
  Others = {switch}
  Displays = {tv}
  MaxNocFaults = 1
 
PROPERTY NoticesDelivered
PROPERTY WanNotices
PROPERTY HeartbeatsKept
PROPERTY CollapseTold
 
PROPERTY FoundAgain
 
CHECK_DEADLOCK FALSE
