----------------------------- MODULE HealthReports -----------------------------
(***************************************************************************)
(* What the server reports of itself on its own account                    *)
(* (shomer_guardian_server_health.py): a heartbeat at fixed hours, stored  *)
(* for the daily summary, and a notice when the service restarts over and  *)
(* over.  Both keep their marks in keys of Redis that expire; the hour of  *)
(* the heartbeat has a copy in SQLite that does not.                       *)
(*                                                                         *)
(* Abstracted: the hours of a day are the few of a short day; the ticks of *)
(* an hour are one or more, between any two of which the service may       *)
(* restart; the metrics the heartbeat carries.                             *)
(***************************************************************************)
EXTENDS Naturals, FiniteSets

CONSTANTS
  Day,           \* hours of a day
  HeartbeatHours,\* guardian.heartbeat_hours
  RestartsToTell,\* guardian.reinicios_para_avisar
  MaxLost,       \* bound: faults of a behaviour
  NoHour

ASSUME HourAssumption == HeartbeatHours \subseteq 0..(Day - 1) /\ NoHour \notin Nat
ASSUME DayAssumption  == {Day, RestartsToTell} \subseteq Nat \ {0} /\ MaxLost \in Nat

VARIABLES
  hour,        \* of the day
  hourTicks,   \* the loop has ticked in this hour
  redisHour,   \* shomer:heartbeat_last_hour, of 3 700 s
  diskHour,    \* its copy in failsafe_state
  reported,    \* history: a heartbeat was stored in this hour
  startupSent, \* shomer:startup_sent exists
  restarts,    \* shomer:reinicios_ultima_hora, 0 when absent
  countEnds,   \* the hour of the count is over, and the count about to go
  lasting,     \* the count was left without an expiry
  told,        \* history: restarts that were told since startupSent was set
  lost         \* faults so far

heartbeatVars == <<hour, hourTicks, redisHour, diskHour, reported>>
startVars     == <<startupSent, restarts, countEnds, lasting, told>>
reportVars    == <<heartbeatVars, startVars, lost>>

Lose == lost < MaxLost /\ lost' = lost + 1
-----------------------------------------------------------------------------
(* The key of an hour outlives the hour by little.                         *)
HourPasses ==
  /\ hourTicks
  /\ hour' = (hour + 1) % Day /\ hourTicks' = FALSE /\ reported' = FALSE
  /\ redisHour' = (IF redisHour = hour THEN redisHour ELSE NoHour)
  /\ UNCHANGED <<diskHour, startVars, lost>>

HourKeyExpires ==
  /\ redisHour # NoHour /\ redisHour # hour /\ redisHour' = NoHour
  /\ UNCHANGED <<hour, hourTicks, diskHour, reported, startVars, lost>>

LastHour == IF redisHour # NoHour THEN redisHour ELSE diskHour

(* Mutant of DiskMark: the row of an hour is written once.                 *)
DiskMark_Once == diskHour' = IF diskHour = NoHour THEN hour ELSE diskHour

DiskMark == diskHour' = hour

(* _heartbeat_report_tick_sync: the hour is marked, then the heartbeat is  *)
(* stored; a restart between the two loses it.                             *)
HeartbeatTick ==
  /\ hourTicks' = TRUE
  /\ IF hour \notin HeartbeatHours \/ LastHour = hour
       THEN UNCHANGED <<redisHour, diskHour, reported, lost>>
       ELSE /\ redisHour' = hour
            /\ \/ DiskMark /\ reported' = TRUE /\ UNCHANGED lost
               \/ Lose /\ UNCHANGED diskHour /\ reported' = TRUE
               \/ Lose /\ (DiskMark \/ UNCHANGED diskHour) /\ UNCHANGED reported
  /\ UNCHANGED <<hour, startVars>>

(* Redis does not answer at this tick.                                     *)
HeartbeatMissed ==
  /\ Lose /\ hourTicks' = TRUE
  /\ UNCHANGED <<hour, redisHour, diskHour, reported, startVars>>

Tells(n) == told' = IF n >= RestartsToTell THEN n ELSE told

(* _send_startup_message_once, at each start of the loop that finds no key *)
(* of an earlier one.  The count may not be incremented, or be left        *)
(* without its expiry, and is then taken for one.  Bound: the count.       *)
ServiceStarts ==
  /\ ~startupSent /\ startupSent' = TRUE
  /\ \/ /\ restarts < RestartsToTell /\ restarts' = restarts + 1 /\ Tells(restarts + 1)
        /\ UNCHANGED <<lasting, lost>>
     \/ Lose /\ Tells(1) /\ UNCHANGED <<restarts, lasting>>
     \/ Lose /\ Tells(1) /\ restarts = 0 /\ restarts' = 1 /\ lasting' = TRUE
  /\ UNCHANGED <<heartbeatVars, countEnds>>

(* Both keys live 3 600 s; the count was set a moment after the other, and *)
(* an increment does not prolong it.                                       *)
StartKeyExpires ==
  /\ startupSent /\ ~countEnds
  /\ startupSent' = FALSE /\ countEnds' = (restarts > 0 /\ ~lasting) /\ told' = 0
  /\ UNCHANGED <<heartbeatVars, restarts, lasting, lost>>

CountExpires ==
  /\ countEnds /\ countEnds' = FALSE /\ restarts' = 0
  /\ UNCHANGED <<heartbeatVars, startupSent, lasting, told, lost>>

RedisEmptied ==
  /\ Lose /\ redisHour' = NoHour /\ startupSent' = FALSE /\ restarts' = 0
  /\ countEnds' = FALSE /\ lasting' = FALSE /\ told' = 0
  /\ UNCHANGED <<hour, hourTicks, diskHour, reported>>
-----------------------------------------------------------------------------
ReportsInit ==
  /\ hour = 0 /\ hourTicks = FALSE /\ redisHour = NoHour /\ diskHour = NoHour
  /\ reported = FALSE
  /\ startupSent = FALSE /\ restarts = 0
  /\ countEnds = FALSE /\ lasting = FALSE /\ told = 0 /\ lost = 0

ReportsNext ==
  \/ HourPasses \/ HourKeyExpires \/ HeartbeatTick \/ HeartbeatMissed
  \/ ServiceStarts \/ StartKeyExpires \/ CountExpires \/ RedisEmptied

ReportsSpec == ReportsInit /\ [][ReportsNext]_reportVars
-----------------------------------------------------------------------------
ReportsTypeOK ==
  /\ hour \in 0..(Day - 1) /\ {hourTicks, reported, startupSent, countEnds, lasting} \subseteq BOOLEAN
  /\ {redisHour, diskHour} \subseteq (0..(Day - 1)) \cup {NoHour}
  /\ restarts \in 0..RestartsToTell /\ told \in 0..RestartsToTell /\ lost \in 0..MaxLost

(* A start adds to the count once an hour, and the count lives an hour: it *)
(* passes two, and the default of three restarts is told, only when the    *)
(* count lost its expiry (_send_startup_message_once).                     *)
RestartsUntold == told > 2 => lasting

(* Where there are several hours, each gets its heartbeat every day but    *)
(* for the days a fault falls in: the copy of the hour never expires, and  *)
(* stands in for the key of Redis that did ("la prueba de vida no se       *)
(* pierde", shomer_guardian_server_health.py:440).                         *)
HeartbeatKept ==
  Cardinality(HeartbeatHours) > 1 =>
    \A h \in HeartbeatHours : []<>(hour = h /\ reported)
=============================================================================
