----------------------------- MODULE ServerHealth -----------------------------
(***************************************************************************)
(* The server watches itself (shomer_guardian_server_health.py): the alert *)
(* for its own way to the internet, whose state lives in Redis and again   *)
(* in SQLite so as to survive either.  Its reports are HealthReports.      *)
(*                                                                         *)
(* The loop of the alert is one thread: its steps lie between two writes   *)
(* of one store or another, and a restart, an error of Redis or a write of *)
(* SQLite that is lost may come at each.  A lost write of SQLite is        *)
(* swallowed; an error of Redis ends the tick.                             *)
(*                                                                         *)
(* Abstracted: the destinations are the quorum's verdict; time passes      *)
(* between ticks and not within one; a stamp is its age, which stops at    *)
(* the threshold it is compared with; the metrics, which only the panel    *)
(* reads.                                                                  *)
(***************************************************************************)
EXTENDS Naturals, FiniteSets

CONSTANTS
  Destinations, \* guardian.wan_check_ips
  MinFail,      \* guardian.wan_min_fail
  FailSec,      \* guardian.wan_fail_sec, in units of time
  AlertPause,   \* guardian.wan_cooldown_sec, in units of time
  MaxCuts,      \* bound: faults of a behaviour
  NoStamp

ASSUME QuorumAssumption == MinFail \in 1..Cardinality(Destinations)
ASSUME PauseAssumption  == {FailSec, AlertPause} \subseteq Nat \ {0} /\ MaxCuts \in Nat
ASSUME StampAssumption  == NoStamp \notin Nat

VARIABLES
  unreachable, \* destinations that do not answer
  at,          \* step of the tick, "idle" between ticks
  redisFail,   \* age of shomer:wan_fail_start
  diskFail,    \* its copy in failsafe_state
  redisAlert,  \* age of shomer:wan_last_alert, which expires
  diskAlert,   \* its copy in failsafe_state
  outage,      \* history: age of the present outage as the ticks saw it
  owed,        \* history: an outage was announced and its end was not
  dirty,       \* history: a fault left the marks of an outage half written
  cuts         \* faults so far

wanStamps  == <<redisFail, diskFail, redisAlert, diskAlert>>
wanHistory == <<outage, owed, dirty>>
healthVars == <<unreachable, at, wanStamps, wanHistory, cuts>>

Down == Cardinality(unreachable) >= MinFail

(* r.get(key) or _failsafe_state_get(key).                                 *)
Either(redis, disk) == IF redis # NoStamp THEN redis ELSE disk

FailStart == Either(redisFail, diskFail)
LastAlert == Either(redisAlert, diskAlert)

(* A fault of which the marks of this tick may suffer.                     *)
Cut == cuts < MaxCuts /\ cuts' = cuts + 1 /\ dirty' = TRUE

-----------------------------------------------------------------------------
Toggle(d) ==
  /\ unreachable' = IF d \in unreachable THEN unreachable \ {d} ELSE unreachable \cup {d}
  /\ UNCHANGED <<at, wanStamps, wanHistory, cuts>>

Aged(age, top) == IF age = NoStamp \/ age = top THEN age ELSE age + 1

(* A unit of time: the loop sleeps.                                        *)
LoopSleeps ==
  /\ at = "idle"
  /\ redisFail' = Aged(redisFail, FailSec) /\ diskFail' = Aged(diskFail, FailSec)
  /\ outage' = Aged(outage, FailSec)
  /\ redisAlert' = IF redisAlert # NoStamp /\ redisAlert + 1 >= AlertPause THEN NoStamp
                                                               ELSE Aged(redisAlert, AlertPause)
  /\ diskAlert' = Aged(diskAlert, AlertPause)
  /\ at' = "due"
  /\ UNCHANGED <<unreachable, owed, dirty, cuts>>

(* The quorum is asked once; the rest of the tick goes by the answer.  A   *)
(* tick without Redis ends before the failsafe.                            *)
CheckQuorum ==
  /\ at = "due"
  /\ \/ /\ at' = IF Down THEN "down" ELSE "up"
        /\ outage' = IF Down THEN (IF outage = NoStamp THEN 0 ELSE outage) ELSE NoStamp
        /\ UNCHANGED <<dirty, cuts>>
     \/ /\ at' = "idle" /\ cuts < MaxCuts /\ cuts' = cuts + 1 /\ dirty' = TRUE
        /\ outage' = IF Down THEN (IF outage = NoStamp THEN 0 ELSE outage) ELSE NoStamp
  /\ UNCHANGED <<unreachable, wanStamps, owed>>

StillWaits(start) == start < FailSec

Paused(alert) == alert # NoStamp /\ alert < AlertPause

(* Down: the stopwatch starts, or the threshold is waited for, or the last *)
(* alert is too near.                                                      *)
SeesDown ==
  /\ at = "down"
  /\ IF FailStart = NoStamp
       THEN redisFail' = 0 /\ at' = "start_copy"
       ELSE /\ at' = IF StillWaits(FailStart) \/ Paused(LastAlert) THEN "idle" ELSE "alert"
            /\ UNCHANGED redisFail
  /\ UNCHANGED <<unreachable, diskFail, redisAlert, diskAlert, wanHistory, cuts>>

StartCopied ==
  /\ at = "start_copy" /\ at' = "idle"
  /\ \/ diskFail' = 0 /\ UNCHANGED <<dirty, cuts>>
     \/ Cut /\ UNCHANGED diskFail
  /\ UNCHANGED <<unreachable, redisFail, redisAlert, diskAlert, outage, owed>>

(* The alert is marked in Redis, then in SQLite, then sent.                *)
AlertMarked ==
  /\ at = "alert" /\ at' = "alert_copy" /\ redisAlert' = 0
  /\ UNCHANGED <<unreachable, redisFail, diskFail, diskAlert, wanHistory, cuts>>

AlertCopied ==
  /\ at = "alert_copy" /\ at' = "send"
  /\ \/ diskAlert' = 0 /\ UNCHANGED <<dirty, cuts>>
     \/ Cut /\ UNCHANGED diskAlert
  /\ UNCHANGED <<unreachable, redisFail, diskFail, redisAlert, outage, owed>>

AlertSent ==
  /\ at = "send" /\ at' = "idle" /\ owed' = TRUE
  /\ UNCHANGED <<unreachable, wanStamps, outage, dirty, cuts>>

(* Up again: the stopwatch is cleared in both stores, then the end of the  *)
(* outage is told if an alert was, then the alert is cleared.              *)
SeesUp ==
  /\ at = "up"
  /\ IF FailStart = NoStamp THEN at' = "idle" /\ UNCHANGED redisFail
                            ELSE at' = "clear_copy" /\ redisFail' = NoStamp
  /\ UNCHANGED <<unreachable, diskFail, redisAlert, diskAlert, wanHistory, cuts>>

(* Mutant of ClearCopied: the copy in SQLite stays.                        *)
ClearCopied_Stays ==
  /\ at = "clear_copy" /\ at' = IF LastAlert = NoStamp THEN "idle" ELSE "restored"
  /\ UNCHANGED <<unreachable, wanStamps, wanHistory, cuts>>

ClearCopied ==
  /\ at = "clear_copy" /\ at' = IF LastAlert = NoStamp THEN "idle" ELSE "restored"
  /\ \/ diskFail' = NoStamp /\ UNCHANGED <<dirty, cuts>>
     \/ Cut /\ UNCHANGED diskFail
  /\ UNCHANGED <<unreachable, redisFail, redisAlert, diskAlert, outage, owed>>

RestoredSent ==
  /\ at = "restored" /\ at' = "clear_alert"
  /\ owed' = FALSE /\ redisAlert' = NoStamp
  /\ UNCHANGED <<unreachable, redisFail, diskFail, diskAlert, outage, dirty, cuts>>

AlertCleared ==
  /\ at = "clear_alert" /\ at' = "idle"
  /\ \/ diskAlert' = NoStamp /\ UNCHANGED <<dirty, cuts>>
     \/ Cut /\ UNCHANGED diskAlert
  /\ UNCHANGED <<unreachable, redisFail, diskFail, redisAlert, outage, owed>>

(* An error of Redis, or a restart of the service, within a tick.          *)
TickCut ==
  /\ at \notin {"idle", "due"} /\ at' = "idle" /\ Cut
  /\ UNCHANGED <<unreachable, wanStamps, outage, owed>>

(* Redis comes back empty.                                                 *)
RedisLost ==
  /\ Cut /\ redisFail' = NoStamp /\ redisAlert' = NoStamp
  /\ UNCHANGED <<unreachable, at, diskFail, diskAlert, outage, owed>>
-----------------------------------------------------------------------------
HealthInit ==
  /\ unreachable = {} /\ at = "idle"
  /\ redisFail = NoStamp /\ diskFail = NoStamp /\ redisAlert = NoStamp /\ diskAlert = NoStamp
  /\ outage = NoStamp /\ owed = FALSE /\ dirty = FALSE /\ cuts = 0

HealthTick ==
  \/ LoopSleeps \/ CheckQuorum
  \/ SeesDown \/ StartCopied \/ AlertMarked \/ AlertCopied \/ AlertSent
  \/ SeesUp \/ ClearCopied \/ RestoredSent \/ AlertCleared

HealthNext == HealthTick \/ TickCut \/ RedisLost \/ \E d \in Destinations : Toggle(d)

HealthSpec == HealthInit /\ [][HealthNext]_healthVars
-----------------------------------------------------------------------------
HealthTypeOK ==
  /\ unreachable \subseteq Destinations
  /\ at \in {"idle", "due", "down", "start_copy", "alert", "alert_copy", "send",
             "up", "clear_copy", "restored", "clear_alert"}
  /\ {redisFail, diskFail, outage} \subseteq (0..FailSec) \cup {NoStamp}
  /\ redisAlert \in (0..(AlertPause - 1)) \cup {NoStamp}
  /\ diskAlert \in (0..AlertPause) \cup {NoStamp}
  /\ {owed, dirty} \subseteq BOOLEAN /\ cuts \in 0..MaxCuts

(* Unless a fault left the marks half written, the internet is announced   *)
(* as lost only when every tick of the last FailSec saw it lost, and as    *)
(* restored only after that ("recuperación si sube tras caída",            *)
(* shomer_guardian_server_health.py:17): two stores are cleared one after  *)
(* the other, and what either keeps of an outage would count for the next. *)
WanNoticesEarned ==
  [][/\ (~owed /\ owed') => outage = FailSec \/ dirty
     /\ (at = "restored" /\ at' # "restored") => owed \/ dirty]_healthVars

(* Internet that stays lost is announced, and again after each pause,      *)
(* whatever a fault left in either store; its return, when it stays, is    *)
(* announced unless a fault left the marks half written.                   *)
WanOutageAnnounced ==
  /\ <>[]Down => []<>(at = "send")
  /\ []<>(Down \/ ~owed \/ dirty)
=============================================================================
