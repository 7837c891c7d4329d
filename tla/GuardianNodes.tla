---------------------------- MODULE GuardianNodes ----------------------------
(***************************************************************************)
(* The Guardian node poller (app/api/shomer_guardian_nodes.py) and the API *)
(* handlers that share Redis and the `devices` table with it.              *)
(*                                                                         *)
(* A poll cycle is a pipeline of phases that run in worker threads:        *)
(*   READ     devices, thresholds and ONE snapshot of the Redis keys;      *)
(*   PROBE    ping / SSH / SNMP of every node (seconds);                   *)
(*   BUILD    the outcome of every node, from the snapshot alone;          *)
(*   PERSIST  status_events (SQLite), infra_nodes and devices.status, the  *)
(*            Redis pipeline, and at last the reboots, one after another.  *)
(* Heartbeats, manual reboots, maintenance switches and the device CRUD of *)
(* the panel interleave with every phase.  The model keeps the snapshot    *)
(* and the live keys apart, because that distance is where the cycle can   *)
(* go wrong.                                                               *)
(*                                                                         *)
(* Data abstractions.  Timestamps are kept as ages in clock units that     *)
(* saturate at the longest delay they are compared with ("absent" and "too *)
(* old to matter" are one value); counters saturate at the largest bound   *)
(* they are compared with; a probe is the label classify_health gives.     *)
(***************************************************************************)
EXTENDS Naturals

CONSTANTS
  Nodes,            (* IP addresses a row of `devices` may have            *)
  Routers,          (* device_type router/gateway, probed over SSH         *)
  SnmpNodes,        (* reboot_method = 'snmp'                              *)
  Threshold,        (* guardian.fail_threshold                             *)
  OfflinePersist,   (* guardian.offline_persist_ticks                      *)
  DegradedPersist,  (* guardian.degraded_persist_ticks                     *)
  PreventiveTicks,  (* guardian.degraded_preventive_reboot_ticks, 0 = off  *)
  PreventiveMax,    (* degraded_preventive_reboot_max_attempts             *)
  Cooldown,         (* guardian.cooldown_sec, in clock units               *)
  FailRetry,        (* guardian.fail_retry_sec, in clock units             *)
  Calls,            (* the API calls that occur: a subset of CallNames     *)
  Faults,           (* the faults that occur: a subset of FaultNames       *)
  Expiring,         (* the TTL keys that may expire: subset of TtlNames    *)
  None              (* no node                                             *)

CallNames  == {"manual", "heartbeat", "reset", "maintenance", "node_maintenance", "devices"}
FaultNames == {"devices_read", "all_ips_read", "probe", "blip", "wan",
               "sqlite", "mirror", "redis_write", "restart"}
TtlNames   == {"degraded_streak", "offline_streak", "notified", "preventive_count", "escalated"}

ASSUME GuardianAssumption ==
  /\ Routers \subseteq Nodes /\ SnmpNodes \subseteq Nodes
  /\ Routers \cap SnmpNodes = {}
  /\ {Threshold, OfflinePersist, DegradedPersist, PreventiveMax, Cooldown, FailRetry} \subseteq Nat \ {0}
  /\ PreventiveTicks \in Nat
  /\ Calls \subseteq CallNames /\ Faults \subseteq FaultNames /\ Expiring \subseteq TtlNames
  /\ None \notin Nodes

Statuses == {"unknown", "online", "degraded", "no-internet", "offline"}
Labels   == (Statuses \ {"unknown"}) \cup {"error"}   (* "error": the probe raised *)

(* The degraded streak is compared with two bounds; it saturates at the    *)
(* larger one.                                                             *)
StreakCap == IF PreventiveTicks > DegradedPersist THEN PreventiveTicks ELSE DegradedPersist

AtMost(n, cap) == IF n < cap THEN n ELSE cap

(***************************************************************************)
(* The Redis keys of one node: one pipeline of _batch_read_redis_state     *)
(* reads them all.  A deleted key reads as its field of NoKeys.            *)
(***************************************************************************)
RedisKeys ==
  [status: Statuses,                   (* status:{ip}                      *)
   failures: 0..Threshold,             (* failures:{ip}                    *)
   streak: 0..StreakCap,               (* degraded_streak:{ip}             *)
   offlineStreak: 0..OfflinePersist,   (* offline_streak:{ip}              *)
   notified: BOOLEAN,                  (* degraded_notified:{ip}           *)
   data: BOOLEAN,                      (* node:{ip}, the heartbeat's hash  *)
   nodeMaint: BOOLEAN,                 (* node_maintenance:{ip}            *)
   lastReboot: 0..Cooldown,            (* age of last_reboot:{ip}          *)
   lastAttempt: 0..FailRetry,          (* age of last_reboot_attempt:{ip}  *)
   preventiveCount: 0..(PreventiveMax + 1), (* preventive_reboot_count:{ip} *)
   escalated: BOOLEAN]                 (* preventive_reboot_escalated:{ip} *)

NoKeys ==
  [status |-> "unknown", failures |-> 0, streak |-> 0, offlineStreak |-> 0,
   notified |-> FALSE, data |-> FALSE, nodeMaint |-> FALSE, lastReboot |-> Cooldown,
   lastAttempt |-> FailRetry, preventiveCount |-> 0, escalated |-> FALSE]

VARIABLES
  catalog,      (* IPs with a row in `devices`                             *)
  active,       (* those with is_active = 1                                *)
  redis,        (* [Nodes -> RedisKeys]                                    *)
  maintenance,  (* the global kill-switch key, shomer_maintenance          *)
  infra,        (* infra_nodes: status, or "absent" when there is no row   *)
  panel,        (* devices.status                                          *)
  history,      (* status of the last status_events row, "none" if none    *)
  phase,        (* of the cycle: a member of Phases                        *)
  devices,      (* READ: the active devices of this cycle                  *)
  allIps,       (* READ: the IPs with a row, for the cleanup               *)
  snap,         (* READ: [Nodes -> RedisKeys]                              *)
  snapMaint,    (* READ: the kill-switch                                   *)
  label,        (* BUILD: [Nodes -> Labels]                                *)
  blip,         (* BUILD: host_network_blip                                *)
  wanDown,      (* READ: wan_snapshot = "down"                             *)
  queue,        (* PERSIST: nodes whose reboot is still to run             *)
  rebooting,    (* PERSIST: the node being rebooted, or None               *)
  stampAge,     (* age of now_ts, taken at BUILD                           *)
  heartbeat,    (* nodes with a heartbeat whose reboot is running          *)
  heartbeatAge, (* age of that heartbeat's now_ts                          *)
  manual,       (* nodes with a manual reboot running                      *)
  freshBoot,    (* history variable: nodes whose last_reboot was written   *)
                (* after this cycle's snapshot                             *)
  freshRow      (* history variable: nodes that became active after this   *)
                (* cycle read its devices and before its cleanup           *)

(* What the cycle does next.                                               *)
Phases == {"idle", "devices", "cleanup", "probe", "events", "mirror", "panel",
           "pipeline", "reboots"}

cycleVars == <<phase, devices, allIps, snap, snapMaint, label, blip, wanDown, queue, rebooting, stampAge>>
apiVars   == <<heartbeat, heartbeatAge, manual>>
tableVars == <<catalog, active, infra, panel>>
vars == <<cycleVars, apiVars, tableVars, redis, maintenance, history, freshBoot, freshRow>>

TypeOK ==
  /\ catalog \subseteq Nodes /\ active \subseteq catalog
  /\ redis \in [Nodes -> RedisKeys]
  /\ maintenance \in BOOLEAN
  /\ infra \in [Nodes -> Statuses \cup {"absent"}]
  /\ panel \in [Nodes -> Statuses]
  /\ history \in [Nodes -> Statuses \cup {"none"}]
  /\ phase \in Phases
  /\ devices \subseteq Nodes /\ allIps \subseteq Nodes
  /\ snap \in [Nodes -> RedisKeys]
  /\ {snapMaint, blip, wanDown} \subseteq BOOLEAN
  /\ label \in [Nodes -> Labels]
  /\ queue \subseteq Nodes
  /\ rebooting \in Nodes \cup {None}
  /\ stampAge \in 0..Cooldown
  /\ heartbeat \subseteq Nodes
  /\ heartbeatAge \in [Nodes -> 0..Cooldown]
  /\ manual \subseteq Nodes
  /\ freshBoot \subseteq Nodes /\ freshRow \subseteq Nodes

(***************************************************************************)
(* BUILD: _build_node_outcome.  Everything below is a function of the      *)
(* snapshot, the label and the blip flag.                                  *)
(***************************************************************************)

(* What classify_health / classify_snmp_health can answer: no-internet     *)
(* needs an SSH or SNMP result, and during a blip neither probe is made.   *)
ProbeLabels(n, inBlip) ==
  {"online", "degraded", "offline"}
    \cup (IF n \in Routers \cup SnmpNodes /\ ~inBlip THEN {"no-internet"} ELSE {})
    \cup (IF "probe" \in Faults /\ ~inBlip THEN {"error"} ELSE {})

(* compute_blip_skip_ips: a fresh offline is not processed during a blip.  *)
Skipped == {n \in devices : blip /\ label[n] = "offline" /\ snap[n].status # "offline"}
Outcomes == {n \in devices \ Skipped : label[n] # "error"}

NewStreak(n)        == AtMost(snap[n].streak + 1, StreakCap)
NewOfflineStreak(n) == AtMost(snap[n].offlineStreak + 1, OfflinePersist)
NewFailures(n)      == AtMost(snap[n].failures + 1, Threshold)

DegradedConfirmed(n) == NewStreak(n) >= DegradedPersist
OfflineConfirmed(n)  == NewOfflineStreak(n) >= OfflinePersist

(* Mutant: the cap off by one.                                             *)
Exhausted_OffByOne(n) == snap[n].preventiveCount > PreventiveMax

(* No failure is counted and no reboot decided under maintenance or blip.  *)
Suppressed(n) == snapMaint \/ snap[n].nodeMaint \/ blip

(* Mutant: last_reboot is written but never compared.                      *)
CooldownOk_Ignored(n) == snap[n].lastReboot >= 0

CooldownOk(n) == snap[n].lastReboot >= Cooldown
RetryOk(n)    == snap[n].lastAttempt >= FailRetry

(* Mutant: the preventive branch forgets the maintenance checks.           *)
PreventiveDue_NoMaintenance(n) ==
  /\ label[n] = "degraded" /\ DegradedConfirmed(n)
  /\ PreventiveTicks > 0 /\ NewStreak(n) >= PreventiveTicks
  /\ ~blip /\ ~(n \in Routers /\ wanDown)

(* The preventive branch: long degraded, not suppressed, and for a router  *)
(* not explained by the WAN being down.                                    *)
PreventiveDue(n) ==
  /\ label[n] = "degraded"
  /\ DegradedConfirmed(n)
  /\ PreventiveTicks > 0
  /\ NewStreak(n) >= PreventiveTicks
  /\ ~Suppressed(n)
  /\ ~(n \in Routers /\ wanDown)

Exhausted(n) == snap[n].preventiveCount >= PreventiveMax

PreventiveReboot(n) ==
  PreventiveDue(n) /\ ~Exhausted(n) /\ CooldownOk(n) /\ RetryOk(n)

Escalates(n) == PreventiveDue(n) /\ Exhausted(n) /\ ~snap[n].escalated

(* Mutant: the code before reboot_confirmed_ok: threshold alone decides.   *)
FailsafeReboot_Unconfirmed(n) ==
  /\ label[n] \in {"offline", "no-internet"}
  /\ ~Suppressed(n) /\ NewFailures(n) >= Threshold
  /\ CooldownOk(n) /\ RetryOk(n)

(* The failsafe branch: threshold reached on a confirmed offline, or on a  *)
(* no-internet, which needs no confirmation.                               *)
FailsafeReboot(n) ==
  /\ label[n] \in {"offline", "no-internet"}
  /\ ~Suppressed(n)
  /\ NewFailures(n) >= Threshold
  /\ label[n] = "offline" => OfflineConfirmed(n)
  /\ CooldownOk(n) /\ RetryOk(n)

(* The nodes this cycle will reboot.                                       *)
Decided == {n \in Outcomes : PreventiveReboot(n) \/ FailsafeReboot(n)}

(* The status the tick settles on; an unconfirmed state keeps the former.  *)
NewStatus(n) ==
  IF \/ label[n] = "degraded" /\ ~DegradedConfirmed(n)
     \/ label[n] = "offline" /\ ~OfflineConfirmed(n)
  THEN snap[n].status
  ELSE label[n]

(* Mutant: the mirror shows the label of the tick, confirmed or not.       *)
TickStatus_Unconfirmed(n) ==
  IF n \in Skipped THEN snap[n].status
  ELSE IF label[n] = "error" THEN "unknown" ELSE label[n]

TickStatus(n) ==
  IF n \in Skipped THEN snap[n].status
  ELSE IF label[n] = "error" THEN "unknown" ELSE NewStatus(n)

HasEvent(n) == n \in Outcomes /\ ~blip /\ NewStatus(n) # snap[n].status

(* The Redis pipeline of a node: the operations of its outcome applied to  *)
(* the keys k as they are when the pipeline runs.                          *)
(* Mutant: the streaks are cleared and the failures forgotten.             *)
OnlineOps_KeepsFailures(k) ==
  [k EXCEPT !.status = "online", !.streak = 0, !.offlineStreak = 0,
            !.preventiveCount = 0, !.escalated = FALSE]

OnlineOps(k) ==
  [k EXCEPT !.status = "online", !.failures = 0, !.streak = 0, !.offlineStreak = 0,
            !.preventiveCount = 0, !.escalated = FALSE]

DegradedOps(n, k) ==
  [k EXCEPT !.failures  = 0,
            !.streak    = NewStreak(n),
            !.status    = IF DegradedConfirmed(n) THEN "degraded" ELSE @,
            !.notified  = @ \/ (DegradedConfirmed(n) /\ ~blip /\ ~snap[n].notified),
            !.escalated = @ \/ Escalates(n)]

(* Mutant: the wrong streak is deleted.                                    *)
OfflineOps_WrongStreak(n, k) ==
  [k EXCEPT !.offlineStreak = 0, !.streak = NewOfflineStreak(n) - 1,
            !.status        = IF OfflineConfirmed(n) THEN "offline" ELSE @,
            !.failures      = IF Suppressed(n) THEN @ ELSE NewFailures(n)]

OfflineOps(n, k) ==
  [k EXCEPT !.offlineStreak = NewOfflineStreak(n),
            !.streak        = 0,
            !.status        = IF OfflineConfirmed(n) THEN "offline" ELSE @,
            !.failures      = IF Suppressed(n) THEN @ ELSE NewFailures(n)]

NoInternetOps(n, k) ==
  [k EXCEPT !.status = "no-internet", !.streak = 0, !.offlineStreak = 0,
            !.failures = IF Suppressed(n) THEN @ ELSE NewFailures(n)]

RedisOps(n, k) ==
  CASE label[n] = "online"      -> OnlineOps(k)
    [] label[n] = "degraded"    -> DegradedOps(n, k)
    [] label[n] = "offline"     -> OfflineOps(n, k)
    [] label[n] = "no-internet" -> NoInternetOps(n, k)

(***************************************************************************)
(* The cycle: _poller_tick.                                                *)
(***************************************************************************)
Init ==
  /\ catalog = Nodes /\ active = Nodes
  /\ redis = [n \in Nodes |-> NoKeys]
  /\ maintenance = FALSE
  /\ infra = [n \in Nodes |-> "absent"]
  /\ panel = [n \in Nodes |-> "unknown"]
  /\ history = [n \in Nodes |-> "none"]
  /\ phase = "idle" /\ devices = {} /\ allIps = {} /\ snap = redis /\ snapMaint = FALSE
  /\ label = [n \in Nodes |-> "online"] /\ blip = FALSE /\ wanDown = FALSE
  /\ queue = {} /\ rebooting = None /\ stampAge = 0
  /\ heartbeat = {} /\ heartbeatAge = [n \in Nodes |-> 0] /\ manual = {}
  /\ freshBoot = {} /\ freshRow = {}

(* The cycle's data dies with it, whether it ends well or not.             *)
CycleOver ==
  /\ phase' = "idle" /\ devices' = {} /\ allIps' = {} /\ snap' = [n \in Nodes |-> NoKeys]
  /\ snapMaint' = FALSE /\ label' = [n \in Nodes |-> "online"]
  /\ blip' = FALSE /\ wanDown' = FALSE
  /\ queue' = {} /\ rebooting' = None /\ stampAge' = 0
  /\ freshBoot' = {} /\ freshRow' = {}

(* READ 1: _get_devices_for_poll; a locked database reads as no device.    *)
ReadDevices(fails) ==
  /\ phase = "idle"
  /\ fails => "devices_read" \in Faults
  /\ phase' = "devices"
  /\ devices' = IF fails THEN {} ELSE active
  /\ UNCHANGED <<allIps, snap, snapMaint, label, blip, wanDown, queue, rebooting, stampAge>>
  /\ UNCHANGED <<apiVars, tableVars, redis, maintenance, history, freshBoot, freshRow>>

(* Mutant: no fallback when the list of all IPs cannot be read.            *)
ReadAllIps_NoFallback(fails) ==
  /\ phase = "devices"
  /\ fails => "all_ips_read" \in Faults
  /\ phase' = "cleanup"
  /\ allIps' = IF fails THEN {} ELSE catalog
  /\ UNCHANGED <<devices, snap, snapMaint, label, blip, wanDown, queue, rebooting, stampAge>>
  /\ UNCHANGED <<apiVars, tableVars, redis, maintenance, history, freshBoot, freshRow>>

(* READ 2: the IPs of every row; if they cannot be read, the devices stand *)
(* for them.                                                               *)
ReadAllIps(fails) ==
  /\ phase = "devices"
  /\ fails => "all_ips_read" \in Faults
  /\ phase' = "cleanup"
  /\ allIps' = IF fails THEN devices ELSE catalog
  /\ UNCHANGED <<devices, snap, snapMaint, label, blip, wanDown, queue, rebooting, stampAge>>
  /\ UNCHANGED <<apiVars, tableVars, redis, maintenance, history, freshBoot, freshRow>>

(* Mutant: the cleanup before M1, which looked for one of the two patterns.*)
Orphan_DataOnly(n) == n \notin allIps /\ redis[n].data

(* _cleanup_orphan_guardian_keys finds an IP by its status or node key and *)
(* then deletes every key of it.                                           *)
Orphan(n) == n \notin allIps /\ (redis[n].status # "unknown" \/ redis[n].data)

(* READ 3: the cleanup and the snapshot of Redis.  Without devices the     *)
(* tick ends here, after the cleanup.                                      *)
Snapshot(wanNow) ==
  LET cleaned == [n \in Nodes |-> IF Orphan(n) THEN NoKeys ELSE redis[n]]
  IN /\ phase = "cleanup"
     /\ wanNow => "wan" \in Faults
     /\ redis' = cleaned
     /\ \/ devices = {} /\ CycleOver
        \/ /\ devices # {}
           /\ phase' = "probe" /\ allIps' = {} /\ freshRow' = {} /\ freshBoot' = {}
           /\ snap' = [n \in Nodes |-> IF n \in devices THEN cleaned[n] ELSE NoKeys]
           /\ snapMaint' = maintenance /\ wanDown' = wanNow
           /\ UNCHANGED <<devices, label, blip, queue, rebooting, stampAge>>
     /\ UNCHANGED <<apiVars, tableVars, maintenance, history>>

(* PROBE and BUILD: the probes answer, the blip is evaluated (it takes at  *)
(* least one node offline), now_ts is taken, the outcomes are computed.    *)
Build ==
  /\ phase = "probe"
  /\ \E inBlip \in BOOLEAN, lab \in [Nodes -> Labels] :
       /\ inBlip => "blip" \in Faults /\ \E n \in devices : lab[n] = "offline"
       /\ \A n \in Nodes : IF n \in devices THEN lab[n] \in ProbeLabels(n, inBlip)
                                           ELSE lab[n] = "online"
       /\ blip' = inBlip /\ label' = lab
  /\ phase' = "events" /\ stampAge' = 0
  /\ UNCHANGED <<devices, allIps, snap, snapMaint, wanDown, queue, rebooting>>
  /\ UNCHANGED <<apiVars, tableVars, redis, maintenance, history, freshBoot, freshRow>>

(* PERSIST 1: the status_events rows of every node, one transaction.       *)
PersistEvents ==
  /\ phase = "events"
  /\ phase' = "mirror"
  /\ history' = [n \in Nodes |-> IF HasEvent(n) THEN NewStatus(n) ELSE history[n]]
  /\ UNCHANGED <<devices, allIps, snap, snapMaint, label, blip, wanDown, queue, rebooting, stampAge>>
  /\ UNCHANGED <<apiVars, tableVars, redis, maintenance, freshBoot, freshRow>>

(* PERSIST 2: _update_infra_nodes writes the rows of the cycle and deletes *)
(* the others; it gives up silently on a locked database.                  *)
UpdateInfra(fails) ==
  /\ phase = "mirror"
  /\ fails => "mirror" \in Faults
  /\ phase' = "panel"
  /\ infra' = IF fails THEN infra
              ELSE [n \in Nodes |-> IF n \in devices THEN TickStatus(n) ELSE "absent"]
  /\ UNCHANGED <<devices, allIps, snap, snapMaint, label, blip, wanDown, queue, rebooting, stampAge>>
  /\ UNCHANGED <<apiVars, catalog, active, panel, redis, maintenance, history, freshBoot, freshRow>>

(* PERSIST 3: _sync_devices_status_from_infra_nodes copies the rows of the *)
(* active access points, or gives up as silently.                          *)
SyncPanel(fails) ==
  /\ phase = "panel"
  /\ fails => "mirror" \in Faults
  /\ phase' = "pipeline"
  /\ panel' = [n \in Nodes |-> IF ~fails /\ infra[n] # "absent" /\ n \in active \ Routers
                               THEN infra[n] ELSE panel[n]]
  /\ UNCHANGED <<devices, allIps, snap, snapMaint, label, blip, wanDown, queue, rebooting, stampAge>>
  /\ UNCHANGED <<apiVars, catalog, active, infra, redis, maintenance, history, freshBoot, freshRow>>

(* One pipeline carries the operations of every outcome.                   *)
Piped == [n \in Nodes |-> IF n \in Outcomes THEN RedisOps(n, redis[n]) ELSE redis[n]]

(* PERSIST 4: the Redis pipeline, then the reboots are due.                *)
PersistPipeline ==
  /\ phase = "pipeline"
  /\ phase' = "reboots"
  /\ redis' = Piped
  /\ queue' = Decided
  /\ UNCHANGED <<devices, allIps, snap, snapMaint, label, blip, wanDown, rebooting, stampAge>>
  /\ UNCHANGED <<apiVars, tableVars, maintenance, history, freshBoot, freshRow>>

(* Mutant: a preventive attempt is not counted.                            *)
StartReboot_NotCounted(n) ==
  /\ phase = "reboots" /\ rebooting = None /\ n \in queue
  /\ rebooting' = n
  /\ UNCHANGED <<phase, devices, allIps, snap, snapMaint, label, blip, wanDown, queue, stampAge>>
  /\ UNCHANGED <<apiVars, tableVars, redis, maintenance, history, freshBoot, freshRow>>

(* A Redis command that fails in a try block is skipped without a trace.   *)
MayLose(written) == ~written => "redis_write" \in Faults

(* PERSIST 5: the reboots, one after another.  A preventive one is counted *)
(* before it runs; _run_ssh_reboot blocks for up to half a minute.         *)
StartReboot(n) ==
  /\ phase = "reboots" /\ rebooting = None /\ n \in queue
  /\ rebooting' = n
  /\ \E counted \in BOOLEAN :
       /\ MayLose(counted)
       /\ redis' = [redis EXCEPT ![n].preventiveCount =
             IF PreventiveReboot(n) /\ counted THEN AtMost(@ + 1, PreventiveMax + 1) ELSE @]
  /\ UNCHANGED <<phase, devices, allIps, snap, snapMaint, label, blip, wanDown, queue, stampAge>>
  /\ UNCHANGED <<apiVars, tableVars, maintenance, history, freshBoot, freshRow>>

(* last_reboot and last_reboot_attempt are stamped with BUILD's now_ts. If *)
(* last_reboot cannot be written the whole tick fails: PersistFails.       *)
FinishReboot(n, ok) ==
  /\ rebooting = n /\ n \in queue
  /\ \E written \in BOOLEAN :
       /\ MayLose(written)
       /\ redis' = [redis EXCEPT
            ![n].lastReboot  = IF ok THEN stampAge ELSE @,
            ![n].lastAttempt = IF ~written THEN @ ELSE IF ok THEN FailRetry
                               ELSE AtMost(stampAge, FailRetry)]
  /\ rebooting' = None /\ queue' = queue \ {n}
  /\ freshBoot' = IF ok THEN freshBoot \cup {n} ELSE freshBoot
  /\ UNCHANGED <<phase, devices, allIps, snap, snapMaint, label, blip, wanDown, stampAge>>
  /\ UNCHANGED <<apiVars, tableVars, maintenance, history, freshRow>>

EndCycle ==
  /\ phase = "reboots" /\ queue = {}
  /\ CycleOver
  /\ UNCHANGED <<apiVars, tableVars, redis, maintenance, history>>

(* _persist_guardian_tick raised: SQLite before the commit, Redis in the   *)
(* pipeline (whose answer may be lost after it ran), or Redis when a       *)
(* reboot that worked is to be stamped.  What was written stays; the tick  *)
(* logs the error and ends.                                                *)
PersistFails ==
  /\ \/ /\ phase = "events" /\ "sqlite" \in Faults
        /\ UNCHANGED redis
     \/ /\ phase = "pipeline" /\ "redis_write" \in Faults
        /\ redis' \in {redis, Piped}
     \/ /\ rebooting # None /\ "redis_write" \in Faults
        /\ UNCHANGED redis
  /\ CycleOver
  /\ UNCHANGED <<apiVars, tableVars, maintenance, history>>

(* The service is restarted: what was in memory is gone, Redis and SQLite  *)
(* stay.  A reboot under way may or may not have reached its node.         *)
Restart ==
  /\ "restart" \in Faults
  /\ CycleOver
  /\ heartbeat' = {} /\ heartbeatAge' = [n \in Nodes |-> 0] /\ manual' = {}
  /\ UNCHANGED <<tableVars, redis, maintenance, history>>

(***************************************************************************)
(* The API handlers.  Each runs up to its reboot in one turn of the event  *)
(* loop; the reboot runs in a thread, so its handler has a second action.  *)
(***************************************************************************)
SetKeys(n, k) == redis' = [redis EXCEPT ![n] = k]

(* A last_reboot stamp written by anyone after the snapshot of a cycle.    *)
BootRecorded(n) ==
  freshBoot' = IF phase \in {"idle", "devices", "cleanup"} THEN {} ELSE freshBoot \cup {n}

(* A row becomes active while a cycle reads.                               *)
RowActive(n) ==
  freshRow' = IF phase \in {"devices", "cleanup"} THEN freshRow \cup {n} ELSE {}

unchangedByApi == <<cycleVars, tableVars, maintenance, history, freshRow>>

(* POST /heartbeat with success = true.                                    *)
HeartbeatOk(n) ==
  /\ "heartbeat" \in Calls
  /\ \E withData \in BOOLEAN :
       SetKeys(n, [redis[n] EXCEPT !.failures = 0, !.data = @ \/ withData])
  /\ UNCHANGED <<unchangedByApi, apiVars, freshBoot>>

(* POST /heartbeat with success = false: counts, then checks maintenance,  *)
(* the threshold and both waits on the live keys, and reboots.             *)
HeartbeatFails(n) ==
  LET count == AtMost(redis[n].failures + 1, Threshold)
      due   == /\ ~maintenance /\ ~redis[n].nodeMaint
               /\ count >= Threshold
               /\ redis[n].lastReboot >= Cooldown
               /\ redis[n].lastAttempt >= FailRetry
  IN /\ "heartbeat" \in Calls
     /\ \E withData \in BOOLEAN :
          SetKeys(n, [redis[n] EXCEPT !.failures = count, !.data = @ \/ withData])
     /\ due => n \notin heartbeat
     /\ heartbeat' = IF due THEN heartbeat \cup {n} ELSE heartbeat
     /\ UNCHANGED <<unchangedByApi, heartbeatAge, manual, freshBoot>>

(* The reboot of a heartbeat ended; the stamp is the one taken before it.  *)
(* A stamp that Redis refuses is lost.                                     *)
HeartbeatReboot(n, ok) ==
  /\ n \in heartbeat
  /\ \E written \in BOOLEAN :
       /\ MayLose(written)
       /\ SetKeys(n, IF ~written THEN redis[n] ELSE [redis[n] EXCEPT
            !.lastReboot  = IF ok THEN heartbeatAge[n] ELSE @,
            !.lastAttempt = IF ok THEN FailRetry ELSE AtMost(heartbeatAge[n], FailRetry)])
       /\ IF ok /\ written THEN BootRecorded(n) ELSE UNCHANGED freshBoot
  /\ heartbeat' = heartbeat \ {n}
  /\ heartbeatAge' = [heartbeatAge EXCEPT ![n] = 0]
  /\ UNCHANGED <<unchangedByApi, manual>>

(* POST /reset_failures/{ip}                                               *)
ResetFailures(n) ==
  /\ "reset" \in Calls
  /\ SetKeys(n, [redis[n] EXCEPT !.failures = 0])
  /\ UNCHANGED <<unchangedByApi, apiVars, freshBoot>>

(* POST /reboot/{ip}: refused under the kill-switch.                       *)
ManualReboot(n) ==
  /\ "manual" \in Calls
  /\ ~maintenance /\ n \notin manual
  /\ manual' = manual \cup {n}
  /\ UNCHANGED <<unchangedByApi, redis, heartbeat, heartbeatAge, freshBoot>>

ManualDone(n, ok) ==
  /\ n \in manual
  /\ manual' = manual \ {n}
  /\ \/ /\ ok
        /\ SetKeys(n, [redis[n] EXCEPT !.lastReboot = 0, !.failures = 0])
        /\ BootRecorded(n)
     \/ /\ ok => "redis_write" \in Faults
        /\ UNCHANGED <<redis, freshBoot>>
  /\ UNCHANGED <<unchangedByApi, heartbeat, heartbeatAge>>

(* POST /maintenance/on and /maintenance/off                               *)
SetMaintenance(on) ==
  /\ "maintenance" \in Calls
  /\ maintenance' = on
  /\ UNCHANGED <<cycleVars, apiVars, tableVars, redis, history, freshBoot, freshRow>>

(* POST /node_maintenance/{ip}/on and /off; the end of the minutes given   *)
(* to "on" is an "off" nobody calls.                                       *)
SetNodeMaintenance(n, on) ==
  /\ "node_maintenance" \in Calls
  /\ SetKeys(n, [redis[n] EXCEPT !.nodeMaint = on])
  /\ UNCHANGED <<unchangedByApi, apiVars, freshBoot>>

(* _clean_redis_for_ip: two of the prefixes are not in its list.           *)
Cleaned(k) ==
  [NoKeys EXCEPT !.preventiveCount = k.preventiveCount, !.escalated = k.escalated]

(* POST /api/router-devices: a new row, or an update of the row; Redis is  *)
(* not touched, not even when the row becomes inactive.                    *)
SaveDevice(n, isActive) ==
  /\ "devices" \in Calls
  /\ catalog' = catalog \cup {n}
  /\ active' = IF isActive THEN active \cup {n} ELSE active \ {n}
  /\ IF isActive THEN RowActive(n) ELSE UNCHANGED freshRow
  /\ UNCHANGED <<cycleVars, apiVars, redis, maintenance, infra, panel, history, freshBoot>>

(* DELETE /api/router-devices/{id}; the row's status goes with it.         *)
DeleteDevice(n) ==
  /\ "devices" \in Calls /\ n \in catalog
  /\ catalog' = catalog \ {n} /\ active' = active \ {n}
  /\ infra' = [infra EXCEPT ![n] = "absent"]
  /\ panel' = [panel EXCEPT ![n] = "unknown"]
  /\ SetKeys(n, Cleaned(redis[n]))
  /\ UNCHANGED <<cycleVars, apiVars, maintenance, history, freshBoot, freshRow>>

(* POST .../by-ip/{ip}/deactivate, and DELETE /nodes/{ip} which does the   *)
(* same to an IP without a row as well.                                    *)
Deactivate(n) ==
  /\ "devices" \in Calls
  /\ active' = active \ {n}
  /\ infra' = [infra EXCEPT ![n] = "absent"]
  /\ SetKeys(n, Cleaned(redis[n]))
  /\ UNCHANGED <<cycleVars, apiVars, catalog, panel, maintenance, history, freshBoot, freshRow>>

(* POST .../by-ip/{ip}/activate                                            *)
Activate(n) ==
  /\ "devices" \in Calls /\ n \in catalog
  /\ active' = active \cup {n}
  /\ UNCHANGED <<cycleVars, apiVars, redis, catalog, infra, panel, maintenance, history, freshBoot>>
  /\ RowActive(n)

(* POST /promote/{ip}: a discovered IP becomes a monitored device.         *)
Promote(n) ==
  /\ "devices" \in Calls
  /\ catalog' = catalog \cup {n} /\ active' = active \cup {n}
  /\ infra' = [infra EXCEPT ![n] = IF @ = "absent" THEN "unknown" ELSE @]
  /\ UNCHANGED <<cycleVars, apiVars, redis, panel, maintenance, history, freshBoot>>
  /\ RowActive(n)

(***************************************************************************)
(* Time: every age grows by one unit and stops at its cap.  The ages of    *)
(* the snapshot stop at BUILD, where they are used for the last time.      *)
(***************************************************************************)
Older(k) == [k EXCEPT !.lastReboot  = AtMost(@ + 1, Cooldown),
                      !.lastAttempt = AtMost(@ + 1, FailRetry)]

Tick ==
  /\ redis' = [n \in Nodes |-> Older(redis[n])]
  /\ snap' = IF phase = "probe" THEN [n \in Nodes |-> Older(snap[n])] ELSE snap
  /\ stampAge' = IF phase \in {"idle", "devices", "cleanup", "probe"} THEN 0 ELSE AtMost(stampAge + 1, Cooldown)
  /\ heartbeatAge' = [n \in Nodes |-> IF n \in heartbeat
                                       THEN AtMost(heartbeatAge[n] + 1, Cooldown) ELSE 0]
  /\ UNCHANGED <<phase, devices, allIps, snapMaint, label, blip, wanDown, queue, rebooting>>
  /\ UNCHANGED <<heartbeat, manual, tableVars, maintenance, history, freshBoot, freshRow>>

(* A TTL ran out.  The TTLs are minutes to hours against a cycle of ten    *)
(* seconds; Expiring names those that may run out within a behaviour.      *)
Expire(n) ==
  /\ \/ /\ "degraded_streak" \in Expiring
        /\ SetKeys(n, [redis[n] EXCEPT !.streak = 0])
     \/ /\ "offline_streak" \in Expiring
        /\ SetKeys(n, [redis[n] EXCEPT !.offlineStreak = 0])
     \/ /\ "notified" \in Expiring
        /\ SetKeys(n, [redis[n] EXCEPT !.notified = FALSE])
     \/ /\ "preventive_count" \in Expiring
        /\ SetKeys(n, [redis[n] EXCEPT !.preventiveCount = 0])
     \/ /\ "escalated" \in Expiring
        /\ SetKeys(n, [redis[n] EXCEPT !.escalated = FALSE])
  /\ UNCHANGED <<unchangedByApi, apiVars, freshBoot>>

CycleStep ==
  \/ \E f \in BOOLEAN : ReadDevices(f) \/ ReadAllIps(f) \/ Snapshot(f)
  \/ Build \/ PersistEvents
  \/ \E fails \in BOOLEAN : UpdateInfra(fails) \/ SyncPanel(fails)
  \/ PersistPipeline
  \/ \E n \in Nodes : StartReboot(n) \/ \E ok \in BOOLEAN : FinishReboot(n, ok)
  \/ EndCycle \/ PersistFails

ApiStep ==
  \/ \E on \in BOOLEAN : SetMaintenance(on)
  \/ \E n \in Nodes :
       \/ HeartbeatOk(n) \/ HeartbeatFails(n)
       \/ ResetFailures(n) \/ ManualReboot(n)
       \/ DeleteDevice(n) \/ Deactivate(n) \/ Activate(n) \/ Promote(n)
       \/ \E on \in BOOLEAN :
            \/ HeartbeatReboot(n, on) \/ ManualDone(n, on)
            \/ SetNodeMaintenance(n, on) \/ SaveDevice(n, on)

Next == CycleStep \/ ApiStep \/ Restart \/ Tick \/ \E n \in Nodes : Expire(n)

Spec == Init /\ [][Next]_vars

(* The poller loop restarts every cycle and each phase is bounded by its   *)
(* timeouts (ping, SSH, busy_timeout), so a cycle step that can happen     *)
(* happens; the clock goes on.  Nothing is fair about API calls, faults or *)
(* the expiry of keys.                                                     *)
FairSpec == Spec /\ WF_vars(CycleStep) /\ WF_vars(Tick)

(***************************************************************************)
(* Safety.                                                                 *)
(***************************************************************************)

(* A node is rebooted only in a state the panel has already confirmed: the *)
(* failsafe on offline or no-internet, the preventive reboot on degraded.  *)
(* "unknown" is a node taken off the panel while its cycle was under way.  *)
(* (_build_node_outcome, reboot_confirmed_ok: threshold and persist ticks  *)
(* are configured apart, and the reboot must wait for both.)               *)
RebootMatchesPanel ==
  rebooting # None =>
    redis[rebooting].status \in
      {"unknown"} \cup (IF PreventiveReboot(rebooting) THEN {"degraded"}
                                                     ELSE {"offline", "no-internet"})

(* Whatever happens between the snapshot and the increment, the count of   *)
(* preventive reboots never passes the cap (H1: a node must not be         *)
(* rebooted for ever).                                                     *)
PreventiveCap == \A n \in Nodes : redis[n].preventiveCount <= PreventiveMax

(* A cycle that READ the kill-switch, or the node's own maintenance, on    *)
(* reboots nothing by either of the two branches that decide reboots.      *)
MaintenanceHonoured ==
  rebooting # None => ~snapMaint /\ ~snap[rebooting].nodeMaint

(* READ's cleanup of orphan keys never touches a node that has been        *)
(* monitored since before the cycle began, whichever of the reads failed:  *)
(* its cooldown, its counters and its maintenance survive.                 *)
CleanupSparesActive ==
  [][(\E wan \in BOOLEAN : Snapshot(wan)) =>
       \A n \in active \ freshRow : redis'[n] = redis[n]]_vars

(* A reboot that breaks the cooldown of the live last_reboot key can only  *)
(* be due to a reboot recorded after this cycle's READ.                    *)
CooldownSeenByRead ==
  [][\A n \in Nodes : StartReboot(n) =>
       redis[n].lastReboot >= Cooldown \/ n \in freshBoot]_vars

(* Between cycles the panel's SQLite copy of an access point's status is   *)
(* the status in Redis, although the two are computed and written apart.   *)
PanelAgrees ==
  phase = "idle" => \A n \in active \ Routers : panel[n] = redis[n].status

(* Between cycles the last status_events row of a node is its status: no   *)
(* transition is missing from the history and none was made up.            *)
HistoryAgrees ==
  phase = "idle" =>
    \A n \in Nodes : redis[n].status # "unknown" => history[n] = redis[n].status

(***************************************************************************)
(* The inductive invariant behind the safety properties: what links the    *)
(* snapshot a cycle decides on with the keys it acts on.                   *)
(***************************************************************************)
AfterSnapshot == {"probe", "events", "mirror", "panel", "pipeline", "reboots"}

(* Reboots are run only in the last phase, on what BUILD decided.          *)
QueueIsDecided ==
  /\ rebooting # None => phase = "reboots" /\ rebooting \in queue
  /\ queue # {} => phase = "reboots"
  /\ queue \subseteq Decided

(* The pipeline wrote the status that justifies each reboot.               *)
QueueIsConfirmed ==
  \A n \in queue :
    redis[n].status \in
      {"unknown"} \cup (IF PreventiveReboot(n) THEN {"degraded"} ELSE {"offline", "no-internet"})

(* Until its reboot starts, a node's live count has not passed the count   *)
(* the decision was made on.                                               *)
CountsFromSnapshot ==
  \A n \in devices :
    phase \in AfterSnapshot \ {"reboots"} \/ (n \in queue /\ rebooting # n) =>
      redis[n].preventiveCount <= snap[n].preventiveCount

(* A live last_reboot is at least as old as its snapshot, unless somebody  *)
(* wrote it since.                                                         *)
StampsFromSnapshot ==
  phase \in AfterSnapshot =>
    \A n \in devices \ freshBoot : redis[n].lastReboot >= snap[n].lastReboot

(* The nodes the cleanup will spare hold all that were active throughout,  *)
(* provided that one of the two reads works.                               *)
ReadsCoverActive ==
  /\ phase = "devices" /\ "devices_read" \notin Faults => active \ freshRow \subseteq devices
  /\ phase = "cleanup" /\ ~({"devices_read", "all_ips_read"} \subseteq Faults)
       => active \ freshRow \subseteq allIps

CycleInvariant ==
  QueueIsDecided /\ QueueIsConfirmed /\ PreventiveCap /\ CountsFromSnapshot
    /\ StampsFromSnapshot /\ ReadsCoverActive

(***************************************************************************)
(* Liveness.                                                               *)
(***************************************************************************)

(* From some time on every cycle polls n, outside maintenance, and finds l.*)
SettlesAt(n, l) ==
  <>[](/\ n \in active /\ ~maintenance /\ ~redis[n].nodeMaint
       /\ phase \notin {"idle", "devices", "cleanup", "probe"} => label[n] = l /\ ~blip /\ ~Suppressed(n))

(* A node that stays offline is rebooted again and again, whatever the     *)
(* order of its streak, its failure count and the two waits.               *)
FailsafeFires ==
  \A n \in Nodes : SettlesAt(n, "offline") => []<>(rebooting = n)

(* A node that stays online ends up online with clean counters.            *)
RecoveryReached ==
  \A n \in Nodes : SettlesAt(n, "online") =>
    <>[](/\ redis[n].status = "online" /\ redis[n].failures = 0
         /\ redis[n].preventiveCount = 0 /\ ~redis[n].escalated)

(* A node that stays degraded is not rebooted for ever, and somebody is    *)
(* told: the count reaches the cap and the case is escalated.              *)
PreventiveEnds ==
  \A n \in Nodes : SettlesAt(n, "degraded") =>
    <>[](rebooting # n) /\ (PreventiveTicks > 0 => <>(redis[n].escalated))

(* The status key of a deleted device does not outlive it, although a      *)
(* cycle under way may write it again after the delete.                    *)
OrphanStatusCleared ==
  \A n \in Nodes :
    n \notin catalog /\ redis[n].status # "unknown"
      ~> n \in catalog \/ redis[n].status = "unknown"
=============================================================================
