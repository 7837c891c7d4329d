---------------------------- MODULE Inframonitor ----------------------------
(***************************************************************************)
(* The poller of the rest of the network (shomer_inframonitor_poller.py    *)
(* and infra_monitor_profiles.py), the requests of its panel               *)
(* (shomer_inframonitor.py), the detector of mass outages it asks          *)
(* (shomer_network_blip.py) and the pulse it updates (shomer_infra_pulse). *)
(*                                                                         *)
(* Two loops share the tables: the fast one copies Guardian's access       *)
(* points and their states, reads the devices and their last statuses,     *)
(* pings, and writes what changed; the slow one polls SNMP and writes its  *)
(* own columns, and reads and rewrites the Redis entry the panel shows.    *)
(*                                                                         *)
(* Abstracted: a device that is down answers nothing; latencies, ports,    *)
(* MAC addresses, printers' paper and the averages of the pulse, of which  *)
(* only whether a latency was ever measured is kept; the community of SNMP *)
(* is set for the profiles that use it; the texts and the Telegram notices *)
(* of the poller, off by default.                                          *)
(***************************************************************************)
EXTENDS Naturals, FiniteSets

CONSTANTS
  IPs,
  Profiles,    \* profiles the panel gives a device
  Stock,       \* devices there may be already
  StockProfiles,  \* their profiles
  Mass,        \* offline devices that make a mass outage
  Cap,         \* BLIP_MASS_MAX_SEC, in cycles
  Backoff,     \* SNMP_FAIL_BACKOFF_THRESHOLD
  Pulse,       \* infra.pulse.enabled
  MaxHappens,  \* bound: requests, faults and changes of the network
  Happens      \* what may happen, a subset of Happenings

Happenings ==
  {"down", "loss", "gateway", "flicker", "guardian", "add", "remove", "edit",
   "database", "redis", "flush", "restart"}

ASSUME ProfileAssumption ==
  Profiles \cup StockProfiles \subseteq {"generic", "endpoint_tcp", "network_gear", "printer", "ap_guardian"}
ASSUME StockAssumption == Stock \subseteq IPs
ASSUME CountAssumption == {Mass, Cap, Backoff, MaxHappens} \subseteq Nat /\ Mass > 0
ASSUME PulseAssumption == Pulse \in BOOLEAN
ASSUME HappensAssumption == Happens \subseteq Happenings

VARIABLES
  down, lossy, gwBad,  \* the network: devices, and the gateway
  gAps, gStatus,       \* Guardian's access points and their state
  profile, active,     \* infra_devices
  status, lastEvent,   \* infra_status.status, last row of infra_events
  snmp,                \* infra_status.snmp_data: answered, when, failures
  data,                \* infra:{ip}:data of Redis, its status
  apCache,             \* _sync_ap_cache: none, or one set of access points
  streak,              \* _mass_blip_since: cycles of mass outage
  measured,            \* devices with an average latency in infra_pulse
  fast, slow,          \* the two loops
  mirrored,            \* devices that were once an access point's mirror
  missed,              \* access points whose copy failed, or was edited
  happened

netVars   == <<down, lossy, gwBad, gAps, gStatus>>
tableVars == <<profile, active, status, lastEvent, snmp, measured>>
loopVars  == <<fast, slow, apCache, streak>>
ghostVars == <<mirrored, missed>>
vars == <<netVars, tableVars, data, loopVars, ghostVars, happened>>

Statuses == {"online", "degraded", "offline", "unknown"}
Live     == {"generic", "endpoint_tcp", "network_gear", "printer"}
Snmp     == {"network_gear", "printer"}
IdleFast == [at |-> "idle", rows |-> [i \in IPs |-> "out"], prev |-> status, skip |-> {},
             seen |-> [i \in IPs |-> "unknown"]]
IdleSlow == [at |-> "idle", res |-> [i \in IPs |-> "out"], read |-> [i \in IPs |-> "gone"]]

Happen(kind) == kind \in Happens /\ happened < MaxHappens /\ happened' = happened + 1
Unless(kind) == Happen(kind) \/ UNCHANGED happened
-----------------------------------------------------------------------------
(* The network and Guardian change.                                        *)
NetworkChanges ==
  /\ \/ /\ Happen("down") /\ \E i \in IPs : down' = (down \ {i}) \cup ({i} \ down)
        /\ UNCHANGED <<lossy, gwBad, gAps, gStatus>>
     \/ /\ Happen("loss") /\ \E i \in IPs : lossy' = (lossy \ {i}) \cup ({i} \ lossy)
        /\ UNCHANGED <<down, gwBad, gAps, gStatus>>
     \/ Happen("gateway") /\ gwBad' = ~gwBad /\ UNCHANGED <<down, lossy, gAps, gStatus>>
     \/ /\ Happen("guardian") /\ \E i \in IPs : gAps' = (gAps \ {i}) \cup ({i} \ gAps)
        /\ UNCHANGED <<down, lossy, gwBad, gStatus>>
     \/ /\ Happen("guardian")
        /\ \E i \in gAps, s \in {"online", "no-internet"} :
             gStatus' = [gStatus EXCEPT ![i] = s]
        /\ UNCHANGED <<down, lossy, gwBad, gAps>>
  /\ UNCHANGED <<tableVars, data, loopVars, ghostVars>>

(* add_device: an address that has a row, even an inactive one, is refused *)
Add(i) == \E p \in Profiles :
  /\ Happen("add") /\ profile[i] = "none"
  /\ profile' = [profile EXCEPT ![i] = p] /\ active' = active \cup {i}
  /\ UNCHANGED <<netVars, status, lastEvent, snmp, measured, data, loopVars, ghostVars>>

(* remove_device keeps the row and hides it.                               *)
Remove(i) ==
  /\ Happen("remove") /\ i \in active /\ active' = active \ {i}
  /\ missed' = missed \cup {i}
  /\ UNCHANGED <<netVars, profile, status, lastEvent, snmp, measured, data, loopVars, mirrored>>

(* edit_device: the profile is resolved again from the new type.           *)
Edit(i) == \E p \in Profiles :
  /\ Happen("edit") /\ profile[i] # "none" /\ profile' = [profile EXCEPT ![i] = p]
  /\ missed' = missed \cup {i}
  /\ UNCHANGED <<netVars, active, status, lastEvent, snmp, measured, data, loopVars, mirrored>>

(* The entries of Redis outlive four cycles only.                          *)
Flush(i) ==
  /\ Happen("flush") /\ data[i] # "gone" /\ data' = [data EXCEPT ![i] = "gone"]
  /\ UNCHANGED <<netVars, tableVars, loopVars, ghostVars>>
-----------------------------------------------------------------------------
(* Mutant of CopyAps: a row that is there already is not shown again.      *)
CopyAps_StaysHidden ==
  /\ apCache # {gAps} /\ apCache' = {gAps} /\ missed' = missed \ gAps
  /\ profile' = [i \in IPs |-> IF i \in gAps THEN "ap_guardian" ELSE profile[i]]
  /\ active' = (active \cup {i \in gAps : profile[i] = "none"})
                 \ {i \in IPs \ gAps : gAps # {} /\ profile[i] = "ap_guardian"}
  /\ UNCHANGED happened

(* _sync_guardian_aps: nothing to do while Guardian's set is the one       *)
(* remembered, which is remembered before the rows are written.            *)
CopyAps ==
  \/ apCache = {gAps} /\ UNCHANGED <<apCache, profile, active, missed, happened>>
  \/ /\ apCache # {gAps} /\ apCache' = {gAps}
     /\ \/ /\ profile' = [i \in IPs |-> IF i \in gAps THEN "ap_guardian" ELSE profile[i]]
           /\ active' = (active \cup gAps)
                          \ {i \in IPs \ gAps : gAps # {} /\ profile[i] = "ap_guardian"}
           /\ missed' = missed \ gAps /\ UNCHANGED happened
        \/ Happen("database") /\ missed' = missed \cup gAps /\ UNCHANGED <<profile, active>>

(* list_devices copies them too.                                           *)
ListDevices ==
  /\ apCache # {gAps} /\ CopyAps
  /\ UNCHANGED <<netVars, status, lastEvent, snmp, measured, data, fast, slow, streak, mirrored>>

FastCopies ==
  /\ fast.at = "idle" /\ CopyAps /\ fast' = [IdleFast EXCEPT !.at = "copied"]
  /\ UNCHANGED <<netVars, status, lastEvent, snmp, measured, data, slow, streak, mirrored>>

(* _load_poll_context: the devices and their last statuses; a cycle with   *)
(* no device ends here.                                                    *)
FastReads ==
  /\ fast.at = "copied"
  /\ fast' = [IdleFast EXCEPT
       !.at = IF active = {} THEN "idle" ELSE "read",
       !.rows = [i \in IPs |-> IF i \in active THEN profile[i] ELSE "out"],
       !.prev = status]
  /\ UNCHANGED <<netVars, tableVars, data, slow, apCache, streak, ghostVars, happened>>

(* _map_guardian_status_to_infra.                                          *)
InfraStatus(g) == CASE g = "no-internet" -> "offline" [] OTHER -> g

(* _sync_ap_status_from_guardian: access points get Guardian's state, with *)
(* no event, after the statuses were read.                                 *)
Mirrored == {i \in active : profile[i] = "ap_guardian" /\ gStatus[i] # "none"}
FastMirrors ==
  /\ fast.at = "read" /\ fast' = [fast EXCEPT !.at = "mirrored"]
  /\ \/ /\ status' = [i \in IPs |-> IF i \in Mirrored THEN InfraStatus(gStatus[i]) ELSE status[i]]
        /\ mirrored' = mirrored \cup Mirrored /\ UNCHANGED happened
     \/ Happen("database") /\ UNCHANGED <<status, mirrored>>
  /\ UNCHANGED <<netVars, profile, active, lastEvent, snmp, measured, data, slow,
                 apCache, streak, missed>>

Ping(i) == IF i \in down THEN "offline" ELSE IF i \in lossy THEN "degraded" ELSE "online"
Polled  == {i \in IPs : fast.rows[i] \in Live}
Dead    == Polled \cap down
MassOutage == Dead # {} /\ (Cardinality(Dead) >= Mass \/ Dead = Polled)
Newly      == {i \in Dead : fast.prev[i] # "offline"}

(* Mutant of Blip: a mass outage is kept back however long it lasts.       *)
Blip_NoCap ==
  \/ MassOutage /\ UNCHANGED <<streak, happened>> /\ fast'.skip = Newly
  \/ ~MassOutage /\ streak' = 0 /\ fast'.skip = {} /\ UNCHANGED happened

(* evaluate_host_network_blip_async: a mass outage with a bad gateway, or  *)
(* with a good one for no longer than the cap, keeps new outages back.     *)
Blip ==
  \/ /\ gwBad /\ MassOutage /\ UNCHANGED streak
     /\ \/ fast'.skip = Newly /\ UNCHANGED happened
        \/ fast'.skip = {} /\ Happen("flicker")
  \/ ~MassOutage /\ streak' = 0 /\ fast'.skip = {} /\ UNCHANGED happened
  \/ /\ ~gwBad /\ MassOutage
     /\ streak' = IF streak <= Cap THEN streak + 1 ELSE streak
     /\ fast'.skip = (IF streak <= Cap THEN Newly ELSE {}) /\ UNCHANGED happened

FastPings ==
  /\ fast.at = "mirrored"
  /\ \E skip \in SUBSET IPs :
       fast' = [fast EXCEPT !.at = "pinged", !.skip = skip,
                !.seen = [i \in IPs |-> IF i \in Polled THEN Ping(i) ELSE "unknown"]]
  /\ Blip
  /\ UNCHANGED <<netVars, tableVars, data, slow, apCache, ghostVars>>

(* derive_liveness: a recent answer of SNMP makes up for the pings of      *)
(* network gear, and any last answer for those of a printer.               *)
Liveness(i) ==
  CASE fast.rows[i] = "network_gear" /\ snmp[i].ok /\ snmp[i].fresh
         /\ fast.seen[i] = "offline"                                   -> "online"
    [] fast.rows[i] = "printer" /\ snmp[i].ok /\ fast.seen[i] = "offline" -> "online"
    [] fast.rows[i] = "printer" /\ fast.seen[i] = "degraded"           -> "online"
    [] OTHER                                                           -> fast.seen[i]

Written == Polled \ fast.skip

(* Mutant of Changed: the events of the outages kept back are written.     *)
Changed_KeptBackToo == {i \in Polled : fast.prev[i] \notin {"none", Liveness(i)}}

Changed == {i \in Written : fast.prev[i] \notin {"none", Liveness(i)}}

(* Mutant of Refreshed: only what changed is written again.                *)
Refreshed_Changed == Changed

(* The entries of Redis written, changed or not.                           *)
Refreshed == Written

(* update_pulse rounds an average that a device that never answered does   *)
(* not have, and the transaction of the whole cycle is lost.               *)
NoAverage == Pulse /\ \E i \in Written : fast.seen[i] = "offline" /\ i \notin measured

(* _persist_poll_results: one transaction, then Redis.                     *)
FastPersists ==
  /\ fast.at = "pinged"
  /\ \/ /\ ~NoAverage
        /\ status' = [i \in IPs |-> IF i \in Written THEN Liveness(i) ELSE status[i]]
        /\ lastEvent' = [i \in IPs |-> IF i \in Changed THEN Liveness(i) ELSE lastEvent[i]]
        /\ measured' = IF Pulse THEN measured \cup {i \in Written : fast.seen[i] # "offline"}
                                ELSE measured
        /\ \/ /\ data' = [i \in IPs |-> IF i \in Refreshed THEN Liveness(i) ELSE data[i]]
              /\ UNCHANGED happened
           \/ Happen("redis") /\ UNCHANGED data
     \/ NoAverage /\ UNCHANGED <<status, lastEvent, measured, data, happened>>
     \/ Happen("database") /\ UNCHANGED <<status, lastEvent, measured, data>>
  /\ fast' = [IdleFast EXCEPT !.prev = status']
  /\ UNCHANGED <<netVars, profile, active, snmp, slow, apCache, streak, ghostVars>>
-----------------------------------------------------------------------------
(* _snmp_poll: the agent answers in one version or the other, or in none.  *)
SnmpAnswer(i) == IF i \in down THEN "fail" ELSE "ok"

(* _collect_snmp_map: after enough failures in a row a device is left      *)
(* alone for a while, and its last answer is written again.                *)
SlowPolls ==
  /\ slow.at = "idle" /\ \E i \in active : profile[i] \in Snmp
  /\ \E rest \in SUBSET {i \in active : snmp[i].fails >= Backoff} :
       slow' = [IdleSlow EXCEPT !.at = "polled", !.res =
         [i \in IPs |-> IF i \notin active \/ profile[i] \notin Snmp THEN "out"
                        ELSE IF i \in rest THEN "same"
                        ELSE SnmpAnswer(i)]]
  /\ UNCHANGED <<netVars, tableVars, data, fast, apCache, streak, ghostVars, happened>>

SnmpAfter(i, r) ==
  CASE r = "ok"   -> [ok |-> TRUE, fresh |-> TRUE, fails |-> 0]
    [] r = "fail" -> [ok |-> FALSE, fresh |-> FALSE,
                      fails |-> IF snmp[i].fails < Backoff THEN snmp[i].fails + 1 ELSE Backoff]
    [] OTHER      -> snmp[i]

(* _persist_snmp_results: its columns, of the devices that have a row;     *)
(* then it reads the entries of Redis ...                                  *)
SlowWrites ==
  /\ slow.at = "polled"
  /\ \/ /\ snmp' = [i \in IPs |-> IF status[i] # "none" THEN SnmpAfter(i, slow.res[i])
                                  ELSE snmp[i]]
        /\ slow' = [slow EXCEPT !.at = "written", !.read = data] /\ UNCHANGED happened
     \/ Happen("database") /\ slow' = IdleSlow /\ UNCHANGED snmp
  /\ UNCHANGED <<netVars, profile, active, status, lastEvent, measured, data, fast,
                 apCache, streak, ghostVars>>

(* ... and writes them back with its own fields: the status is the one it  *)
(* read, or none.                                                          *)
SlowRewrites ==
  /\ slow.at = "written" /\ slow' = IdleSlow
  /\ \/ /\ data' = [i \in IPs |-> IF slow.res[i] = "out" THEN data[i]
                                  ELSE IF slow.read[i] = "gone" THEN "unknown" ELSE slow.read[i]]
        /\ UNCHANGED happened
     \/ Happen("redis") /\ UNCHANGED data
  /\ UNCHANGED <<netVars, tableVars, fast, apCache, streak, ghostVars>>

(* An answer grows old.                                                    *)
Ages(i) ==
  /\ snmp[i].fresh /\ snmp' = [snmp EXCEPT ![i].fresh = FALSE]
  /\ UNCHANGED <<netVars, profile, active, status, lastEvent, measured, data, loopVars,
                 ghostVars, happened>>

(* The process dies: what it had in memory and had not written is lost.    *)
Restart ==
  /\ Happen("restart")
  /\ fast' = IdleFast /\ slow' = IdleSlow /\ apCache' = {} /\ streak' = 0
  /\ UNCHANGED <<netVars, tableVars, data, ghostVars>>
-----------------------------------------------------------------------------
Init ==
  /\ down = {} /\ lossy = {} /\ gwBad = FALSE
  /\ gAps = {} /\ gStatus = [i \in IPs |-> "none"]
  /\ active \in {{}, Stock} /\ profile \in [IPs -> {"none"} \cup StockProfiles]
  /\ \A i \in IPs : profile[i] = "none" <=> i \notin active
  /\ status = [i \in IPs |-> "none"] /\ lastEvent = [i \in IPs |-> "none"]
  /\ snmp = [i \in IPs |-> [ok |-> FALSE, fresh |-> FALSE, fails |-> 0]]
  /\ data = [i \in IPs |-> "gone"] /\ apCache = {} /\ streak = 0 /\ measured = {}
  /\ fast = IdleFast /\ slow = IdleSlow
  /\ mirrored = {} /\ missed = {} /\ happened = 0

Fast == FastCopies \/ FastReads \/ FastMirrors \/ FastPings \/ FastPersists
Slow == SlowPolls \/ SlowWrites \/ SlowRewrites

Next ==
  \/ NetworkChanges \/ ListDevices \/ Fast \/ Slow \/ Restart
  \/ \E i \in IPs : Add(i) \/ Remove(i) \/ Edit(i) \/ Flush(i) \/ Ages(i)

Spec == Init /\ [][Next]_vars

(* _fast_loop and _snmp_loop come round, whatever a cycle raised.          *)
FairSpec == Spec /\ WF_vars(Fast) /\ WF_vars(Slow)
-----------------------------------------------------------------------------
TypeOK ==
  /\ down \subseteq IPs /\ lossy \subseteq IPs /\ gwBad \in BOOLEAN
  /\ gAps \subseteq IPs /\ gStatus \in [IPs -> {"none", "online", "no-internet"}]
  /\ profile \in [IPs -> {"none", "ap_guardian"} \cup Live] /\ active \subseteq IPs
  /\ status \in [IPs -> {"none"} \cup Statuses]
  /\ lastEvent \in [IPs -> {"none"} \cup Statuses]
  /\ snmp \in [IPs -> [ok : BOOLEAN, fresh : BOOLEAN, fails : 0..Backoff]]
  /\ data \in [IPs -> {"gone"} \cup Statuses]
  /\ Cardinality(apCache) <= 1 /\ UNION apCache \subseteq IPs /\ streak \in 0..(Cap + 1)
  /\ measured \subseteq IPs /\ mirrored \subseteq IPs /\ missed \subseteq IPs
  /\ happened \in 0..MaxHappens

(* A device whose status was never copied from Guardian has the status its *)
(* last event tells: the uptime of the panel is computed from the events.  *)
HistoryMatches ==
  \A i \in IPs \ mirrored : lastEvent[i] \in {"none", status[i]}

(* While Guardian's set is the one remembered, its access points are shown *)
(* but for those whose copy failed or that the panel changed.              *)
ApsCopied ==
  \A i \in (UNION apCache) \ missed : i \in active /\ profile[i] = "ap_guardian"

(* The status a device has when nothing changes.                           *)
Truth(i) ==
  CASE profile[i] = "ap_guardian" -> IF gStatus[i] = "none" THEN status[i]
                                     ELSE InfraStatus(gStatus[i])
    [] profile[i] = "printer" /\ i \notin down -> "online"
    [] OTHER -> Ping(i)

NeverAnswered == Pulse /\ \E i \in active \cap down : i \notin measured

(* When the network, Guardian and the panel rest, every device comes to    *)
(* have its true status for good: no lost write, old answer of SNMP, late  *)
(* mirror or suppressed outage keeps it wrong, but a gateway that stays    *)
(* bad and a device that is down and that the pulse has never measured.    *)
Converges == <>[](gwBad \/ NeverAnswered \/ \A i \in active : status[i] = Truth(i))

(* What the panel shows: the entry of Redis before the row.                *)
Shown(i) == IF data[i] = "gone" THEN status[i] ELSE data[i]

(* The slow loop may put an old status, or none, back in Redis, and may do *)
(* it again and again, but none lasts: the fast loop writes it over.       *)
ShownAgain ==
  \A i \in IPs : []<>(gwBad \/ NeverAnswered \/ i \notin active
                        \/ profile[i] = "ap_guardian" \/ Shown(i) = status[i])
=============================================================================
