-------------------------- MODULE ProtectorBackups --------------------------
(***************************************************************************)
(* The backups of Protector (app/api/backups.py, app/backend/protector.py):*)
(* the loop that starts them at the minute of each device, the requests    *)
(* of the panel, the copy to the cloud and the retention of the two        *)
(* repositories.                                                           *)
(*                                                                         *)
(* Two workers serve requests, one of them runs the loop.  A backup over   *)
(* SSH copies the files to a directory of the device without blocking its  *)
(* worker; everything over SMB, and every call of restic for a device,     *)
(* blocks the event loop of the worker, and the loop of the schedule too   *)
(* when it is there.  The copy of all the snapshots and the retention run  *)
(* in threads.                                                             *)
(*                                                                         *)
(* External: restic, ssh, mount.cifs and the cloud, as the code uses them. *)
(* Abstracted: sizes and counts of files, passwords, the notices; a source *)
(* has two files.  Bounds: Days days, MaxMade snapshots, MaxHappens        *)
(* requests and faults, one copy of all the snapshots at a time, and as    *)
(* many runs at a time as Slots.                                           *)
(***************************************************************************)
EXTENDS Naturals, FiniteSets, Functions

CONSTANTS
  Devices, Ssh,         \* backup_devices, and those backed up over SSH
  Planned,              \* those with a schedule at first
  Workers, Leader,      \* of the service; the one that runs the loop
  Slots,
  Minutes, Days,        \* 0 .. Minutes - 1 make a day
  LocalKeep, CloudKeep, \* protector.retention_days, b2_retention_days
  PanelKeep,            \* KEEP_DAILY of the panel's own backup
  SyncMinute,           \* protector.b2_sync_time
  MaxMade, MaxHappens, Happens

ASSUME DeviceAssumption ==
  Ssh \cup Planned \subseteq Devices /\ "b2" \notin Devices /\ Leader \in Workers
ASSUME TimeAssumption   ==
  /\ {Minutes, Days, LocalKeep, CloudKeep, PanelKeep} \subseteq Nat \ {0}
  /\ {SyncMinute, MaxMade, MaxHappens} \subseteq Nat
ASSUME KindAssumption   == Happens \subseteq
  {"now", "all", "edit", "delete", "fail", "cloud", "restart", "late", "sync", "panel", "forget",
   "drill", "clock"}

VARIABLES
  day, minute, polled,   \* the hour of the site; the loop came round in it
  rows, on, at, toCloud, \* backup_devices: schedule_enabled, _time, _b2_enabled
  status, last,          \* last_status, last_snapshot_id
  fired,                 \* _scheduler_fired
  task,                  \* the runs of _backup_linux and _backup_windows
  stage, mounts,         \* staging_ssh/{id}: its files; mounts on shomer_smb/{id}
  local, cloud, root,    \* snapshots here, in the cloud, at the root of the bucket
  cloudPath,             \* the site has a path of its own in the bucket, which stays
  made,
  sync,                  \* _run_global_b2_sync, or a request for the copy alone
  ran, again,            \* keys the loop ever fired, and fired twice
  restarts, overlapped,  \* minutes of a restart; devices that had two runs at once
  happened

siteVars  == <<rows, on, at, toCloud, cloudPath>>
repoVars  == <<local, cloud, root, made>>
clockVars == <<day, minute, polled>>
loopVars  == <<fired, ran, again, restarts>>
runVars   == <<status, last, task, stage, mounts, overlapped>>
backupVars == <<clockVars, siteVars, runVars, repoVars, loopVars, sync, happened>>

Files == {1, 2}
Idle  == [at |-> "idle"]
NoSnapshot == [no |-> 0]
SyncIdle == [at |-> "idle", taken |-> {}, prunes |-> FALSE]

Happen(kind) == kind \in Happens /\ happened < MaxHappens /\ happened' = happened + 1
-----------------------------------------------------------------------------
(* The calls that hold the event loop of their worker.                     *)
Holds(t)   == t.at \in {"mounted", "restic", "cloud"}
Held(w)    == \E s \in Slots : Holds(task[s]) /\ task[s].w = w
Others(s, d) == \E z \in Slots \ {s} : task[z].at # "idle" /\ task[z].dev = d

Tick ==
  /\ minute < Minutes - 1 \/ day < Days - 1
  /\ IF polled \/ Held(Leader) THEN UNCHANGED happened ELSE Happen("late")
  /\ minute' = (minute + 1) % Minutes
  /\ day' = IF minute = Minutes - 1 THEN day + 1 ELSE day
  /\ polled' = FALSE
  /\ UNCHANGED <<siteVars, runVars, repoVars, loopVars, sync>>

(* A run of device d on worker w; the devices still to do of backup_all.   *)
Run(d, w, todo) ==
  [at |-> IF d \in Ssh THEN "copy" ELSE "mount", dev |-> d, w |-> w, todo |-> todo,
   toCloud |-> d \in toCloud, snap |-> NoSnapshot]

(* The clock is put back within the minute.                                *)
ClockBack ==
  /\ Happen("clock") /\ polled /\ polled' = FALSE
  /\ UNCHANGED <<day, minute, siteVars, runVars, repoVars, loopVars, sync>>

(* Runs begin: the staging directories are emptied.                        *)
Begin(devs) ==
  /\ stage' = [d \in Devices |-> IF d \in devs \cap Ssh THEN {} ELSE stage[d]]
  /\ overlapped' = overlapped \cup
                     {d \in devs : \E s \in Slots : task'[s] # task[s] /\ Others(s, d)}

Scheduled == {d \in rows : on[d] /\ at[d] = minute}

(* Mutant of Key: the key does not tell the day.                           *)
Key_NoDay(d) == <<d, minute, 0>>

Key(d)    == <<d, minute, day>>
SyncDue   == minute = SyncMinute /\ <<"b2", minute, day>> \notin fired

Due == {d \in Scheduled : Key(d) \notin fired}

(* _scheduler_loop: the runs it creates are tasks of the same event loop.  *)
(* Bound: all of them find a slot.                                         *)
Poll ==
  /\ ~polled /\ ~Held(Leader) /\ polled' = TRUE
  /\ \E slot \in Injection(Due, {s \in Slots : task[s].at = "idle"}) :
       task' = [s \in Slots |-> IF s \in Range(slot)
                                 THEN Run(CHOOSE d \in Due : slot[d] = s, Leader, {}) ELSE task[s]]
  /\ Begin(Due)
  /\ fired' = {k \in fired \cup {Key(d) : d \in Due}
                       \cup (IF SyncDue THEN {<<"b2", minute, day>>} ELSE {}) : k[3] = day}
  /\ ran' = ran \cup (Due \X {minute} \X {day})
  /\ again' = again \cup ((Due \X {minute} \X {day}) \cap ran)
  /\ sync' = IF SyncDue /\ sync.at = "idle" THEN [at |-> "copy", taken |-> local, prunes |-> TRUE]
             ELSE sync
  /\ UNCHANGED <<day, minute, siteVars, status, last, mounts, repoVars, restarts, happened>>

(* backup_device_now and backup_all_devices, on either worker.             *)
BackupNow ==
  \E s \in Slots, w \in Workers, d \in rows :
    /\ task[s].at = "idle" /\ ~Held(w)
    /\ \/ Happen("now") /\ task' = [task EXCEPT ![s] = Run(d, w, {})]
       \/ Happen("all") /\ task' = [task EXCEPT ![s] = Run(d, w, rows \ {d})]
    /\ Begin({d})
    /\ UNCHANGED <<clockVars, siteVars, status, last, mounts, repoVars, loopVars, sync>>

(* The run in a slot is over: backup_all goes on with the next device.     *)
Over(s) ==
  \/ task[s].todo = {} /\ task' = [task EXCEPT ![s] = Idle] /\ UNCHANGED <<stage, overlapped>>
  \/ \E d \in task[s].todo :
       task' = [task EXCEPT ![s] = Run(d, @.w, @.todo \ {d})] /\ Begin({d})

(* _update_device_status, of a row that may be gone.                       *)
Report(d, st, snap) ==
  IF d \in rows THEN status' = [status EXCEPT ![d] = st] /\ last' = [last EXCEPT ![d] = snap]
                ELSE UNCHANGED <<status, last>>

(* Mutant of Unmounted: whatever is mounted.                               *)
Unmounted_Always(d) == [mounts EXCEPT ![d] = @ - 1]

(* Whatever a run raises is its error, and the SMB one unmounts, its own   *)
(* mount or another's.                                                     *)
Unmounted(d) == [mounts EXCEPT ![d] = IF @ > 0 /\ d \notin Ssh THEN @ - 1 ELSE @]
Failed(s) ==
  /\ Report(task[s].dev, "error", NoSnapshot)
  /\ mounts' = Unmounted(task[s].dev) /\ Over(s)

(* Mutant of Copy: the rest of the copy is not awaited.                    *)
Copy_NotAwaited(s) ==
  /\ task[s].at = "copy" /\ ~Held(task[s].w)
  /\ task' = [task EXCEPT ![s].at = "restic"]
  /\ stage' = [stage EXCEPT ![task[s].dev] = @ \cup {1}]
  /\ UNCHANGED <<status, last, mounts, overlapped, happened>>
  /\ UNCHANGED <<clockVars, siteVars, repoVars, loopVars, sync>>

(* The copy over SSH, a file at a time.                                    *)
Copy(s) ==
  /\ task[s].at \in {"copy", "copied"} /\ ~Held(task[s].w)
  /\ \/ /\ task[s].at = "copy" /\ task' = [task EXCEPT ![s].at = "copied"]
        /\ stage' = [stage EXCEPT ![task[s].dev] = @ \cup {1}]
        /\ UNCHANGED <<status, last, mounts, overlapped, happened>>
     \/ /\ task[s].at = "copied" /\ task' = [task EXCEPT ![s].at = "restic"]
        /\ stage' = [stage EXCEPT ![task[s].dev] = @ \cup {2}]
        /\ UNCHANGED <<status, last, mounts, overlapped, happened>>
     \/ Happen("fail") /\ Failed(s)
  /\ UNCHANGED <<clockVars, siteVars, repoVars, loopVars, sync>>

(* mount.cifs may refuse a mount over another one.                         *)
Mount(s) ==
  /\ task[s].at = "mount" /\ ~Held(task[s].w)
  /\ \/ /\ task' = [task EXCEPT ![s].at = "mounted"]
        /\ mounts' = [mounts EXCEPT ![task[s].dev] = @ + 1]
        /\ UNCHANGED <<status, last, stage, overlapped, happened>>
     \/ mounts[task[s].dev] > 0 /\ Failed(s) /\ UNCHANGED happened
     \/ Happen("fail") /\ Failed(s)
  /\ UNCHANGED <<clockVars, siteVars, repoVars, loopVars, sync>>

(* restic backup takes what it finds: the files of the directory, or those *)
(* of the share when it is still mounted.  Bound: it fails after MaxMade.  *)
Whole(d) == IF d \in Ssh THEN stage[d] = Files ELSE mounts[d] > 0
Taken(d) == [no |-> made + 1, dev |-> d, day |-> day, whole |-> Whole(d)]
Restic(s) ==
  LET d == task[s].dev IN
  /\ task[s].at \in {"restic", "mounted"}
  /\ \/ /\ made < MaxMade /\ made' = made + 1 /\ local' = local \cup {Taken(d)}
        /\ Report(d, "ok", Taken(d)) /\ UNCHANGED happened
        /\ IF task[s].toCloud
             THEN /\ task' = [task EXCEPT ![s].at = "cloud", ![s].snap = Taken(d)]
                  /\ UNCHANGED <<stage, mounts, overlapped>>
             ELSE mounts' = Unmounted(d) /\ Over(s)
     \/ made = MaxMade /\ Failed(s) /\ UNCHANGED <<made, local, happened>>
     \/ Happen("fail") /\ Failed(s) /\ UNCHANGED <<made, local>>
  /\ UNCHANGED <<clockVars, siteVars, cloud, root, loopVars, sync>>

(* _b2_copy_one_snapshot: with no path of its own, to the root.            *)
CopyOne(s) ==
  LET snaps == {task[s].snap} \cap local IN
  /\ task[s].at = "cloud"
  /\ \/ /\ IF cloudPath THEN cloud' = cloud \cup snaps /\ UNCHANGED root
                        ELSE root' = root \cup snaps /\ UNCHANGED cloud
        /\ UNCHANGED happened
     \/ Happen("cloud") /\ UNCHANGED <<cloud, root>>
  /\ mounts' = Unmounted(task[s].dev) /\ Over(s)
  /\ UNCHANGED <<clockVars, siteVars, status, last, local, made, loopVars, sync>>
-----------------------------------------------------------------------------
(* _b2_sync_blocking takes every snapshot, and a global one then prunes.   *)
AskSync ==
  /\ Happen("sync") /\ sync.at = "idle" /\ cloudPath
  /\ sync' = [at |-> "copy", taken |-> local, prunes |-> FALSE]
  /\ UNCHANGED <<clockVars, siteVars, runVars, repoVars, loopVars>>

(* restic forget --keep-daily: of each device, the last snapshot of each   *)
(* of the last days that have one.                                         *)
Kept(snaps, days) ==
  {x \in snaps :
    LET same == {y \in snaps : y.dev = x.dev} IN
    /\ \A y \in same : y.day = x.day => y.no <= x.no
    /\ Cardinality({y.day : y \in {z \in same : z.day > x.day}}) < days}

(* Mutant of Copied: the retention follows whatever the copy did.          *)
Copied_Whatever == cloud' \in {cloud, cloud \cup sync.taken}

(* restic copy: what retention or the panel removed meanwhile is not there.*)
Copied == cloudPath /\ cloud' = cloud \cup (sync.taken \cap local)

SyncCopies ==
  /\ sync.at = "copy"
  /\ \/ /\ Copied /\ UNCHANGED happened
        /\ sync' = IF sync.prunes THEN [sync EXCEPT !.at = "prune"] ELSE SyncIdle
     \/ ~cloudPath /\ sync' = SyncIdle /\ UNCHANGED <<cloud, happened>>
     \/ Happen("cloud") /\ sync' = SyncIdle /\ UNCHANGED cloud
  /\ UNCHANGED <<clockVars, siteVars, runVars, local, root, made, loopVars>>

(* _prune_local and _prune_b2; either may find its repository locked.      *)
SyncPrunes ==
  /\ \/ /\ sync.at = "prune" /\ sync' = [sync EXCEPT !.at = "pruneCloud"] /\ UNCHANGED cloud
        /\ \/ local' = Kept(local, LocalKeep) /\ UNCHANGED happened
           \/ Happen("fail") /\ UNCHANGED local
     \/ /\ sync.at = "pruneCloud" /\ sync' = SyncIdle /\ UNCHANGED local
        /\ \/ cloud' = Kept(cloud, CloudKeep) /\ UNCHANGED happened
           \/ Happen("cloud") /\ UNCHANGED cloud
  /\ UNCHANGED <<clockVars, siteVars, runVars, root, made, loopVars>>

(* run_backup_and_prune: the panel's own backup, in the same repository,   *)
(* ends with a retention of its own; forget_snapshot removes one.          *)
PanelPrunes ==
  /\ \/ Happen("panel") /\ local' = Kept(local, PanelKeep)
     \/ Happen("forget") /\ \E x \in local : local' = local \ {x}
  /\ UNCHANGED <<clockVars, siteVars, runVars, cloud, root, made, loopVars, sync>>
-----------------------------------------------------------------------------
(* save_ and update_backup_device: a device gets another hour, stops or    *)
(* goes on, goes to the cloud or not; delete_backup_device.                *)
Edit ==
  /\ Happen("edit")
  /\ \E d \in Devices :
       /\ rows' = rows \cup {d}
       /\ \/ on' = [on EXCEPT ![d] = ~@] /\ UNCHANGED <<at, toCloud>>
          \/ \E m \in 0 .. Minutes - 1 : at' = [at EXCEPT ![d] = m] /\ UNCHANGED <<on, toCloud>>
          \/ toCloud' = (toCloud \ {d}) \cup ({d} \ toCloud) /\ UNCHANGED <<on, at>>
       /\ IF d \in rows THEN UNCHANGED <<status, last>>
          ELSE status' = [status EXCEPT ![d] = "none"] /\ last' = [last EXCEPT ![d] = NoSnapshot]
  /\ UNCHANGED <<clockVars, cloudPath, task, stage, mounts, overlapped, repoVars, loopVars, sync>>

Delete ==
  /\ Happen("delete") /\ \E d \in rows : rows' = rows \ {d}
  /\ UNCHANGED <<clockVars, on, at, toCloud, cloudPath, runVars, repoVars, loopVars, sync>>

(* The service restarts: the runs, the threads and the memory of the loop  *)
(* are lost, what is mounted stays.                                        *)
Restart ==
  /\ Happen("restart") /\ restarts' = restarts \cup {<<minute, day>>}
  /\ task' = [s \in Slots |-> Idle] /\ fired' = {} /\ sync' = SyncIdle /\ polled' = FALSE
  /\ UNCHANGED <<day, minute, siteVars, status, last, stage, mounts, overlapped, repoVars, ran, again>>
-----------------------------------------------------------------------------
BackupInit ==
  /\ day = 0 /\ minute = 0 /\ polled = FALSE
  /\ rows \in {{}, Devices} /\ cloudPath \in BOOLEAN /\ on = [d \in Devices |-> d \in Planned]
  /\ at = [d \in Devices |-> 0] /\ toCloud \in {{}, Devices}
  /\ status = [d \in Devices |-> "none"] /\ last = [d \in Devices |-> NoSnapshot]
  /\ task = [s \in Slots |-> Idle]
  /\ stage = [d \in Devices |-> {}] /\ mounts = [d \in Devices |-> 0] /\ overlapped = {}
  /\ local = {} /\ cloud = {} /\ root = {} /\ made = 0
  /\ fired = {} /\ ran = {} /\ again = {} /\ restarts = {}
  /\ sync = SyncIdle /\ happened = 0

BackupNext ==
  \/ Tick \/ ClockBack \/ Poll \/ BackupNow \/ AskSync \/ SyncCopies \/ SyncPrunes \/ PanelPrunes
  \/ Edit \/ Delete
  \/ \E s \in Slots : Copy(s) \/ Mount(s) \/ Restic(s) \/ CopyOne(s)

-----------------------------------------------------------------------------
BackupTypeOK ==
  /\ day \in 0 .. Days - 1 /\ minute \in 0 .. Minutes - 1 /\ polled \in BOOLEAN
  /\ rows \subseteq Devices /\ on \in [Devices -> BOOLEAN]
  /\ at \in [Devices -> 0 .. Minutes - 1] /\ toCloud \subseteq Devices /\ cloudPath \in BOOLEAN
  /\ status \in [Devices -> {"none", "ok", "error"}]
  /\ \A d \in Devices : last[d].no \in 0 .. MaxMade
  /\ \A s \in Slots : task[s].at \in {"idle", "copy", "copied", "mount", "mounted", "restic", "cloud"}
  /\ stage \in [Devices -> SUBSET Files] /\ mounts \in [Devices -> Nat]
  /\ made \in 0 .. MaxMade /\ sync.at \in {"idle", "copy", "prune", "pruneCloud"}
  /\ overlapped \subseteq Devices /\ happened \in 0 .. MaxHappens

(* A device whose last status is ok has all its files in its last          *)
(* snapshot, unless two runs of it were once at a time: they share the     *)
(* staging directory and the mount.                                        *)
OkIsWhole ==
  \A d \in rows \ overlapped : status[d] = "ok" => last[d].whole

(* The loop starts the backup of a device once a day at its minute, but    *)
(* for a minute in which the service restarted, whose memory it is.        *)
OnceADay == \A k \in again : <<k[2], k[3]>> \in restarts

(* Whenever the loop comes round, on any day, every device whose minute it *)
(* is has its backup started on that day.                                  *)
EveryDay == [][polled' /\ ~polled => \A d \in Scheduled : <<d, minute, day>> \in ran']_backupVars

(* What the retention of a synchronisation removes here is in the cloud,   *)
(* unless it was made while the synchronisation ran.                       *)
PruneKeepsACopy ==
  [][sync.at = "prune" /\ sync'.at = "pruneCloud" =>
       (local \ local') \cap sync.taken \subseteq cloud]_backupVars
=============================================================================
