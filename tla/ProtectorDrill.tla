--------------------------- MODULE ProtectorDrill ---------------------------
(***************************************************************************)
(* The restore drill (app/scripts/restore_drill.py, app/api/               *)
(* shomer_drill.py) on top of the backups: once a month, and when the      *)
(* panel asks, it restores the smallest file of a snapshot of the cloud in *)
(* a directory named after the snapshot.  A flag in the memory of the      *)
(* worker tells that a drill runs; the loop has a leader of its own.       *)
(*                                                                         *)
(* Abstracted: the check of the local repository, a note of the result,    *)
(* and the comparison of trees, which fails only when the copy is corrupt. *)
(* Bound: as many drills at a time as DrillSlots.                          *)
(***************************************************************************)
EXTENDS ProtectorBackups

CONSTANTS DrillSlots, DrillLeader, DrillDay, DrillMinute

ASSUME DrillAssumption == DrillLeader \in Workers /\ {DrillDay, DrillMinute} \subseteq Nat

VARIABLES
  flag,       \* _drill_running of each worker
  drill,      \* the drills
  restored,   \* snapshots whose sample is in the directory of the drill
  lastDrill,  \* protector.drill_last_run
  result,     \* the last of drill_results
  begun       \* scheduled drills begun on DrillDay

drillVars == <<flag, drill, restored, lastDrill, result, begun>>
vars == <<backupVars, drillVars>>

NoDrill == [at |-> "idle"]

(* run_drill_manual answers at once, and the task it creates puts the flag *)
(* up when its turn comes.                                                 *)
AskDrill(x, w) ==
  /\ Happen("drill") /\ drill[x].at = "idle" /\ ~flag[w] /\ ~Held(w)
  /\ drill' = [drill EXCEPT ![x] = [at |-> "asked", w |-> w]]
  /\ UNCHANGED <<flag, restored, lastDrill, result, begun>>
  /\ UNCHANGED <<clockVars, siteVars, runVars, repoVars, loopVars, sync>>

DrillBegins(x) ==
  /\ drill[x].at = "asked" /\ ~Held(drill[x].w)
  /\ drill' = [drill EXCEPT ![x].at = "list"] /\ flag' = [flag EXCEPT ![drill[x].w] = TRUE]
  /\ UNCHANGED <<restored, lastDrill, result, begun, backupVars>>

(* The day is written before the drill.                                    *)
Mark == lastDrill' = day

(* _drill_scheduler_loop: in its minute, once a day, unless a drill runs   *)
(* in this worker, which costs the month its drill.                        *)
DrillLoop(x) ==
  /\ day = DrillDay /\ minute = DrillMinute /\ lastDrill # day
  /\ ~Held(DrillLeader) /\ ~flag[DrillLeader] /\ drill[x].at = "idle"
  /\ Mark /\ flag' = [flag EXCEPT ![DrillLeader] = TRUE] /\ begun' = begun + 1
  /\ drill' = [drill EXCEPT ![x] = [at |-> "list", w |-> DrillLeader]]
  /\ UNCHANGED <<restored, result, backupVars>>

(* A drill is over: its result is saved, the flag of its worker put down   *)
(* and what it restored removed.                                           *)
Ends(x, r) ==
  /\ result' = r /\ drill' = [drill EXCEPT ![x] = NoDrill]
  /\ flag' = [flag EXCEPT ![drill[x].w] = FALSE]

Clean(x) == restored' = restored \ {drill[x].snap.no}

(* A snapshot of the cloud at random; an empty one has no sample.          *)
DrillLists(x) ==
  /\ drill[x].at = "list"
  /\ \/ \E snap \in cloud :
          /\ snap.whole /\ drill' = [drill EXCEPT ![x] = [at |-> "restore", w |-> @.w, snap |-> snap]]
          /\ UNCHANGED <<flag, result, happened>>
     \/ (cloud = {} \/ \E snap \in cloud : ~snap.whole) /\ Ends(x, "failed") /\ UNCHANGED happened
     \/ Happen("cloud") /\ Ends(x, "failed")
  /\ UNCHANGED <<restored, lastDrill, begun>>
  /\ UNCHANGED <<clockVars, siteVars, runVars, repoVars, loopVars, sync>>

(* The retention of the cloud may have removed it meanwhile.               *)
DrillRestores(x) ==
  /\ drill[x].at = "restore"
  /\ \/ /\ drill[x].snap \in cloud /\ restored' = restored \cup {drill[x].snap.no}
        /\ drill' = [drill EXCEPT ![x].at = "verify"] /\ UNCHANGED <<flag, result, happened>>
     \/ drill[x].snap \notin cloud /\ Ends(x, "failed") /\ Clean(x) /\ UNCHANGED happened
     \/ Happen("cloud") /\ Ends(x, "failed") /\ Clean(x)
  /\ UNCHANGED <<lastDrill, begun>>
  /\ UNCHANGED <<clockVars, siteVars, runVars, repoVars, loopVars, sync>>

DrillVerifies(x) ==
  /\ drill[x].at = "verify"
  /\ Ends(x, IF drill[x].snap.no \in restored THEN "ok" ELSE "failed") /\ Clean(x)
  /\ UNCHANGED <<lastDrill, begun, backupVars>>

ServiceRestarts ==
  /\ Restart
  /\ drill' = [x \in DrillSlots |-> NoDrill] /\ flag' = [w \in Workers |-> FALSE]
  /\ UNCHANGED <<restored, lastDrill, result, begun>>
-----------------------------------------------------------------------------
Init ==
  /\ BackupInit
  /\ flag = [w \in Workers |-> FALSE] /\ drill = [x \in DrillSlots |-> NoDrill]
  /\ restored = {} /\ lastDrill = Days /\ result = "none" /\ begun = 0

Next ==
  \/ BackupNext /\ UNCHANGED drillVars
  \/ ServiceRestarts
  \/ \E x \in DrillSlots :
       \/ \E w \in Workers : AskDrill(x, w)
       \/ DrillBegins(x) \/ DrillLoop(x) \/ DrillLists(x) \/ DrillRestores(x) \/ DrillVerifies(x)

Spec == Init /\ [][Next]_vars
-----------------------------------------------------------------------------
TypeOK ==
  /\ BackupTypeOK
  /\ flag \in [Workers -> BOOLEAN] /\ restored \subseteq 1 .. MaxMade
  /\ \A x \in DrillSlots : drill[x].at \in {"idle", "asked", "list", "restore", "verify"}
  /\ lastDrill \in 0 .. Days /\ result \in {"none", "ok", "failed"}

(* The drill of the month begins once on its day, restarts or not.         *)
OneMonthlyDrill == begun <= 1
=============================================================================
