------------------------------ MODULE ScanSlot ------------------------------
(***************************************************************************)
(* Who may run app/scripts/scanner.py (app/api/tracker_discovery.py).      *)
(*                                                                         *)
(* A request of the panel leaves a task of the worker, a thread, that      *)
(* takes the slot (two files of /tmp), starts the scanner, writes its pid  *)
(* in the files, waits for it with a limit and removes the files.  Anyone  *)
(* who asks for the state of the scan also repairs the files: it trusts    *)
(* the list of processes first, and the files for a grace of ten seconds,  *)
(* while a scanner that was just started is not in that list yet.          *)
(*                                                                         *)
(* Abstracted: the two files are written in one step, removed in two; the  *)
(* repair reads and writes in one step.  A call is one request and the     *)
(* task it leaves; MaxUnlinks removals of the files are under way at most. *)
(* What the scanner does is module TrackerInventory.                       *)
(***************************************************************************)
EXTENDS Integers, FiniteSets

CONSTANTS
  MaxCalls,     \* requests, and their tasks, at a time
  MaxPids,      \* scanners at a time
  Modes,        \* the scans that are asked for
  MaxUnlinks,   \* bound on removals at a time
  MaxHappens,   \* bound on requests and faults
  Happens

ASSUME ModeAssumption == Modes \subseteq {"quick", "deep", "rescan", "replace"}
ASSUME KindAssumption == {MaxCalls, MaxPids, MaxUnlinks, MaxHappens} \subseteq Nat /\ Happens \subseteq
  {"scan", "cancel", "crash", "restart", "slow", "edit", "delete", "archive", "fail"}

VARIABLES
  pc, mine,     \* the task of each call, the pid it started
  mode,         \* the scan it will start
  lockFile,     \* SCAN_LOCK_FILE: a pid, 0 while it starts
  statusFile,   \* SCAN_STATUS_FILE: its pid, and whether it is within the grace
  unlinks,      \* removals of the two files that have done the first only
  proc,         \* the scanners
  happened

slotVars == <<pc, mine, mode, lockFile, statusFile, unlinks>>

Calls  == 1 .. MaxCalls
Pids   == 1 .. MaxPids
None   == -1           \* no file, no process
NoFile == [pid |-> None, fresh |-> FALSE]
Ended  == [at |-> "none"]
NoMode == "none"

Happen(kind) == kind \in Happens /\ happened < MaxHappens /\ happened' = happened + 1

Alive   == {p \in Pids : proc[p].at # "none"}
Visible == {p \in Alive : proc[p].at # "boot"}     \* to pgrep, once it is the script

SlotTypeOK ==
  /\ pc \in [Calls -> {"idle", "queued", "taking", "starting", "started", "waiting", "ended"}]
  /\ mine \in [Calls -> Pids \cup {None}] /\ mode \in [Calls -> Modes \cup {NoMode}]
  /\ lockFile \in Pids \cup {0, None}
  /\ statusFile \in [pid : Pids \cup {0, None}, fresh : BOOLEAN]
  /\ statusFile.pid = None => statusFile = NoFile
  /\ unlinks \in 0 .. MaxUnlinks
  /\ happened \in 0 .. MaxHappens

SlotInit ==
  /\ pc = [c \in Calls |-> "idle"] /\ mine = [c \in Calls |-> None] /\ mode = [c \in Calls |-> NoMode]
  /\ lockFile = None /\ statusFile = NoFile /\ unlinks = 0
  /\ happened = 0
-----------------------------------------------------------------------------
(* _write_scan_status, _clear_scan_status.                                 *)
Write(pid, fresh) == lockFile' = pid /\ statusFile' = [pid |-> pid, fresh |-> fresh] /\ UNCHANGED unlinks
Clear  ==
  /\ unlinks < MaxUnlinks /\ unlinks' = unlinks + 1
  /\ lockFile' = None /\ UNCHANGED statusFile
Unlink ==
  /\ unlinks > 0 /\ unlinks' = unlinks - 1 /\ statusFile' = NoFile
  /\ UNCHANGED <<pc, mine, mode, lockFile, proc, happened>>

(* Mutant of Starting: a state that cannot be read counts as written now.  *)
Starting_Unread == statusFile.fresh \/ statusFile = NoFile

(* get_scan_status: within the grace, no scanner seen is a scanner to come. *)
Starting == statusFile.fresh

SomeFile == lockFile # None \/ statusFile # NoFile
Running  == Visible # {} \/ (Starting /\ SomeFile)
Repair ==
  \/ \E p \in Visible : IF statusFile.pid \in {None, p} THEN UNCHANGED <<lockFile, statusFile, unlinks>>
                                                       ELSE Write(p, statusFile.fresh)
  \/ Visible = {} /\ SomeFile /\ ~Starting /\ Clear
  \/ Visible = {} /\ (SomeFile => Starting) /\ UNCHANGED <<lockFile, statusFile, unlinks>>

(* The panel asks every five seconds.                                      *)
AskState == Repair /\ UNCHANGED <<pc, mine, mode, proc, happened>>

(* discovery_scan, scan_inventory: refused while a scan runs.  The scan of *)
(* one device, rescan_single_asset, asks nothing.                          *)
AskScan(c) ==
  /\ pc[c] = "idle" /\ (\A d \in 1 .. c - 1 : pc[d] # "idle") /\ Happen("scan")
  /\ \E m \in Modes :
       /\ IF m = "rescan" THEN UNCHANGED <<lockFile, statusFile, unlinks>> ELSE ~Running /\ Repair
       /\ pc' = [pc EXCEPT ![c] = "queued"] /\ mode' = [mode EXCEPT ![c] = m]
  /\ UNCHANGED <<mine, proc>>

(* _acquire_scan_lock looks, and then writes.                              *)
Taken ==
  \/ Visible # {}
  \/ lockFile = 0 /\ (statusFile.fresh \/ statusFile = NoFile)
Take(c) ==
  /\ pc[c] = "queued"
  /\ pc' = [pc EXCEPT ![c] = IF Taken THEN "idle" ELSE "taking"]
  /\ UNCHANGED <<mine, mode, lockFile, statusFile, unlinks, proc, happened>>
Hold(c) ==
  /\ pc[c] = "taking" /\ pc' = [pc EXCEPT ![c] = "starting"] /\ Write(0, TRUE)
  /\ UNCHANGED <<mine, mode, proc, happened>>

(* A new pid is one nobody knows.                                          *)
Free == {p \in Pids \ Alive : p \notin {lockFile, statusFile.pid} /\ \A d \in Calls : mine[d] # p}

(* run_inventory_quick_scan_background, run_inventory_deep_scan_background. *)
Start(c) ==
  /\ pc[c] = "starting" /\ pc' = [pc EXCEPT ![c] = "started"]
  /\ \E p \in Free :
       /\ \A q \in Free : p <= q
       /\ mine' = [mine EXCEPT ![c] = p]
       /\ proc' = [proc EXCEPT ![p] = [at |-> "boot", mode |-> mode[c]]]
  /\ mode' = [mode EXCEPT ![c] = NoMode]
  /\ UNCHANGED <<lockFile, statusFile, unlinks, happened>>
StartFails(c) ==
  /\ pc[c] = "starting" /\ Happen("fail") /\ pc' = [pc EXCEPT ![c] = "ended"]
  /\ UNCHANGED <<mine, mode, lockFile, statusFile, unlinks, proc>>
Register(c) ==
  /\ pc[c] = "started" /\ pc' = [pc EXCEPT ![c] = "waiting"] /\ Write(mine[c], TRUE)
  /\ UNCHANGED <<mine, mode, proc, happened>>
Waits(c) ==
  /\ pc[c] = "waiting" /\ pc' = [pc EXCEPT ![c] = "ended"]
  /\ \/ mine[c] \notin Alive /\ UNCHANGED <<proc, happened>>
     \/ mine[c] \in Alive /\ Happen("slow") /\ proc' = [proc EXCEPT ![mine[c]] = Ended]
  /\ UNCHANGED <<mine, mode, lockFile, statusFile, unlinks>>
Leave(c) ==
  /\ pc[c] = "ended" /\ pc' = [pc EXCEPT ![c] = "idle"]
  /\ mine' = [mine EXCEPT ![c] = None] /\ mode' = [mode EXCEPT ![c] = NoMode]
  /\ Clear /\ UNCHANGED <<proc, happened>>

(* kill_scan_with_retry: waits while a scanner is on its way, and kills    *)
(* one: the first that is seen.                                            *)
Cancel ==
  /\ Happen("cancel") /\ (Starting /\ SomeFile => Visible # {})
  /\ IF Visible = {} THEN UNCHANGED proc
     ELSE \E p \in Visible : proc' = [proc EXCEPT ![p] = Ended]
  /\ Clear /\ UNCHANGED <<pc, mine, mode>>
-----------------------------------------------------------------------------
(* The ten seconds pass; a worker dies with its tasks, its scanner goes    *)
(* on; the service restarts, and the scanners stop with it.                *)
GraceEnds ==
  /\ statusFile.fresh /\ statusFile' = [statusFile EXCEPT !.fresh = FALSE]
  /\ UNCHANGED <<pc, mine, mode, lockFile, unlinks, proc, happened>>
Lose(cs) ==
  /\ pc' = [c \in Calls |-> IF c \in cs THEN "idle" ELSE pc[c]]
  /\ mine' = [c \in Calls |-> IF c \in cs THEN None ELSE mine[c]]
  /\ mode' = [c \in Calls |-> IF c \in cs THEN NoMode ELSE mode[c]]
  /\ UNCHANGED <<lockFile, statusFile>>
WorkerDies ==
  /\ Happen("crash")
  /\ \E cs \in SUBSET Calls \ {{}} : (\E c \in cs : pc[c] # "idle") /\ Lose(cs)
  /\ unlinks' \in 0 .. unlinks /\ UNCHANGED proc
ServiceRestarts ==
  /\ Happen("restart") /\ Lose(Calls) /\ unlinks' = 0 /\ proc' = [p \in Pids |-> Ended]

Task(c)  == Take(c) \/ Hold(c) \/ Start(c) \/ StartFails(c) \/ Register(c) \/ Waits(c) \/ Leave(c)
SlotNext ==
  \/ \E c \in Calls : AskScan(c) \/ Task(c)
  \/ AskState \/ Unlink \/ Cancel \/ GraceEnds \/ WorkerDies \/ ServiceRestarts
=============================================================================
