---------------------------- MODULE TrackerProofs ----------------------------
(***************************************************************************)
(* Proofs about ScanSlot and TrackerInventory, for any number of requests, *)
(* scanners and devices, any batch and any faults: the types, and what a   *)
(* scan may do to the rows of the inventory.                               *)
(***************************************************************************)
EXTENDS MCTracker, TLAPS

USE ModeAssumption, KindAssumption, BatchAssumption

(* A task that is to start a scanner knows which scan, and one that is to  *)
(* write the pid of its scanner has one.                                   *)
ModeKnown == \A c \in Calls : pc[c] \in {"queued", "taking", "starting"} => mode[c] \in Modes
PidKnown  == \A c \in Calls : pc[c] = "started" => mine[c] \in Pids

TrackerInvariant == TypeOK /\ ModeKnown /\ PidKnown

FileTypes ==
  /\ lockFile \in Pids \cup {0, None}
  /\ statusFile \in [pid : Pids \cup {0, None}, fresh : BOOLEAN]
  /\ statusFile.pid = None => statusFile = NoFile
  /\ unlinks \in 0 .. MaxUnlinks
TaskTypes ==
  /\ pc \in [Calls -> {"idle", "queued", "taking", "starting", "started", "waiting", "ended"}]
  /\ mine \in [Calls -> Pids \cup {None}] /\ mode \in [Calls -> Modes \cup {NoMode}]
TaskInvariant == TaskTypes /\ ModeKnown /\ PidKnown

LEMMA InvariantParts ==
  TrackerInvariant <=>
    /\ FileTypes /\ TaskInvariant /\ happened \in 0 .. MaxHappens
    /\ proc \in [Pids -> Bodies] /\ assets \in Tables
BY DEF TrackerInvariant, TypeOK, SlotTypeOK, FileTypes, TaskTypes, TaskInvariant

LEMMA PartsNext ==
  ASSUME FileTypes', TaskInvariant', happened' \in 0 .. MaxHappens,
         proc' \in [Pids -> Bodies], assets' \in Tables
  PROVE  TrackerInvariant'
BY DEF TrackerInvariant, TypeOK, SlotTypeOK, FileTypes, TaskTypes, TaskInvariant

LEMMA TrackerStarts == Init => TrackerInvariant
<1> SUFFICES ASSUME Init PROVE TrackerInvariant
  OBVIOUS
<1> USE DEF Init, SlotInit
<1>1. FileTypes
  BY DEF FileTypes, NoFile
<1>2. TaskInvariant
  BY DEF TaskInvariant, TaskTypes, ModeKnown, PidKnown
<1>3. proc \in [Pids -> Bodies] /\ assets \in Tables /\ happened \in 0 .. MaxHappens
  BY DEF Ended, Bodies, NoTable, Tables
<1> QED BY <1>1, <1>2, <1>3, InvariantParts

LEMMA WriteKeeps ==
  ASSUME FileTypes, NEW p \in Pids \cup {0}, NEW f \in BOOLEAN, Write(p, f)
  PROVE  FileTypes'
BY DEF FileTypes, Write, None, Pids, NoFile

LEMMA ClearKeeps ==
  ASSUME FileTypes, Clear
  PROVE  FileTypes'
BY DEF FileTypes, Clear

LEMMA FilesStay ==
  ASSUME FileTypes, UNCHANGED <<lockFile, statusFile, unlinks>>
  PROVE  FileTypes'
BY DEF FileTypes

LEMMA RepairKeeps ==
  ASSUME FileTypes, Repair
  PROVE  FileTypes'
<1>1. ASSUME NEW p \in Visible, Write(p, statusFile.fresh)
      PROVE  FileTypes'
  BY <1>1, WriteKeeps DEF Visible, Alive, FileTypes
<1> QED BY <1>1, ClearKeeps, FilesStay DEF Repair

LEMMA HappenCounts ==
  ASSUME happened \in 0 .. MaxHappens, NEW kind, Happen(kind)
  PROVE  happened' \in 0 .. MaxHappens
BY DEF Happen

(* What a step of a task does to its place, its pid and its scan.          *)
LEMMA TaskMoves ==
  ASSUME TaskInvariant, NEW c \in Calls,
         NEW at \in {"idle", "queued", "taking", "starting", "started", "waiting", "ended"},
         NEW p \in Pids \cup {None}, NEW m \in Modes \cup {NoMode},
         pc' = [pc EXCEPT ![c] = at], mine' = [mine EXCEPT ![c] = p], mode' = [mode EXCEPT ![c] = m],
         at \in {"queued", "taking", "starting"} => m \in Modes, at = "started" => p \in Pids
  PROVE  TaskInvariant'
<1>1. TaskTypes'
  BY DEF TaskInvariant, TaskTypes
<1>2. ModeKnown' /\ PidKnown'
  BY DEF TaskInvariant, TaskTypes, ModeKnown, PidKnown
<1> QED BY <1>1, <1>2 DEF TaskInvariant

LEMMA TasksStay ==
  ASSUME TaskInvariant, UNCHANGED <<pc, mine, mode>>
  PROVE  TaskInvariant'
BY DEF TaskInvariant, TaskTypes, ModeKnown, PidKnown

LEMMA TasksLost ==
  ASSUME TaskInvariant, FileTypes, NEW cs \in SUBSET Calls, Lose(cs)
  PROVE  TaskInvariant' /\ UNCHANGED <<lockFile, statusFile>>
<1>1. TaskTypes'
  BY DEF TaskInvariant, TaskTypes, Lose
<1>2. ModeKnown' /\ PidKnown'
  BY DEF TaskInvariant, TaskTypes, ModeKnown, PidKnown, Lose
<1> QED BY <1>1, <1>2 DEF TaskInvariant, Lose

(* A scanner starts or ends.                                               *)
LEMMA ScannerBorn ==
  ASSUME proc \in [Pids -> Bodies], NEW p \in Pids, NEW m \in Modes,
         proc' = [proc EXCEPT ![p] = [at |-> "boot", mode |-> m]]
  PROVE  proc' \in [Pids -> Bodies]
<1>1. [at |-> "boot", mode |-> m] \in Bodies
  BY DEF Bodies
<1> QED BY <1>1

LEMMA ScannerEnds ==
  ASSUME proc \in [Pids -> Bodies], NEW p \in Pids, proc' = [proc EXCEPT ![p] = Ended]
  PROVE  proc' \in [Pids -> Bodies]
<1>1. Ended \in Bodies
  BY DEF Bodies, Ended
<1> QED BY <1>1

LEMMA TaskStep ==
  ASSUME TrackerInvariant, NEW c \in Calls, AskScan(c) \/ Task(c), UNCHANGED assets
  PROVE  TrackerInvariant'
<1>0. /\ FileTypes /\ TaskInvariant /\ happened \in 0 .. MaxHappens
      /\ proc \in [Pids -> Bodies] /\ assets' \in Tables
  BY InvariantParts
<1>1. /\ pc = [pc EXCEPT ![c] = pc[c]] /\ mine = [mine EXCEPT ![c] = mine[c]]
      /\ mode = [mode EXCEPT ![c] = mode[c]]
      /\ mine[c] \in Pids \cup {None} /\ mode[c] \in Modes \cup {NoMode}
  BY <1>0 DEF TaskInvariant, TaskTypes
<1>2. CASE AskScan(c)
  <2>1. PICK m \in Modes :
          /\ \/ UNCHANGED <<lockFile, statusFile, unlinks>>
             \/ Repair
          /\ pc' = [pc EXCEPT ![c] = "queued"] /\ mode' = [mode EXCEPT ![c] = m]
    BY <1>2 DEF AskScan
  <2>2. happened' \in 0 .. MaxHappens /\ UNCHANGED <<mine, proc>>
    BY <1>0, <1>2, HappenCounts DEF AskScan
  <2>3. FileTypes'
    BY <1>0, <2>1, FilesStay, RepairKeeps
  <2>4. TaskInvariant'
    BY <1>0, <1>1, <2>1, <2>2, TaskMoves
  <2> QED BY <1>0, <2>2, <2>3, <2>4, PartsNext
<1>3. CASE Take(c)
  <2>1. FileTypes'
    BY <1>0, <1>3, FilesStay DEF Take
  <2>2. TaskInvariant'
    BY <1>0, <1>1, <1>3, TaskMoves DEF Take, TaskInvariant, ModeKnown
  <2> QED BY <1>0, <1>3, <2>1, <2>2, PartsNext DEF Take
<1>4. CASE Hold(c)
  <2>1. FileTypes'
    BY <1>0, <1>4, WriteKeeps DEF Hold
  <2>2. TaskInvariant'
    BY <1>0, <1>1, <1>4, TaskMoves DEF Hold, TaskInvariant, ModeKnown
  <2> QED BY <1>0, <1>4, <2>1, <2>2, PartsNext DEF Hold
<1>5. CASE Start(c)
  <2>1. PICK p \in Free : /\ mine' = [mine EXCEPT ![c] = p]
                          /\ proc' = [proc EXCEPT ![p] = [at |-> "boot", mode |-> mode[c]]]
    BY <1>5 DEF Start
  <2>2. p \in Pids /\ mode[c] \in Modes
    BY <1>0, <1>5 DEF Start, Free, TaskInvariant, ModeKnown
  <2>3. proc' \in [Pids -> Bodies]
    BY <1>0, <2>1, <2>2, ScannerBorn
  <2>4. FileTypes'
    BY <1>0, <1>5, FilesStay DEF Start
  <2>5. TaskInvariant'
    BY <1>0, <1>5, <2>1, <2>2, TaskMoves DEF Start
  <2> QED BY <1>0, <1>5, <2>3, <2>4, <2>5, PartsNext DEF Start
<1>6. CASE StartFails(c)
  <2>1. FileTypes' /\ happened' \in 0 .. MaxHappens
    BY <1>0, <1>6, FilesStay, HappenCounts DEF StartFails
  <2>2. TaskInvariant'
    BY <1>0, <1>1, <1>6, TaskMoves DEF StartFails
  <2> QED BY <1>0, <1>6, <2>1, <2>2, PartsNext DEF StartFails
<1>7. CASE Register(c)
  <2>1. mine[c] \in Pids
    BY <1>0, <1>7 DEF Register, TaskInvariant, PidKnown
  <2>2. FileTypes'
    BY <1>0, <1>7, <2>1, WriteKeeps DEF Register
  <2>3. TaskInvariant'
    BY <1>0, <1>1, <1>7, TaskMoves DEF Register
  <2> QED BY <1>0, <1>7, <2>2, <2>3, PartsNext DEF Register
<1>8. CASE Waits(c)
  <2>1. FileTypes'
    BY <1>0, <1>8, FilesStay DEF Waits
  <2>2. TaskInvariant'
    BY <1>0, <1>1, <1>8, TaskMoves DEF Waits
  <2>3. happened' \in 0 .. MaxHappens
    BY <1>0, <1>8, HappenCounts DEF Waits
  <2>4. proc' \in [Pids -> Bodies]
    BY <1>0, <1>8, ScannerEnds DEF Waits, Alive
  <2> QED BY <1>0, <2>1, <2>2, <2>3, <2>4, PartsNext
<1>9. CASE Leave(c)
  <2>1. FileTypes'
    BY <1>0, <1>9, ClearKeeps DEF Leave
  <2>2. TaskInvariant'
    BY <1>0, <1>9, TaskMoves DEF Leave
  <2> QED BY <1>0, <1>9, <2>1, <2>2, PartsNext DEF Leave
<1> QED BY <1>2, <1>3, <1>4, <1>5, <1>6, <1>7, <1>8, <1>9 DEF Task

LEMMA SlotStep ==
  ASSUME TrackerInvariant, SlotNext, UNCHANGED assets
  PROVE  TrackerInvariant'
<1>0. /\ FileTypes /\ TaskInvariant /\ happened \in 0 .. MaxHappens
      /\ proc \in [Pids -> Bodies] /\ assets' \in Tables
  BY InvariantParts
<1>1. ASSUME NEW c \in Calls, AskScan(c) \/ Task(c)
      PROVE  TrackerInvariant'
  BY <1>1, TaskStep
<1>2. CASE AskState
  <2>1. FileTypes' /\ TaskInvariant'
    BY <1>0, <1>2, RepairKeeps, TasksStay DEF AskState
  <2> QED BY <1>0, <1>2, <2>1, PartsNext DEF AskState
<1>3. CASE Unlink
  <2>1. FileTypes'
    BY <1>0, <1>3 DEF FileTypes, Unlink, NoFile, None
  <2>2. TaskInvariant'
    BY <1>0, <1>3, TasksStay DEF Unlink
  <2> QED BY <1>0, <1>3, <2>1, <2>2, PartsNext DEF Unlink
<1>4. CASE Cancel
  <2>1. FileTypes' /\ TaskInvariant' /\ happened' \in 0 .. MaxHappens
    BY <1>0, <1>4, ClearKeeps, TasksStay, HappenCounts DEF Cancel
  <2>2. proc' \in [Pids -> Bodies]
    BY <1>0, <1>4, ScannerEnds DEF Cancel, Visible, Alive
  <2> QED BY <1>0, <2>1, <2>2, PartsNext
<1>5. CASE GraceEnds
  <2>1. FileTypes'
    BY <1>0, <1>5 DEF FileTypes, GraceEnds, NoFile
  <2>2. TaskInvariant'
    BY <1>0, <1>5, TasksStay DEF GraceEnds
  <2> QED BY <1>0, <1>5, <2>1, <2>2, PartsNext DEF GraceEnds
<1>6. CASE WorkerDies
  <2>1. PICK cs \in SUBSET Calls : Lose(cs)
    BY <1>6 DEF WorkerDies
  <2>2. unlinks' \in 0 .. unlinks /\ proc' = proc /\ happened' \in 0 .. MaxHappens
    BY <1>0, <1>6, HappenCounts DEF WorkerDies
  <2>3. TaskInvariant' /\ UNCHANGED <<lockFile, statusFile>>
    BY <1>0, <2>1, TasksLost
  <2>4. FileTypes'
    BY <1>0, <2>2, <2>3 DEF FileTypes
  <2> QED BY <1>0, <2>2, <2>3, <2>4, PartsNext
<1>7. CASE ServiceRestarts
  <2>1. unlinks' = 0 /\ proc' = [p \in Pids |-> Ended] /\ happened' \in 0 .. MaxHappens
    BY <1>0, <1>7, HappenCounts DEF ServiceRestarts
  <2>2. TaskInvariant' /\ UNCHANGED <<lockFile, statusFile>>
    BY <1>0, <1>7, TasksLost DEF ServiceRestarts
  <2>3. FileTypes'
    BY <1>0, <2>1, <2>2 DEF FileTypes
  <2>4. proc' \in [Pids -> Bodies]
    BY <2>1 DEF Bodies, Ended
  <2> QED BY <1>0, <2>1, <2>2, <2>3, <2>4, PartsNext
<1> QED BY <1>1, <1>2, <1>3, <1>4, <1>5, <1>6, <1>7 DEF SlotNext

-----------------------------------------------------------------------------
(* The scanners and the panel.                                             *)
LEMMA SlotStays ==
  ASSUME TrackerInvariant, UNCHANGED slotVars, happened' \in 0 .. MaxHappens,
         proc' \in [Pids -> Bodies], assets' \in Tables
  PROVE  TrackerInvariant'
<1>1. FileTypes' /\ TaskInvariant'
  BY InvariantParts, FilesStay, TasksStay DEF slotVars
<1> QED BY <1>1, PartsNext

(* What a row becomes is a row.                                            *)
LEMMA SavedIsRow ==
  ASSUME NEW row \in Rows \cup {NoRow}, NEW found \in Extracted, NEW cred \in Creds \cup {Blank}
  PROVE  Saved(row, found, cred) \in Rows
<1>1. CASE row = NoRow
  BY <1>1 DEF Saved, Rows, Extracted
<1>2. CASE row # NoRow
  <2>1. row \in Rows
    BY <1>2
  <2> QED BY <1>2, <2>1 DEF Saved, Rows, Extracted, Wins
<1> QED BY <1>1, <1>2

LEMMA MergedIsRow ==
  ASSUME NEW row \in Rows \cup {NoRow}, NEW type \in Types
  PROVE  Merged(row, type) \in Rows
<1>1. CASE row = NoRow
  BY <1>1 DEF Merged, Rows, Probes
<1>2. CASE row # NoRow
  BY <1>2 DEF Merged, Rows, Wins
<1> QED BY <1>1, <1>2

(* What a scanner that saves has in hand.                                  *)
LEMMA SavingParts ==
  ASSUME proc \in [Pids -> Bodies], NEW p \in Pids, proc[p].at = "saving"
  PROVE  /\ proc[p] \in [at : {"saving"}, mode : Modes, todo : SUBSET Keys, saved : SUBSET Keys,
                          creds : [Hosts -> Creds \cup {Blank}]]
BY DEF Bodies

LEMMA BodyStep ==
  ASSUME proc \in [Pids -> Bodies], NEW p \in Pids, proc[p].at = "saving",
         NEW todo \in SUBSET Keys, NEW saved \in SUBSET Keys,
         proc' = [proc EXCEPT ![p] = [proc[p] EXCEPT !.todo = todo, !.saved = saved]]
  PROVE  proc' \in [Pids -> Bodies]
<1>1. [proc[p] EXCEPT !.todo = todo, !.saved = saved]
        \in [at : {"saving"}, mode : Modes, todo : SUBSET Keys, saved : SUBSET Keys,
             creds : [Hosts -> Creds \cup {Blank}]]
  BY SavingParts
<1> QED BY <1>1 DEF Bodies

LEMMA ScannerStep ==
  ASSUME TrackerInvariant, NEW p \in Pids, Scanner(p) \/ HostFails(p) \/ ScannerFails(p)
  PROVE  TrackerInvariant'
<1>0. happened \in 0 .. MaxHappens /\ proc \in [Pids -> Bodies] /\ assets \in Tables
  BY InvariantParts
<1>1. UNCHANGED slotVars
  BY DEF Scanner, Begins, Lists, QuickSaves, DeepSaves, DeepEnds, HostFails, ScannerFails
<1>2. happened' \in 0 .. MaxHappens
  BY <1>0, HappenCounts
  DEF Scanner, Begins, Lists, QuickSaves, DeepSaves, DeepEnds, HostFails, ScannerFails
<1>3. CASE Begins(p)
  <2>1. [proc[p] EXCEPT !.at = "begun"] \in Bodies
    BY <1>0, <1>3 DEF Begins, Bodies
  <2> QED BY <1>0, <1>1, <1>2, <1>3, <2>1, SlotStays DEF Begins
<1>4. CASE Lists(p)
  <2>1. PICK S \in Listings, creds \in [Hosts -> Creds \cup {Blank}] :
          proc' = [proc EXCEPT ![p] = IF S = {} THEN Ended ELSE
            [at |-> "saving", mode |-> proc[p].mode, todo |-> S, saved |-> {}, creds |-> creds]]
    BY <1>4 DEF Lists
  <2>2. proc[p].mode \in Modes
    BY <1>0, <1>4 DEF Lists, Bodies
  <2>3. [at |-> "saving", mode |-> proc[p].mode, todo |-> S, saved |-> {}, creds |-> creds] \in Bodies
    BY <2>2 DEF Bodies, Listings
  <2>4. proc' \in [Pids -> Bodies]
    BY <1>0, <2>1, <2>3, ScannerEnds
  <2> QED BY <1>0, <1>1, <1>2, <1>4, <2>4, SlotStays DEF Lists
<1>5. CASE QuickSaves(p)
  <2>1. PICK new \in [proc[p].todo -> Types] :
          assets' = [k \in Keys |-> IF k \in proc[p].todo THEN Merged(assets[k], new[k]) ELSE assets[k]]
    BY <1>5 DEF QuickSaves
  <2>2. \A k \in Keys : assets[k] \in Rows \cup {NoRow}
    BY <1>0 DEF Tables
  <2>3. \A k \in Keys : assets'[k] \in Rows \cup {NoRow}
    BY <2>1, <2>2, MergedIsRow
  <2>4. assets' \in Tables
    BY <2>1, <2>3 DEF Tables
  <2>5. proc' \in [Pids -> Bodies]
    BY <1>0, <1>5, ScannerEnds DEF QuickSaves
  <2> QED BY <1>1, <1>2, <2>4, <2>5, SlotStays
<1>6. CASE DeepSaves(p)
  <2>0. PICK B \in SUBSET proc[p].todo :
          /\ \E found \in [B -> Extracted] : assets' = [k \in Keys |->
               IF k \in B THEN Saved(assets[k], found[k], proc[p].creds[k[1]])
               ELSE IF Superseded(k, B) THEN NoRow ELSE assets[k]]
          /\ proc' = [proc EXCEPT ![p].todo = @ \ B,
                                  ![p].saved = IF proc[p].mode = "replace" THEN @ \cup B ELSE @]
    BY <1>6 DEF DeepSaves
  <2>1. PICK found \in [B -> Extracted] :
          /\ assets' = [k \in Keys |->
               IF k \in B THEN Saved(assets[k], found[k], proc[p].creds[k[1]])
               ELSE IF Superseded(k, B) THEN NoRow ELSE assets[k]]
          /\ proc' = [proc EXCEPT ![p].todo = @ \ B,
                                  ![p].saved = IF proc[p].mode = "replace" THEN @ \cup B ELSE @]
    BY <2>0
  <2>2. /\ proc[p].at = "saving" /\ proc[p].todo \subseteq Keys /\ proc[p].saved \subseteq Keys
        /\ \A h \in Hosts : proc[p].creds[h] \in Creds \cup {Blank}
    BY <1>0, <1>6, SavingParts DEF DeepSaves
  <2>3. \A k \in Keys : assets[k] \in Rows \cup {NoRow} /\ k[1] \in Hosts
    BY <1>0 DEF Tables, Keys
  <2>4. ASSUME NEW k \in Keys
        PROVE  assets'[k] \in Rows \cup {NoRow}
    <3>1. CASE k \in B
      <4>1. found[k] \in Extracted /\ proc[p].creds[k[1]] \in Creds \cup {Blank}
        BY <2>1, <2>2, <2>3, <3>1
      <4> QED BY <2>1, <2>3, <3>1, <4>1, SavedIsRow
    <3>2. CASE k \notin B
      BY <2>1, <2>3, <3>2
    <3> QED BY <3>1, <3>2
  <2>5. assets' \in Tables
    BY <2>1, <2>4 DEF Tables
  <2> DEFINE todo  == proc[p].todo \ B
             saved == IF proc[p].mode = "replace" THEN proc[p].saved \cup B ELSE proc[p].saved
  <2>6. proc' = [proc EXCEPT ![p] = [proc[p] EXCEPT !.todo = todo, !.saved = saved]]
    BY <2>1
  <2>7. todo \in SUBSET Keys /\ saved \in SUBSET Keys
    BY <2>1, <2>2
  <2>8. proc' \in [Pids -> Bodies]
    BY <1>0, <2>2, <2>6, <2>7, BodyStep
  <2> QED BY <1>1, <1>2, <2>5, <2>8, SlotStays
<1>7. CASE DeepEnds(p)
  <2>1. assets' \in Tables
    BY <1>0, <1>7 DEF DeepEnds, Tables
  <2>2. proc' \in [Pids -> Bodies]
    BY <1>0, <1>7, ScannerEnds DEF DeepEnds
  <2> QED BY <1>1, <1>2, <2>1, <2>2, SlotStays
<1>8. CASE HostFails(p)
  <2>1. PICK k \in proc[p].todo : proc' = [proc EXCEPT ![p].todo = @ \ {k}]
    BY <1>8 DEF HostFails
  <2>2. proc[p].at = "saving" /\ proc[p].todo \subseteq Keys /\ proc[p].saved \subseteq Keys
    BY <1>0, <1>8, SavingParts DEF HostFails
  <2> DEFINE todo == proc[p].todo \ {k}
  <2>3. proc' = [proc EXCEPT ![p] = [proc[p] EXCEPT !.todo = todo, !.saved = proc[p].saved]]
    BY <1>0, <2>1, <2>2, SavingParts
  <2>4. proc' \in [Pids -> Bodies]
    BY <1>0, <2>2, <2>3, BodyStep
  <2> QED BY <1>0, <1>1, <1>2, <1>8, <2>4, SlotStays DEF HostFails
<1>9. CASE ScannerFails(p)
  BY <1>0, <1>1, <1>2, <1>9, ScannerEnds, SlotStays DEF ScannerFails
<1> QED BY <1>3, <1>4, <1>5, <1>6, <1>7, <1>8, <1>9 DEF Scanner

LEMMA PanelStep ==
  ASSUME TrackerInvariant, Panel
  PROVE  TrackerInvariant'
<1>0. happened \in 0 .. MaxHappens /\ proc \in [Pids -> Bodies] /\ assets \in Tables
  BY InvariantParts
<1>1. UNCHANGED <<slotVars, proc>> /\ happened' \in 0 .. MaxHappens
  BY <1>0, HappenCounts DEF Panel, Edit, Delete, Archive
<1>2. CASE Edit
  <2>1. PICK k \in Keys, type \in Types, cred \in Creds \cup {Blank} :
          assets[k] # NoRow /\ assets' = [assets EXCEPT ![k].type = type, ![k].cred = cred]
    BY <1>2 DEF Edit
  <2>2. assets[k] \in Rows
    BY <1>0, <2>1 DEF Tables
  <2>3. [assets[k] EXCEPT !.type = type, !.cred = cred] \in Rows
    BY <2>2 DEF Rows
  <2>4. assets' = [assets EXCEPT ![k] = [assets[k] EXCEPT !.type = type, !.cred = cred]]
    BY <1>0, <2>1, <2>2 DEF Tables, Rows
  <2>5. assets' \in Tables
    BY <1>0, <2>3, <2>4 DEF Tables
  <2> QED BY <1>0, <1>1, <2>5, SlotStays
<1>3. CASE Delete
  <2>1. assets' \in Tables
    BY <1>0, <1>3 DEF Delete, Tables
  <2> QED BY <1>0, <1>1, <2>1, SlotStays
<1>4. CASE Archive
  <2>1. assets' \in Tables
    BY <1>4 DEF Archive, Tables, NoTable
  <2> QED BY <1>0, <1>1, <2>1, SlotStays
<1> QED BY <1>2, <1>3, <1>4 DEF Panel

LEMMA StutterKeeps ==
  ASSUME TrackerInvariant, UNCHANGED trackerVars
  PROVE  TrackerInvariant'
BY InvariantParts, SlotStays DEF trackerVars

-----------------------------------------------------------------------------
(* What a scanner spares of a row.                                         *)
NothingLost(p, k) ==
  /\ assets'[k] # NoRow
  /\ assets[k].type # Blank => assets'[k].type # Blank
  /\ assets[k].cred # Blank => assets'[k].cred # Blank
  /\ ~IsDeep(p) => assets'[k].probe = assets[k].probe

LEMMA NothingLostSpares ==
  ASSUME NEW p \in Pids, NEW k \in Keys, NothingLost(p, k)
  PROVE  Spared(p, k)
BY DEF NothingLost, Spared

(* A row has a type, which is what tells it from none.                     *)
LEMMA RowIsNotNone == NoRow \notin Rows
<1> SUFFICES ASSUME NoRow \in Rows PROVE FALSE
  OBVIOUS
<1>1. DOMAIN NoRow = {"kind"}
  BY DEF NoRow
<1>2. DOMAIN NoRow = {"type", "probe", "cred"}
  BY DEF Rows
<1> QED BY <1>1, <1>2

LEMMA QuickSpares ==
  ASSUME TrackerInvariant, NEW p \in Pids, QuickSaves(p), NEW k \in Keys, assets[k] # NoRow
  PROVE  Spared(p, k)
<1>1. assets[k] \in Rows
  BY DEF TrackerInvariant, TypeOK, Tables
<1>2. PICK new \in [proc[p].todo -> Types] :
        assets' = [j \in Keys |-> IF j \in proc[p].todo THEN Merged(assets[j], new[j]) ELSE assets[j]]
  BY DEF QuickSaves
<1>3. CASE k \in proc[p].todo
  <2>1. assets'[k] = Merged(assets[k], new[k]) /\ new[k] \in Types
    BY <1>2, <1>3
  <2>2. assets'[k] \in Rows
    BY <1>1, <2>1, MergedIsRow
  <2>3. assets'[k] = [assets[k] EXCEPT !.type = Wins(new[k], @)]
    BY <2>1 DEF Merged
  <2>4. NothingLost(p, k)
    BY <1>1, <2>2, <2>3, RowIsNotNone DEF NothingLost, Rows, Wins
  <2> QED BY <2>4, NothingLostSpares
<1>4. CASE k \notin proc[p].todo
  BY <1>2, <1>4, NothingLostSpares DEF NothingLost
<1> QED BY <1>3, <1>4

LEMMA DeepSpares ==
  ASSUME TrackerInvariant, NEW p \in Pids, DeepSaves(p), NEW k \in Keys, assets[k] # NoRow
  PROVE  Spared(p, k)
<1>1. /\ assets \in [Keys -> Rows \cup {NoRow}] /\ assets[k] \in Rows /\ IsDeep(p)
      /\ proc[p].at = "saving" /\ proc \in [Pids -> Bodies]
  BY DEF TrackerInvariant, TypeOK, Tables, DeepSaves
<1>2. PICK B \in SUBSET proc[p].todo :
        \E found \in [B -> Extracted] : assets' = [j \in Keys |->
          IF j \in B THEN Saved(assets[j], found[j], proc[p].creds[j[1]])
          ELSE IF Superseded(j, B) THEN NoRow ELSE assets[j]]
  BY DEF DeepSaves
<1>3. PICK found \in [B -> Extracted] : assets' = [j \in Keys |->
          IF j \in B THEN Saved(assets[j], found[j], proc[p].creds[j[1]])
          ELSE IF Superseded(j, B) THEN NoRow ELSE assets[j]]
  BY <1>2
<1>4. B \subseteq Keys /\ \A h \in Hosts : proc[p].creds[h] \in Creds \cup {Blank}
  BY <1>1, SavingParts
<1>5. ASSUME NEW j \in B
      PROVE  assets'[j] = Saved(assets[j], found[j], proc[p].creds[j[1]]) /\ assets'[j] \in Rows
  <2>1. j \in Keys /\ j[1] \in Hosts
    BY <1>4 DEF Keys
  <2>2. assets[j] \in Rows \cup {NoRow} /\ found[j] \in Extracted /\ proc[p].creds[j[1]] \in Creds \cup {Blank}
    BY <1>1, <1>4, <2>1
  <2>3. assets'[j] = Saved(assets[j], found[j], proc[p].creds[j[1]])
    BY <1>3, <2>1
  <2> QED BY <2>2, <2>3, SavedIsRow
<1>6. CASE k \in B
  <2>1. assets'[k] \in Rows /\ assets'[k] = Saved(assets[k], found[k], proc[p].creds[k[1]])
    BY <1>5, <1>6
  <2>2. NothingLost(p, k)
    BY <1>1, <2>1, RowIsNotNone DEF NothingLost, Saved, Rows, Wins
  <2> QED BY <2>2, NothingLostSpares
<1>7. CASE k \notin B /\ Superseded(k, B)
  <2>1. <<k[1], "mac">> \in B /\ Superseded(k, Keys)
    BY <1>4, <1>7 DEF Superseded
  <2>2. assets'[<<k[1], "mac">>] # NoRow /\ assets'[k] = NoRow
    BY <1>3, <1>5, <1>7, <2>1, RowIsNotNone
  <2> QED BY <2>1, <2>2 DEF Spared
<1>8. CASE k \notin B /\ ~Superseded(k, B)
  BY <1>1, <1>3, <1>8, NothingLostSpares DEF NothingLost
<1> QED BY <1>6, <1>7, <1>8

LEMMA EndSpares ==
  ASSUME TrackerInvariant, NEW p \in Pids, DeepEnds(p), NEW k \in Keys, assets[k] # NoRow
  PROVE  Spared(p, k)
<1>1. assets'[k] = IF k \in Left(p) THEN assets[k] ELSE NoRow
  BY DEF DeepEnds
<1>2. CASE k \in Left(p)
  BY <1>1, <1>2, NothingLostSpares DEF NothingLost
<1>3. CASE k \notin Left(p)
  <2>1. proc[p].mode = "replace" /\ k \notin proc[p].saved
    BY <1>3 DEF Left
  <2> QED BY <1>1, <1>3, <2>1 DEF Spared
<1> QED BY <1>2, <1>3

LEMMA RestSpares ==
  ASSUME NEW p \in Pids, Begins(p) \/ Lists(p), NEW k \in Keys, assets[k] # NoRow
  PROVE  Spared(p, k)
BY NothingLostSpares DEF NothingLost, Begins, Lists

-----------------------------------------------------------------------------
(* A task that starts a scanner knows which, the two files hold pids of    *)
(* scanners, and every row is one, whatever requests, tasks that die and   *)
(* scanners that overlap do (tracker_discovery.py, persistence.py).        *)
THEOREM TrackerInvariantCorrect == Spec => []TrackerInvariant
<1>1. TrackerInvariant /\ [Next]_trackerVars => TrackerInvariant'
  BY SlotStep, ScannerStep, PanelStep, StutterKeeps DEF Next
<1> QED BY <1>1, TrackerStarts, PTL DEF Spec

(* No scan, whatever else runs, empties a column of a row or takes it      *)
(* away, but the row of an address whose MAC is now known and, when it     *)
(* replaces, those it did not save; a quick scan leaves the outcome of the *)
(* deep one (save_assets, merge_quick_scan_assets of persistence.py).      *)
THEOREM RowsSparedCorrect == Spec => RowsSpared
<1>1. TrackerInvariant /\ [Next]_trackerVars =>
        [\A p \in Pids : Scanner(p) => \A k \in Keys : assets[k] # NoRow => Spared(p, k)]_trackerVars
  <2> SUFFICES ASSUME TrackerInvariant, NEW p \in Pids, Scanner(p), NEW k \in Keys, assets[k] # NoRow
               PROVE  Spared(p, k)
    OBVIOUS
  <2> QED BY QuickSpares, DeepSpares, EndSpares, RestSpares DEF Scanner
<1>2. TrackerInvariant => TypeOK
  BY DEF TrackerInvariant
<1> QED BY <1>1, <1>2, TrackerInvariantCorrect, PTL DEF Spec, RowsSpared, ScansSpareRows
=============================================================================
