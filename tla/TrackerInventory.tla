-------------------------- MODULE TrackerInventory --------------------------
(***************************************************************************)
(* The inventory of the network (inventory.db) between the scanners        *)
(* (app/scripts/scanner.py and app/scripts/tracker/), and the panel that   *)
(* edits, deletes and archives the same rows (app/api/tracker*.py).        *)
(*                                                                         *)
(* A row is kept under the MAC of the device, or under ip-<address> when   *)
(* the scan did not learn its MAC; both may exist for one device.  Of the  *)
(* sixty columns a row keeps here three: the type of the device, which a   *)
(* scan finds, guesses or leaves empty; the outcome of the protocols that  *)
(* were tried; the credentials the operator wrote for its address, which   *)
(* a deep scan reads when it begins and saves with what it found.          *)
(*                                                                         *)
(* External: nmap, the ARP table, what answers SNMP, WMI, SSH and HTTP.    *)
(* Abstracted: addresses do not move between devices; one step deletes the *)
(* row of an address and writes that of the MAC.                           *)
(***************************************************************************)
EXTENDS ScanSlot

CONSTANTS
  Hosts,   \* the devices of the network
  Creds,   \* what the operator may write as credentials
  Batch    \* SAVE_BATCH_SIZE

ASSUME BatchAssumption == Batch \in Nat \ {0}

VARIABLES
  assets       \* the table assets

trackerVars == <<slotVars, proc, happened, assets>>

Keys   == Hosts \X {"mac", "ip"}
NoRow  == [kind |-> "none"]
Blank  == ""
Types  == {Blank, "known"}
Probes == {"missed", "OK"}   \* not attempted, refused, timed out: missed
Rows   == [type : Types, probe : Probes, cred : Creds \cup {Blank}]
Tables == [Keys -> Rows \cup {NoRow}]
NoTable == [k \in Keys |-> NoRow]

Bodies ==
  [at : {"none"}] \cup [at : {"boot", "begun"}, mode : Modes]
    \cup [at : {"saving"}, mode : Modes, todo : SUBSET Keys, saved : SUBSET Keys,
          creds : [Hosts -> Creds \cup {Blank}]]

TypeOK ==
  /\ SlotTypeOK /\ proc \in [Pids -> Bodies]
  /\ assets \in Tables

Init ==
  /\ SlotInit /\ proc = [p \in Pids |-> Ended]
  /\ assets = NoTable
-----------------------------------------------------------------------------
(* Mutant of Wins: the last value wins.                                    *)
Wins_Last(new, old) == new

(* ON CONFLICT(mac) DO UPDATE: a value that is not empty wins.             *)
Wins(new, old) == IF new # Blank THEN new ELSE old

(* save_assets, for a host the deep scan processed.                        *)
Saved(row, found, cred) ==
  IF row = NoRow THEN [type |-> found.type, probe |-> found.probe, cred |-> cred]
  ELSE [type |-> Wins(found.type, row.type), probe |-> found.probe, cred |-> Wins(cred, row.cred)]

(* merge_quick_scan_assets.                                                *)
Merged(row, type) ==
  IF row = NoRow THEN [type |-> type, probe |-> "missed", cred |-> Blank]
                 ELSE [row EXCEPT !.type = Wins(type, @)]

(* What a deep scan may learn of a host: LLDP, SNMP, WMI, SSH or its web   *)
(* page may tell its type, or its vendor suggest it; a protocol that told  *)
(* nothing was missed.  A quick scan has the type only.                    *)
Extracted == [type : Types, probe : Probes]

(* get_overrides_by_ip: of the two rows of an address, one or the other.   *)
Override(h, cred) ==
  \/ \E k \in {<<h, "mac">>, <<h, "ip">>} : assets[k] # NoRow /\ cred = assets[k].cred
  \/ (\A k \in {<<h, "mac">>, <<h, "ip">>} : assets[k] = NoRow) /\ cred = Blank

(* discovery_nmap: those that answered or are in the ARP table, by their   *)
(* MAC where it is known, each once (_dedupe_hosts_by_mac).                *)
Listings == {S \in SUBSET Keys : \A h \in Hosts : ~({<<h, "mac">>, <<h, "ip">>} \subseteq S)}

IsDeep(p) == proc[p].mode # "quick"
-----------------------------------------------------------------------------
(* The scanner: it appears in the list of processes, lists the network, a  *)
(* deep one after it read the credentials, and saves.                      *)
Begins(p) ==
  /\ proc[p].at = "boot" /\ proc' = [proc EXCEPT ![p].at = "begun"]
  /\ UNCHANGED <<slotVars, assets, happened>>
Lists(p) ==
  /\ proc[p].at = "begun"
  /\ \E S \in Listings, creds \in [Hosts -> Creds \cup {Blank}] :
       /\ \A h \in Hosts : IF IsDeep(p) THEN Override(h, creds[h]) ELSE creds[h] = Blank
       /\ proc' = [proc EXCEPT ![p] = IF S = {} THEN Ended ELSE
            [at |-> "saving", mode |-> proc[p].mode, todo |-> S, saved |-> {}, creds |-> creds]]
  /\ UNCHANGED <<slotVars, assets, happened>>

(* run_quick_scan: all at once.                                            *)
QuickSaves(p) ==
  /\ proc[p].at = "saving" /\ ~IsDeep(p)
  /\ \E new \in [proc[p].todo -> Types] :
       assets' = [k \in Keys |-> IF k \in proc[p].todo THEN Merged(assets[k], new[k]) ELSE assets[k]]
  /\ proc' = [proc EXCEPT ![p] = Ended] /\ UNCHANGED <<slotVars, happened>>

(* run_scan: the hosts that were processed, by batches; the rest at last.  *)
(* save_assets drops the row of the address of a host whose MAC it has.    *)
Superseded(k, B) == k[2] = "ip" /\ <<k[1], "mac">> \in B
DeepSaves(p) ==
  /\ proc[p].at = "saving" /\ IsDeep(p) /\ proc[p].todo # {}
  /\ \E B \in SUBSET proc[p].todo :
       /\ Cardinality(B) = Batch \/ B = proc[p].todo
       /\ \E found \in [B -> Extracted] :
            assets' = [k \in Keys |->
              IF k \in B THEN Saved(assets[k], found[k], proc[p].creds[k[1]])
              ELSE IF Superseded(k, B) THEN NoRow ELSE assets[k]]
       /\ proc' = [proc EXCEPT ![p].todo = @ \ B, ![p].saved = IF proc[p].mode = "replace" THEN @ \cup B ELSE @]
  /\ UNCHANGED <<slotVars, happened>>
(* The processing of a host raises: it is left out.                        *)
HostFails(p) ==
  /\ proc[p].at = "saving" /\ IsDeep(p) /\ Happen("fail")
  /\ \E k \in proc[p].todo : proc' = [proc EXCEPT ![p].todo = @ \ {k}]
  /\ UNCHANGED <<slotVars, assets>>
(* INVENTORY_SCAN_REPLACE: what this scan did not save goes.               *)
Left(p) == IF proc[p].mode = "replace" /\ proc[p].saved # {} THEN proc[p].saved ELSE Keys
DeepEnds(p) ==
  /\ proc[p].at = "saving" /\ IsDeep(p) /\ proc[p].todo = {}
  /\ assets' = [k \in Keys |-> IF k \in Left(p) THEN assets[k] ELSE NoRow]
  /\ proc' = [proc EXCEPT ![p] = Ended] /\ UNCHANGED <<slotVars, happened>>

(* nmap that never ends, a locked database.                                *)
ScannerFails(p) ==
  /\ p \in Visible /\ Happen("fail") /\ proc' = [proc EXCEPT ![p] = Ended]
  /\ UNCHANGED <<slotVars, assets>>

Scanner(p) == Begins(p) \/ Lists(p) \/ QuickSaves(p) \/ DeepSaves(p) \/ DeepEnds(p)
-----------------------------------------------------------------------------
(* The panel.  update_asset changes the row it found; delete_asset;        *)
(* close_and_archive_inventory leaves the table empty.                     *)
Edit ==
  /\ Happen("edit")
  /\ \E k \in Keys : assets[k] # NoRow /\ \E type \in Types, cred \in Creds \cup {Blank} :
       assets' = [assets EXCEPT ![k].type = type, ![k].cred = cred]
  /\ UNCHANGED <<slotVars, proc>>
Delete ==
  /\ Happen("delete") /\ \E k \in Keys : assets[k] # NoRow /\ assets' = [assets EXCEPT ![k] = NoRow]
  /\ UNCHANGED <<slotVars, proc>>
Archive ==
  /\ Happen("archive") /\ assets # NoTable /\ assets' = NoTable
  /\ UNCHANGED <<slotVars, proc>>

Panel == Edit \/ Delete \/ Archive

Next ==
  \/ SlotNext /\ UNCHANGED assets
  \/ \E p \in Pids : Scanner(p) \/ HostFails(p) \/ ScannerFails(p)
  \/ Panel

(* The tasks and the scanners are processes; the grace is a matter of      *)
(* time; while somebody looks at the panel it asks for the state.          *)
Fairness ==
  /\ \A c \in Calls : WF_trackerVars(Task(c) /\ UNCHANGED assets)
  /\ \A p \in Pids : WF_trackerVars(Scanner(p))
  /\ WF_trackerVars(Unlink /\ UNCHANGED assets)
  /\ WF_trackerVars(GraceEnds /\ UNCHANGED assets)
  /\ WF_trackerVars(AskState /\ UNCHANGED assets)
Spec     == Init /\ [][Next]_trackerVars
FairSpec == Spec /\ Fairness
-----------------------------------------------------------------------------
(* No scan, whatever else runs, empties a column or takes a row away,      *)
(* except the row of an address whose MAC is now known, and, when it       *)
(* replaces, the rows it did not save itself; a quick scan leaves the      *)
(* outcome of the deep one ("preserva resultado del deep scan",            *)
(* persistence.py:270).                                                    *)
Spared(p, k) ==
  /\ \/ assets'[k] # NoRow
     \/ Superseded(k, Keys) /\ assets'[<<k[1], "mac">>] # NoRow
     \/ proc[p].mode = "replace" /\ k \notin proc[p].saved
  /\ assets'[k] # NoRow =>
       /\ assets[k].type # Blank => assets'[k].type # Blank
       /\ assets[k].cred # Blank => assets'[k].cred # Blank
       /\ ~IsDeep(p) => assets'[k].probe = assets[k].probe
ScansSpareRows ==
  [][\A p \in Pids : Scanner(p) => \A k \in Keys : assets[k] # NoRow => Spared(p, k)]_trackerVars

(* The panel never waits for ever for a scan that is not there: whatever   *)
(* died, was cancelled or overlapped, get_scan_status comes to answer that *)
(* nothing runs (tracker_discovery.py:149-155, the status file that could  *)
(* not be read and left it running for ever).                              *)
SlotFreed == []<>~Running
=============================================================================
