----------------------------- MODULE NetworkAudit -----------------------------
(***************************************************************************)
(* The audit of the network (shomer_audit_network.py): an operator starts  *)
(* a scan; a task of the worker that took the request runs nmap over the   *)
(* addresses of the inventory and keeps one finding per open port, then    *)
(* asks the hosts that answered for pending patches and keeps those too;   *)
(* operators change the state of the findings and an administrator deletes *)
(* them, while scans run.                                                  *)
(*                                                                         *)
(* Whether a scan runs is a flag of each worker.  A finding is looked up   *)
(* before it is written; sqlite3 begins its transaction at the first       *)
(* write, so the first look of a scan is outside it and the others inside. *)
(*                                                                         *)
(* Abstracted: a key is an address, port and protocol, those of the patch  *)
(* findings included (0/wmi and 22/ssh); the texts and the severity.       *)
(* External: nmap, ssh and WMI, which see what is open or pending.         *)
(***************************************************************************)
EXTENDS Naturals, FiniteSets

CONSTANTS
  AuditWorkers, \* the uvicorn workers
  PortKeys,     \* what nmap may find open
  PatchKeys,    \* what the audit of patches may find pending
  MaxScans,     \* bound: rows of network_audit_scans
  MaxFindings,  \* bound: rows ever written to network_audit_findings
  MaxChanges    \* bound: steps of operators, the network, failures, restarts

ASSUME AuditAssumption ==
  IsFiniteSet(PortKeys \cup PatchKeys) /\ {MaxScans, MaxFindings, MaxChanges} \subseteq Nat

VARIABLES
  scanFlag,   \* _scan_running of each worker
  scans,      \* network_audit_scans: [status, worker] by id
  audit,      \* what the task of each scan does
  findings,   \* network_audit_findings: [key, status] by id
  exposed,    \* ports open and patches pending
  changes     \* bound: how many of them happened

auditVars == <<scanFlag, scans, audit, findings, exposed, changes>>

Scans     == 1..MaxScans
Ids       == 1..MaxFindings
AuditKeys == PortKeys \cup PatchKeys
NoTask    == [at |-> "none"]
NoScan    == [status |-> "none"]
NoFinding == [status |-> "none"]
Statuses  == {"pendiente", "en_revision", "terminado"}
NoId      == 0

(* What a task saw, and of what it saw the first key and its row.          *)
Saving == [at : {"saving"}, pass : {"ports", "patches"}, seen : SUBSET AuditKeys,
           first : AuditKeys, row : {NoId} \cup Ids, was : Statuses, kept : BOOLEAN]

Change == changes < MaxChanges /\ changes' = changes + 1
-----------------------------------------------------------------------------
(* Ids are never used again, and a scan reads the last row of a key.       *)
RowsOf(k)  == {i \in Ids : findings[i].status \notin {"none", "deleted"} /\ findings[i].key = k}
LastRow(k) == IF RowsOf(k) = {} THEN NoId ELSE CHOOSE i \in RowsOf(k) : \A j \in RowsOf(k) : j <= i
NextId     == Cardinality({i \in Ids : findings[i].status # "none"}) + 1
Room(n)    == NextId + n <= MaxFindings + 1

(* Mutant of Reopened: what the operator ended stays so.                   *)
Reopened_Kept(status) == status

(* A finding that was ended and is seen again is pending again.            *)
Reopened(status) == IF status = "terminado" THEN "pendiente" ELSE status
-----------------------------------------------------------------------------
(* start_network_scan: the flag it looks at is set by the task, later.     *)
StartScan(w) ==
  /\ ~scanFlag[w]
  /\ \E s \in Scans :
       /\ scans[s] = NoScan /\ \A r \in Scans : r < s => scans[r] # NoScan
       /\ scans' = [scans EXCEPT ![s] = [status |-> "running", worker |-> w]]
       /\ audit'  = [audit  EXCEPT ![s] = [at |-> "created"]]
  /\ UNCHANGED <<scanFlag, findings, exposed, changes>>

(* _do_scan.                                                               *)
WorkerOf(s) == scans[s].worker
TaskBegins(s) ==
  /\ audit[s].at = "created"
  /\ scanFlag' = [scanFlag EXCEPT ![WorkerOf(s)] = TRUE]
  /\ audit' = [audit EXCEPT ![s] = [at |-> "nmap"]]
  /\ UNCHANGED <<scans, findings, exposed, changes>>

FlagDown(s) == [scanFlag EXCEPT ![WorkerOf(s)] = FALSE]
AuditEnds(s, status) ==
  /\ scans' = [scans EXCEPT ![s].status = status] /\ audit' = [audit EXCEPT ![s] = NoTask]
  /\ scanFlag' = FlagDown(s)

(* The look at the first of the keys a task has to keep.                   *)
Looks(s, pass, seen) ==
  \E k \in seen : \E row \in {LastRow(k)} :
    audit' = [audit EXCEPT ![s] =
      [at |-> "saving", pass |-> pass, seen |-> seen, first |-> k, row |-> row,
       was |-> IF row = NoId THEN "pendiente" ELSE findings[row].status, kept |-> TRUE]]

(* _run_nmap and _parse_nmap_xml; the informational ports are no keys.     *)
(* With no open port there is nothing to keep, and the patches follow.     *)
NmapEnds(s) ==
  /\ audit[s].at = "nmap"
  /\ LET seen == exposed \cap PortKeys IN
       IF seen # {} THEN Looks(s, "ports", seen) ELSE audit' = [audit EXCEPT ![s] = [at |-> "patches"]]
  /\ UNCHANGED <<scanFlag, scans, findings, exposed, changes>>
(* _run_patch_audit, over the hosts with credentials that answered nmap: a *)
(* host that cannot be asked tells nothing.                                *)
PatchAnswers == SUBSET (exposed \cap PatchKeys)
PatchesAsked(s) ==
  /\ audit[s].at = "patches"
  /\ \E seen \in PatchAnswers :
       IF seen # {} THEN Looks(s, "patches", seen) /\ UNCHANGED <<scans, scanFlag>>
       ELSE AuditEnds(s, "completed")
  /\ UNCHANGED <<findings, exposed, changes>>
(* No asset in the inventory, and nothing to scan.                         *)
NothingToScan(s) ==
  /\ audit[s].at = "nmap" /\ Change /\ AuditEnds(s, "completed")
  /\ UNCHANGED <<findings, exposed>>
(* nmap gives nothing; or something raises.                                *)
ScanFails(s) ==
  /\ audit[s].at \in {"nmap", "patches", "saving"} /\ Change /\ AuditEnds(s, "failed")
  /\ UNCHANGED <<findings, exposed>>

(* _save_findings: the first key with the row that was looked up, the rest *)
(* with the rows there are; an update of a row deleted meanwhile is lost.  *)
NewKeys(t) == {k \in t.seen : IF k = t.first THEN t.row = NoId ELSE LastRow(k) = NoId}
OldRows(t) == {LastRow(k) : k \in t.seen \ ({t.first} \cup NewKeys(t))}
Inserted(t) ==
  {order \in [NewKeys(t) -> NextId..(NextId + Cardinality(NewKeys(t)) - 1)] :
     \A j, k \in NewKeys(t) : j # k => order[j] # order[k]}
Stored(t, order) ==
  [i \in Ids |->
     IF \E k \in NewKeys(t) : order[k] = i
     THEN [status |-> "pendiente", key |-> CHOOSE k \in NewKeys(t) : order[k] = i]
     ELSE IF i = t.row /\ i # NoId /\ findings[i].status # "deleted"
     THEN [findings[i] EXCEPT !.status = Reopened(t.was)]
     ELSE IF i \in OldRows(t) THEN [findings[i] EXCEPT !.status = Reopened(@)]
     ELSE findings[i]]
Saves(s) ==
  /\ audit[s].at = "saving" /\ Room(Cardinality(NewKeys(audit[s])))
  /\ \E order \in Inserted(audit[s]) : findings' = Stored(audit[s], order)
  /\ IF audit[s].pass = "ports"
     THEN audit' = [audit EXCEPT ![s] = [at |-> "patches"]] /\ UNCHANGED <<scans, scanFlag>>
     ELSE AuditEnds(s, "completed")
  /\ UNCHANGED <<exposed, changes>>

Task(s) == TaskBegins(s) \/ NmapEnds(s) \/ PatchesAsked(s) \/ Saves(s)
-----------------------------------------------------------------------------
(* update_finding, of the state; delete_finding.                           *)
UpdateFinding ==
  /\ Change
  /\ \E i \in Ids, status \in Statuses :
       /\ findings[i].status \notin {"none", "deleted", status}
       /\ findings' = [findings EXCEPT ![i].status = status]
  /\ UNCHANGED <<scanFlag, scans, audit, exposed>>
DeleteFinding ==
  /\ Change
  /\ \E i \in Ids :
       /\ findings[i].status \notin {"none", "deleted"}
       /\ findings' = [findings EXCEPT ![i].status = "deleted"]
       /\ audit' = [s \in Scans |->   \* history: the row a scan looked up went
            IF audit[s].at = "saving" /\ audit[s].row = i THEN [audit[s] EXCEPT !.kept = FALSE] ELSE audit[s]]
  /\ UNCHANGED <<scanFlag, scans, exposed>>

ExposureChanges ==
  /\ Change /\ \E k \in AuditKeys : exposed' = IF k \in exposed THEN exposed \ {k} ELSE exposed \cup {k}
  /\ UNCHANGED <<scanFlag, scans, audit, findings>>

(* A worker starts again: its tasks are gone, their rows say "running".    *)
WorkerRestarts(w) ==
  /\ Change
  /\ scanFlag' = [scanFlag EXCEPT ![w] = FALSE]
  /\ audit' = [s \in Scans |-> IF scans[s] # NoScan /\ WorkerOf(s) = w THEN NoTask ELSE audit[s]]
  /\ UNCHANGED <<scans, findings, exposed>>

AuditInit ==
  /\ scanFlag = [w \in AuditWorkers |-> FALSE]
  /\ scans = [s \in Scans |-> NoScan] /\ audit = [s \in Scans |-> NoTask]
  /\ findings = [i \in Ids |-> NoFinding] /\ exposed \in SUBSET AuditKeys /\ changes = 0

AuditNext ==
  \/ \E w \in AuditWorkers : StartScan(w) \/ WorkerRestarts(w)
  \/ \E s \in Scans : Task(s) \/ NothingToScan(s) \/ ScanFails(s)
  \/ UpdateFinding \/ DeleteFinding \/ ExposureChanges

AuditSpec == AuditInit /\ [][AuditNext]_auditVars
-----------------------------------------------------------------------------
Underway(s) == audit[s].at \notin {"none", "created"}

(* A worker says that a scan runs only while one of its tasks does: no     *)
(* failure leaves the flag up and refuses every scan from then on.         *)
AuditTypeOK ==
  /\ scans \in [Scans -> {NoScan} \cup [status : {"running", "completed", "failed"}, worker : AuditWorkers]]
  /\ audit \in [Scans -> {NoTask} \cup [at : {"created", "nmap", "patches"}] \cup Saving]
  /\ findings \in [Ids -> {NoFinding} \cup [status : Statuses \cup {"deleted"}, key : AuditKeys]]
  /\ exposed \subseteq AuditKeys /\ changes \in 0..MaxChanges
  /\ \A w \in AuditWorkers : scanFlag[w] => \E s \in Scans : Underway(s) /\ WorkerOf(s) = w

(* When a scan has saved, each port and patch it saw has a finding that is *)
(* not ended ("If marked terminado but port is still open -> reset to      *)
(* pendiente", shomer_audit_network.py:330), whatever other scans and      *)
(* operators wrote since it looked; but for a row deleted just then.       *)
SeenIsPending ==
  [][\A s \in Scans : Saves(s) =>
       \A k \in audit[s].seen : k # audit[s].first \/ audit[s].kept =>
         \E i \in Ids : findings'[i].status \in {"pendiente", "en_revision"} /\ findings'[i].key = k]_auditVars

(* "Evita duplicados por (ip, port, protocol)" (_save_findings,            *)
(* shomer_audit_network.py:317).                                           *)
NoDuplicates == \A k \in AuditKeys : Cardinality(RowsOf(k)) <= 1
=============================================================================
