---------------------------- MODULE StatusOutages ----------------------------
(***************************************************************************)
(* The history of status changes and the reports on outages                *)
(* (shomer_status_events.py).                                              *)
(*                                                                         *)
(* The pollers insert a row per change of status.  A loop of the leading   *)
(* worker groups the recent rows that go down into outages, and for each   *)
(* big one that has recovered sends a summary, once: it sends, then        *)
(* inserts the start of the outage in a table of what was sent.  A cause   *)
(* that comes back often enough gets a second notice, once a day.  Another *)
(* loop prunes the tables.                                                 *)
(*                                                                         *)
(* Abstracted: time is in units; the latency, the loss, names, texts,      *)
(* topology hints, exports and the causes confirmed by hand, which only    *)
(* change what is displayed.                                               *)
(***************************************************************************)
EXTENDS Naturals, Sequences, FiniteSets, FiniteSetsExt

CONSTANTS
  IPs, APs, Gateways,    \* monitored devices, access points and routers
  Gap,                   \* CLUSTER_GAP_SEC
  Settle,                \* outage_report_settle_sec
  Window,                \* hours of rows a report looks at
  RepeatWindow,          \* outage_report_repeat_hours
  RepeatMin,             \* outage_report_repeat_min
  MinAps, MinDevices,    \* what makes an outage big enough to report
  MassDevices, MassAps,  \* what makes it massive
  Retention,             \* status_retention_days
  Aggressive,            \* the same when the disk is nearly full
  Day,                   \* length of a day
  MaxTime, MaxRows,      \* bounds: time and rows written in a behaviour
  MaxFaults,             \* bound: faults of a behaviour
  Faults                 \* what may happen, a subset of FaultKinds

FaultKinds == {"wan", "maintenance", "row_lost", "restart", "mark_fails", "prune"}

ASSUME DeviceAssumption == APs \subseteq IPs /\ Gateways \subseteq IPs
ASSUME TimeAssumption ==
  {Gap, Settle, Window, RepeatWindow, Retention, Aggressive, MaxTime} \subseteq Nat
ASSUME RetentionAssumption == Window < Aggressive /\ Aggressive <= Retention
ASSUME DayAssumption == Day \in Nat \ {0} /\ Day <= Aggressive   \* MIN_RETENTION_DAYS is 7
ASSUME LimitAssumption ==
  {RepeatMin, MinAps, MinDevices, MassDevices, MassAps, MaxRows, MaxFaults} \subseteq Nat
ASSUME FaultAssumption == Faults \subseteq FaultKinds

VARIABLES
  now,       \* the clock
  online,    \* devices the pollers last saw online
  rows,      \* status_events, oldest first
  written,   \* rows inserted so far
  wan,       \* shomer:wan_status is "down"
  maint,     \* shomer_maintenance
  sent,      \* outage_report_sent: what, and when
  work,      \* notices the pass of the loop may still send
  marking,   \* notice sent and not yet marked
  told,      \* notices sent
  unmarked,  \* notices whose last send could not be marked
  faults     \* faults so far

statusVars == <<online, rows, written, wan, maint>>
reportVars == <<sent, work, marking, told, unmarked>>
vars == <<now, statusVars, reportVars, faults>>

Fault(kind) == kind \in Faults /\ faults < MaxFaults /\ faults' = faults + 1

Since(days) == IF now >= days THEN now - days ELSE 0
-----------------------------------------------------------------------------
(* record_status_event: a row per transition, with the state of the WAN    *)
(* and of maintenance at that moment; an error of the insert is swallowed. *)
Record(i) ==
  /\ written < MaxRows
  /\ online' = (online \ {i}) \cup ({i} \ online)
  /\ written' = written + 1
  /\ \/ /\ rows' = Append(rows, [ip |-> i, up |-> i \notin online, ts |-> now,
                                 wan |-> wan, maint |-> maint])
        /\ UNCHANGED faults
     \/ Fault("row_lost") /\ UNCHANGED rows
  /\ UNCHANGED <<now, wan, maint, reportVars>>

WanChanges ==
  /\ Fault("wan") /\ wan' = ~wan
  /\ UNCHANGED <<now, online, rows, written, maint, reportVars>>

MaintenanceChanges ==
  /\ Fault("maintenance") /\ maint' = ~maint
  /\ UNCHANGED <<now, online, rows, written, wan, reportVars>>

(* A pass of the loop is over before a unit of time is.                    *)
Tick ==
  /\ now < MaxTime /\ work = {} /\ marking = {} /\ now' = now + 1
  /\ UNCHANGED <<statusVars, reportVars, faults>>

(* run_data_retention_prune: rows and marks older than the retention.  The *)
(* rows are in the order of their times: an oldest part of them goes.      *)
Prune == \E days \in {Retention, Aggressive}, first \in 1 .. (Len(rows) + 1) :
  /\ Fault("prune")
  /\ \A k \in DOMAIN rows : k < first <=> rows[k].ts < Since(days)
  /\ rows' = SubSeq(rows, first, Len(rows))
  /\ sent' = {s \in sent : s.at >= Since(days)}
  /\ UNCHANGED <<now, online, written, wan, maint, work, marking, told, unmarked>>
-----------------------------------------------------------------------------
(* compute_outages: the rows of the window that go down, cut where two of  *)
(* them lie further apart than the gap.                                    *)
Recent == {k \in DOMAIN rows : rows[k].ts >= Since(Window)}
Downs  == {k \in Recent : ~rows[k].up}
Before(k)  == {j \in Downs : j < k}
IsHead(k)  == Before(k) = {} \/ rows[k].ts > rows[Max(Before(k))].ts + Gap
Cluster(h) == {k \in Downs : h <= k /\ ~\E g \in (h + 1)..k : g \in Downs /\ IsHead(g)}

Devices(c) == {rows[k].ip : k \in c}
ApRows(c)  == {k \in c : rows[k].ip \in APs}
WanDown(c) == 2 * Cardinality({k \in c : rows[k].wan}) > Cardinality(c)
Massive(c) ==
  \/ Cardinality(Devices(c)) >= MassDevices
  \/ Cardinality(ApRows(c)) >= MassAps /\ Devices(c) \cap Gateways # {}

(* _classify_outage.                                                       *)
Cause(c) ==
  CASE \E k \in c : rows[k].maint       -> "mantenimiento"
    [] OTHER -> IF Massive(c) THEN IF WanDown(c) THEN "wan_isp" ELSE "wan_ok_interno"
                ELSE IF Cardinality(Devices(c)) = 1 THEN "equipo_aislado"
                ELSE IF WanDown(c) /\ Cardinality(Devices(c)) >= 3 THEN "wan_isp"
                ELSE "sector_parcial"

(* An outage ends with the last recovery of any of its devices, though     *)
(* another outage took them down in between.                               *)
Recoveries(c, start) ==
  {rows[k].ts : k \in {j \in Recent :
     rows[j].up /\ rows[j].ts >= start /\ rows[j].ip \in Devices(c)}}

(* With _outage_qualifies_for_report; an outage of maintenance is none.    *)
Outage(c, start) ==
  [start |-> start, cause |-> Cause(c), back |-> Recoveries(c, start),
   big |-> \/ Cardinality(ApRows(c)) >= MinAps
           \/ Cardinality(Devices(c)) >= MinDevices]

Outages ==
  {o \in {Outage(Cluster(h), rows[h].ts) : h \in {k \in Downs : IsHead(k)}} :
     o.big /\ o.back # {} /\ o.cause # "mantenimiento"}

(* _recovery_settled.                                                      *)
Settled(o) == now >= Max(o.back) + Settle

Summary(o)     == [type |-> "summary", key |-> o.start]
Repeat(c, day) == [type |-> c, key |-> day]

Repeats(outages) ==
  {c \in {"wan_isp", "wan_ok_interno", "sector_parcial"} :
     LET same == {o \in outages : o.cause = c /\ o.start >= Since(RepeatWindow)}
     IN same # {} /\ Cardinality(same) >= RepeatMin}

(* process_outage_telegram_reports: nothing in maintenance; the outages    *)
(* are computed once, before the first notice is sent.                     *)
Due ==
  LET outages == Outages
  IN {Summary(o) : o \in {p \in outages : Settled(p)}}
       \cup {Repeat(c, now \div Day) : c \in Repeats(outages)}

IsSent(n) == \E s \in sent : s.notice = n

(* Mutant of Look: the loop reports one outage at a time and drops the     *)
(* others when one of them was sent before.                                *)
Look_StopsAtSent ==
  /\ work = {} /\ marking = {} /\ ~maint
  /\ work' = Due /\ work' # {} /\ \A n \in work' : ~IsSent(n)
  /\ UNCHANGED <<now, statusVars, sent, marking, told, unmarked, faults>>

Look ==
  /\ work = {} /\ marking = {} /\ ~maint
  /\ work' = Due /\ \E n \in work' : ~IsSent(n)
  /\ UNCHANGED <<now, statusVars, sent, marking, told, unmarked, faults>>

(* A notice of the pass: skipped when it is in the table, else sent.       *)
Send == \E n \in work :
  /\ marking = {} /\ work' = work \ {n}
  /\ IF IsSent(n)
       THEN UNCHANGED <<marking, told>>
       ELSE marking' = {n} /\ told' = told \cup {n}
  /\ UNCHANGED <<now, statusVars, sent, unmarked, faults>>

(* Mutant of Mark: the pass goes on without a mark in the table.           *)
Mark_Forgets == \E n \in marking :
  /\ marking' = {} /\ UNCHANGED <<now, statusVars, sent, work, told, unmarked, faults>>

(* _mark_report_sent, whose error ends the pass.                           *)
Mark == \E n \in marking :
  /\ marking' = {}
  /\ \/ /\ sent' = sent \cup {[notice |-> n, at |-> now]}
        /\ unmarked' = unmarked \ {n} /\ UNCHANGED <<work, faults>>
     \/ /\ Fault("mark_fails") /\ work' = {}
        /\ unmarked' = unmarked \cup {n} /\ UNCHANGED sent
  /\ UNCHANGED <<now, statusVars, told>>

Restart ==
  /\ Fault("restart") /\ work' = {} /\ marking' = {}
  /\ unmarked' = unmarked \cup marking
  /\ UNCHANGED <<now, statusVars, sent, told>>
-----------------------------------------------------------------------------
Notices ==
  [type : {"summary", "wan_isp", "wan_ok_interno", "sector_parcial"}, key : 0..MaxTime]

Init ==
  /\ now = 0 /\ online = IPs /\ rows = <<>> /\ written = 0
  /\ wan = FALSE /\ maint = FALSE
  /\ sent = {} /\ work = {} /\ marking = {} /\ faults = 0
  /\ told = {} /\ unmarked = {}

Report == Look \/ Send \/ Mark

Next ==
  \/ \E i \in IPs : Record(i)
  \/ WanChanges \/ MaintenanceChanges \/ Tick \/ Prune
  \/ Report \/ Restart

Spec == Init /\ [][Next]_vars

(* outage_report_loop comes round every 60 s, and survives its errors.     *)
FairSpec == Spec /\ WF_vars(Report)
-----------------------------------------------------------------------------
Row == [ip : IPs, up : BOOLEAN, ts : 0..MaxTime, wan : BOOLEAN, maint : BOOLEAN]

TypeOK ==
  /\ now \in 0..MaxTime /\ online \subseteq IPs /\ rows \in Seq(Row)
  /\ written \in 0..MaxRows /\ wan \in BOOLEAN /\ maint \in BOOLEAN
  /\ sent \subseteq [notice : Notices, at : 0..MaxTime]
  /\ work \subseteq Notices /\ marking \subseteq Notices
  /\ told \subseteq Notices /\ unmarked \subseteq told
  /\ faults \in 0..MaxFaults

(* A report is sent once, whatever is pruned and however the window moves, *)
(* unless the last time it was sent it could not be marked.                *)
SentOnce == [][marking' \cap told \subseteq marking \cup unmarked]_vars

(* The loop catches up with every notice that is due, but in maintenance.  *)
ReportSent == []<>(maint \/ Due \subseteq told)
=============================================================================
