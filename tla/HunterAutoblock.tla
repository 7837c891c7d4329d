--------------------------- MODULE HunterAutoblock ---------------------------
(***************************************************************************)
(* Hunter's automatic blocks (casador_autoblock_poller.py, the automatic   *)
(* branch of execute_hunter_block in casador_blocking.py, the recurrence   *)
(* window of casador_support_hunter_recurrence.py and the panel's own loop *)
(* in templates/hunter.html).                                              *)
(*                                                                         *)
(* The poller of the service and every open panel read the tail of one     *)
(* file of alerts and ask for a block; each remembers in its own memory    *)
(* what it has asked for.  A critical alert blocks at once; a HIGH one is  *)
(* counted in Redis, and blocks when enough alerts of its address and rule *)
(* lie within a window.  A key of Redis with a TTL keeps the poller and    *)
(* the panel from counting one alert twice.                                *)
(*                                                                         *)
(* Abstracted: a source is an address with the one rule it trips, and its  *)
(* severity; what the policy turns down (noise, exceptions, own addresses, *)
(* essential services) are Ignored sources; the command on the firewall    *)
(* and its row are HunterBlocking's and are one step here; time passes in  *)
(* units, and two hits of one caller on one alert in one unit are one;     *)
(* Telegram notices, the warning on the way to a block included.           *)
(***************************************************************************)
EXTENDS Naturals, Sequences, FiniteSets, FiniteSetsExt

CONSTANTS
  Sources,       \* an address and the rule it trips
  Critical,      \* sources of severity 1
  Ignored,       \* sources the policy never blocks
  Panels,        \* browser tabs with the panel open
  Poller,        \* the poller of the service
  Limit,         \* alerts a tick of the poller reads
  PanelLimit,    \* alerts a panel reads
  MaxSeen,       \* _MAX_SEEN
  RecurrenceMin, \* hunter.high_recurrence_min
  Window,        \* hunter.high_recurrence_window_sec, in time units
  DedupTtl,      \* TTL of hunter:evtdedup, in time units
  MaxAlerts,     \* bound: alerts of a behaviour
  Happens        \* what may happen, a subset of Happenings

Happenings == {"restart", "reload", "rotate", "block_fails", "redis", "operator"}

ASSUME SourceAssumption == Critical \subseteq Sources /\ Ignored \subseteq Sources
ASSUME CallerAssumption == Poller \notin Panels
ASSUME LimitAssumption  == Limit \in Nat \ {0} /\ PanelLimit \in Nat /\ MaxAlerts \in Nat
ASSUME SeenAssumption   == MaxSeen \in Nat /\ MaxSeen >= 2 * Limit - 1
ASSUME CountAssumption  == {RecurrenceMin, Window, DedupTtl} \subseteq Nat \ {0}
ASSUME HappensAssumption == Happens \subseteq Happenings

VARIABLES
  log,         \* the alerts of the file, in order of arrival: their sources
  oldest,      \* alerts rotated away, the first of log
  blocked,     \* sources with an active row
  blocking,    \* blocks under way: who asked, and the alert
  dedup,       \* hunter:evtdedup of each alert: time to live, 0 when absent
  hits,        \* hunter:rec of every source: alert, age and who counted it
  batch,       \* poller: alerts of this tick still to look at
  staleBlocked,\* poller: sources blocked when it read them (is_blocked)
  seenAt,      \* poller: turn of _remember for each alert, 0 for never
  remembered,  \* poller: turns of _remember so far
  attempted,   \* panel: _autoBlockAttempted
  posts        \* requests of the panels on their way

alertVars  == <<log, oldest>>
redisVars  == <<dedup, hits>>
pollerVars == <<batch, staleBlocked, seenAt, remembered>>
panelVars  == <<attempted, posts>>
vars == <<alertVars, blocked, blocking, redisVars, pollerVars, panelVars>>

Alerts  == 1..MaxAlerts
Callers == Panels \cup {Poller}

-----------------------------------------------------------------------------
(* The file: what _read_suricata_recent_alerts returns, newest last.       *)
Tail_Inclusive(limit) == {a \in DOMAIN log : a > oldest /\ a + limit >= Len(log)}

TailOf(limit) == {a \in DOMAIN log : a > oldest /\ a + limit > Len(log)}

Arrive(s) ==
  /\ Len(log) < MaxAlerts /\ log' = Append(log, s)
  /\ UNCHANGED <<oldest, blocked, blocking, redisVars, pollerVars, panelVars>>

Rotate ==
  /\ "rotate" \in Happens /\ oldest' = Len(log)
  /\ UNCHANGED <<log, blocked, blocking, redisVars, pollerVars, panelVars>>

-----------------------------------------------------------------------------
(***************************************************************************)
(* execute_hunter_block for "auto".  No await precedes the firewall.       *)
(***************************************************************************)
HitsOf(s, hs) == {h \in hs : log[h.alert] = s}

(* Mutant: critical alerts wait for a recurrence as well.                  *)
IsCounted_All(s) == RecurrenceMin > 1

(* Only HIGH alerts need a recurrence.                                     *)
IsCounted(s) == s \notin Critical /\ RecurrenceMin > 1

MarkAlert(a) == dedup' = [dedup EXCEPT ![a] = DedupTtl]
AddHit(by, a) == hits' = hits \cup {[alert |-> a, age |-> 0, by |-> by]}

(* Mutant: the key of an alert is not kept.                                *)
CountAlert_NoDedup(by, a) == UNCHANGED dedup /\ AddHit(by, a)

(* SET NX of the alert's key, then the bump.  Redis may fail at either:    *)
(* without the first the alert is counted all the same, without the second *)
(* it is skipped.                                                          *)
CountAlert(by, a) ==
  \/ dedup[a] = 0 /\ MarkAlert(a) /\ AddHit(by, a)
  \/ /\ "redis" \in Happens
     /\ UNCHANGED dedup \/ (dedup[a] = 0 /\ MarkAlert(a))
     /\ UNCHANGED hits \/ AddHit(by, a)

StartBlock(by, a) == blocking' = blocking \cup {[by |-> by, alert |-> a]}

(* The alert of a blocked or ignored source, or one counted before, is     *)
(* skipped; a HIGH alert below the recurrence asked for is only counted.   *)
ExecuteBlock(by, a) ==
  LET s == log[a] IN
  \/ /\ s \in blocked \cup Ignored \/ (IsCounted(s) /\ dedup[a] > 0)
     /\ UNCHANGED <<blocking, redisVars>>
  \/ /\ s \notin blocked \cup Ignored /\ ~IsCounted(s)
     /\ StartBlock(by, a) /\ UNCHANGED redisVars
  \/ /\ s \notin blocked \cup Ignored /\ IsCounted(s)
     /\ CountAlert(by, a)
     /\ \/ hits' # hits /\ Cardinality(HitsOf(s, hits')) >= RecurrenceMin /\ StartBlock(by, a)
        \/ /\ Cardinality(HitsOf(s, hits')) < RecurrenceMin \/ "redis" \in Happens
           /\ UNCHANGED blocking

(* The firewall answered.                                                  *)
EndBlock(b, ok) ==
  /\ b \in blocking /\ blocking' = blocking \ {b}
  /\ ok \/ "block_fails" \in Happens
  /\ blocked' = IF ok THEN blocked \cup {log[b.alert]} ELSE blocked
  /\ UNCHANGED <<alertVars, redisVars, pollerVars, panelVars>>

-----------------------------------------------------------------------------
(***************************************************************************)
(* The poller.  A tick reads the tail and looks at its alerts, the newest  *)
(* first; it waits for the firewall at each block.  _SEEN_ORDER is a queue *)
(* of the last MaxSeen alerts remembered.                                  *)
(***************************************************************************)
PollerWaits == \E b \in blocking : b.by = Poller

PollerRead ==
  /\ batch = {} /\ ~PollerWaits
  /\ batch' = TailOf(Limit) /\ staleBlocked' = blocked
  /\ UNCHANGED <<alertVars, blocked, blocking, redisVars, seenAt, remembered, panelVars>>

(* Mutant: the queue holds no more than one tick reads.                    *)
Seen_Short(a) == seenAt[a] > 0 /\ remembered - seenAt[a] < Limit

Seen(a) == seenAt[a] > 0 /\ remembered - seenAt[a] < MaxSeen

Remember(a) ==
  /\ remembered' = remembered + 1
  /\ seenAt' = [seenAt EXCEPT ![a] = remembered + 1]

(* An alert is remembered before anything is done about it, and never      *)
(* looked at again, be it that the block fails.                            *)
Look(a) ==
  /\ a \in batch /\ ~PollerWaits
  /\ \A b \in batch : b <= a
  /\ batch' = batch \ {a}
  /\ \/ Seen(a) /\ UNCHANGED <<seenAt, remembered, blocking, redisVars>>
     \/ /\ ~Seen(a) /\ Remember(a)
        /\ IF log[a] \in staleBlocked THEN UNCHANGED <<blocking, redisVars>>
                                      ELSE ExecuteBlock(Poller, a)
  /\ UNCHANGED <<alertVars, blocked, staleBlocked, panelVars>>

(* The service restarts: its memory and the requests under way are gone.   *)
Restart ==
  /\ "restart" \in Happens
  /\ batch' = {} /\ staleBlocked' = {} /\ seenAt' = [a \in Alerts |-> 0] /\ remembered' = 0
  /\ blocking' = {} /\ posts' = {}
  /\ UNCHANGED <<alertVars, blocked, redisVars, attempted>>

-----------------------------------------------------------------------------
(* The panel: every 30 s it asks for a block of each alert of the list it  *)
(* has not asked for yet; the requests arrive in any order.                *)
PanelFetch(p) ==
  LET new == {a \in TailOf(PanelLimit) \ attempted[p] : log[a] \notin blocked \cup Ignored}
  IN /\ new # {}
     /\ attempted' = [attempted EXCEPT ![p] = @ \cup new]
     /\ posts' = posts \cup ({p} \X new)
     /\ UNCHANGED <<alertVars, blocked, blocking, redisVars, pollerVars>>

PanelPost(p, a) ==
  /\ <<p, a>> \in posts /\ posts' = posts \ {<<p, a>>}
  /\ ExecuteBlock(p, a)
  /\ UNCHANGED <<alertVars, blocked, pollerVars, attempted>>

(* A page that is loaded again starts with nothing attempted.              *)
Reload(p) ==
  /\ "reload" \in Happens /\ attempted' = [attempted EXCEPT ![p] = {}]
  /\ UNCHANGED <<alertVars, blocked, blocking, redisVars, pollerVars, posts>>

-----------------------------------------------------------------------------
(* The operator, or Wazuh, blocks and unblocks by other ways.              *)
Operator(s) ==
  /\ "operator" \in Happens
  /\ blocked' \in {blocked \cup {s}, blocked \ {s}}
  /\ UNCHANGED <<alertVars, blocking, redisVars, pollerVars, panelVars>>

(* A unit of time.  A hit that leaves the window is removed at the next    *)
(* bump of the code, before it could be counted.                           *)
Tick ==
  /\ hits' = {[h EXCEPT !.age = @ + 1] : h \in {g \in hits : g.age + 1 < Window}}
  /\ dedup' = [a \in Alerts |-> IF dedup[a] = 0 THEN 0 ELSE dedup[a] - 1]
  /\ UNCHANGED <<alertVars, blocked, blocking, pollerVars, panelVars>>

-----------------------------------------------------------------------------
Init ==
  /\ log = <<>> /\ oldest = 0
  /\ blocked = {} /\ blocking = {}
  /\ dedup = [a \in Alerts |-> 0] /\ hits = {}
  /\ batch = {} /\ staleBlocked = {} /\ seenAt = [a \in Alerts |-> 0] /\ remembered = 0
  /\ attempted = [p \in Panels |-> {}] /\ posts = {}

PollerStep == PollerRead \/ \E a \in batch : Look(a)
Answer     == \E b \in blocking, ok \in BOOLEAN : EndBlock(b, ok)
PanelStep  == \E p \in Panels : PanelFetch(p) \/ Reload(p) \/ \E a \in Alerts : PanelPost(p, a)

Next ==
  \/ PollerStep \/ Answer \/ PanelStep
  \/ \E s \in Sources : Arrive(s) \/ Operator(s)
  \/ Rotate \/ Restart \/ Tick

Spec == Init /\ [][Next]_vars

(* The loop of the poller ticks for ever, and the firewall's answer, or    *)
(* its timeout, comes.                                                     *)
FairSpec == Spec /\ WF_vars(PollerStep) /\ WF_vars(Answer)

-----------------------------------------------------------------------------
TypeOK ==
  /\ log \in Seq(Sources) /\ Len(log) <= MaxAlerts /\ oldest \in 0..Len(log)
  /\ blocked \subseteq Sources
  /\ blocking \subseteq [by: Callers, alert: DOMAIN log]
  /\ dedup \in [Alerts -> 0..DedupTtl]
  /\ hits \subseteq [alert: DOMAIN log, age: 0..(Window - 1), by: Callers]
  /\ batch \subseteq DOMAIN log /\ staleBlocked \subseteq Sources
  /\ seenAt \in [Alerts -> Nat] /\ remembered \in Nat
  /\ attempted \in [Panels -> SUBSET DOMAIN log]
  /\ posts \subseteq Panels \X DOMAIN log

(* The poller acts on an alert once in its life, although its memory is a  *)
(* queue that forgets: an alert is forgotten only when no tail can hold it *)
(* (_MAX_SEEN, casador_autoblock_poller.py:22, against the limit of 84).   *)
HandledOnce ==
  [][\A a \in Alerts : seenAt'[a] > seenAt[a] => seenAt[a] = 0]_vars

(* A HIGH source is blocked automatically on RecurrenceMin different       *)
(* alerts within the window, a sustained attack, whoever counted them      *)
(* (casador_blocking.py:348, hunter.html:714-721).  It needs a window no   *)
(* longer than DedupTtl, and Redis up.                                     *)
SustainedAttack ==
  [][\A b \in blocking' \ blocking :
       IsCounted(log[b.alert]) =>
         Cardinality({h.alert : h \in HitsOf(log[b.alert], hits')}) >= RecurrenceMin]_vars

(* A critical alert in the tail gets its source blocked, unless it leaves  *)
(* the tail first.                                                         *)
CriticalBlocked ==
  \A a \in Alerts :
    a \in TailOf(Limit) /\ log[a] \in Critical \ Ignored
      ~> a \in DOMAIN log /\ (log[a] \in blocked \/ a \notin TailOf(Limit))
-----------------------------------------------------------------------------
(***************************************************************************)
(* The inductive invariants.                                               *)
(***************************************************************************)
(* Within the window an alert has one hit, whose age its key tells.        *)
OneHit ==
  \A h \in hits : /\ dedup[h.alert] + h.age = DedupTtl
                  /\ \A g \in hits : g.alert = h.alert => g = h

(* The alerts remembered after a: as many as the turns since.              *)
Later(a) == {b \in DOMAIN log : seenAt[b] > seenAt[a]}

TurnsCounted ==
  \A a \in DOMAIN log :
    /\ seenAt[a] <= remembered
    /\ seenAt[a] > 0 => Cardinality(Later(a)) = remembered - seenAt[a]

(* An alert still in a tick lies less than Limit behind every alert that   *)
(* was remembered or is in the tick.                                       *)
BatchIsRecent ==
  \A a \in batch : \A b \in DOMAIN log :
    (seenAt[b] > 0 \/ b \in batch) => a + Limit > b

(* What was remembered after a lies less than Limit behind a.              *)
LaterIsRecent ==
  \A a, b \in DOMAIN log : 0 < seenAt[a] /\ seenAt[a] < seenAt[b] => b + Limit > a

(* Nothing past the file has been seen.                                    *)
SeenInLog == \A a \in Alerts : seenAt[a] > 0 => a \in DOMAIN log

MemoryInvariant == TurnsCounted /\ BatchIsRecent /\ LaterIsRecent /\ SeenInLog
=============================================================================
