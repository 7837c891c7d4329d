--------------------------- MODULE AutoblockPolicy ---------------------------
(***************************************************************************)
(* Who may be blocked without a person (casador_blocking.py and            *)
(* casador_autoblock_poller.py).  The policy is asked in three places: the *)
(* poller's filter, by the policy it read at the start of its tick; the    *)
(* panel's, by the one the page was loaded with; and execute_hunter_block, *)
(* by the one in force.  Wazuh decides by its own rules.                   *)
(*                                                                         *)
(* Abstracted: an address is in one range or another, a rule is noise or   *)
(* is not; what is already blocked is HunterBlocking, the recurrence that  *)
(* a HIGH alert must also reach is HunterAutoblock.                        *)
(* Bound: MaxEdits changes of the policy; one command at a time.           *)
(***************************************************************************)
EXTENDS Naturals

CONSTANT MaxEdits
ASSUME EditsAssumption == MaxEdits \in Nat

VARIABLES
  policy,    \* hunter.auto_block_* of system_state
  sweep,     \* the policy of the tick under way, or NoSweep
  page,      \* the policy the panel was loaded with
  order,     \* the command on its way to the firewall, or NoOrder
  edits,
  edited     \* history: the policy changed since the order was given

policyVars == <<policy, sweep, page, order, edits, edited>>

Policies == [enabled : BOOLEAN, minSeverity : {1, 2}, onlyExternal : BOOLEAN,
             exceptions : SUBSET {"outsider"}]
Alarms   == [from : {"resolver", "outsider", "insider"}, noise : BOOLEAN, severity : 1..3]
NoSweep  == [enabled |-> FALSE]
NoOrder  == [by |-> "nobody"]
-----------------------------------------------------------------------------
(* _es_infra_critica, _firma_es_ruido, _ip_in_exceptions, _is_external_ip. *)
Essential(a)    == a.from = "resolver"
Noise(a)        == a.noise
Excepted(a, p)  == a.from \in p.exceptions
Inside(a, p)    == p.onlyExternal /\ a.from = "insider"
InRange(a, p)   == a.severity <= p.minSeverity /\ (Inside(a, p) => a.severity = 1)

(* _should_auto_block of the poller, and the panel's function of that name *)
(* (hunter.html), which knows nothing of essential addresses and of noise. *)
PollerPicks(a, p) ==
  p.enabled /\ ~Essential(a) /\ ~Noise(a) /\ InRange(a, p) /\ ~Excepted(a, p)
PanelPicks(a, p)  == p.enabled /\ InRange(a, p) /\ ~Excepted(a, p)

(* execute_hunter_block, asked by "auto" and by "wazuh".                   *)
AutoTakes(a) ==
  /\ policy.enabled /\ ~Essential(a) /\ ~Noise(a)
  /\ InRange(a, policy) /\ ~Excepted(a, policy)
WazuhTakes(a) == ~Excepted(a, policy) /\ ~Inside(a, policy)
-----------------------------------------------------------------------------
Orders(by, a) == order = NoOrder /\ order' = [by |-> by, alarm |-> a] /\ edited' = FALSE

(* A tick of the poller reads the policy once; each block it asks for is   *)
(* awaited before it looks at the next alert.                              *)
SweepBegins ==
  /\ sweep = NoSweep /\ policy.enabled /\ sweep' = policy
  /\ UNCHANGED <<policy, page, order, edits, edited>>
SweepAsks(a) ==
  /\ sweep # NoSweep /\ PollerPicks(a, sweep) /\ AutoTakes(a) /\ Orders("poller", a)
  /\ UNCHANGED <<policy, sweep, page, edits>>
SweepEnds ==
  /\ sweep # NoSweep /\ order.by # "poller" /\ sweep' = NoSweep
  /\ UNCHANGED <<policy, page, order, edits, edited>>

PageLoads ==
  page' = policy /\ UNCHANGED <<policy, sweep, order, edits, edited>>
PageAsks(a) ==
  /\ PanelPicks(a, page) /\ AutoTakes(a) /\ Orders("panel", a)
  /\ UNCHANGED <<policy, sweep, page, edits>>

(* Wazuh, with its key, and the operator, who may block whatever they want.*)
WazuhAsks(a) ==
  /\ WazuhTakes(a) /\ Orders("wazuh", a) /\ UNCHANGED <<policy, sweep, page, edits>>
OperatorAsks(a) ==
  /\ Orders("operator", a) /\ UNCHANGED <<policy, sweep, page, edits>>

(* The firewall answers, and the row is written.                           *)
OrderEnds ==
  /\ order # NoOrder /\ order' = NoOrder /\ edited' = FALSE
  /\ UNCHANGED <<policy, sweep, page, edits>>

(* The operator saves the configuration, on this page or elsewhere.        *)
EditPolicy ==
  /\ edits < MaxEdits /\ edits' = edits + 1
  /\ \E p \in Policies \ {policy} : policy' = p
  /\ page' \in {page, policy'} /\ edited' = (order # NoOrder) /\ UNCHANGED <<sweep, order>>
-----------------------------------------------------------------------------
PolicyInit ==
  /\ policy \in Policies /\ sweep = NoSweep /\ page = policy
  /\ order = NoOrder /\ edits = 0 /\ edited = FALSE

PolicyNext ==
  \/ SweepBegins \/ SweepEnds \/ PageLoads \/ OrderEnds \/ EditPolicy
  \/ \E a \in Alarms : SweepAsks(a) \/ PageAsks(a) \/ WazuhAsks(a) \/ OperatorAsks(a)

PolicySpec == PolicyInit /\ [][PolicyNext]_policyVars
-----------------------------------------------------------------------------
PolicyTypeOK ==
  /\ policy \in Policies /\ page \in Policies /\ sweep \in Policies \cup {NoSweep}
  /\ order \in [by : {"poller", "panel", "wazuh", "operator"}, alarm : Alarms] \cup {NoOrder}
  /\ edits \in 0..MaxEdits /\ edited \in BOOLEAN

(* What is blocked without a person is what the policy in force allows,    *)
(* however old the policy is that its filter went by: never an address     *)
(* that was made an exception, or one of the site for less than a critical *)
(* alert, nor what the site depends on (casador_blocking.py 267, 290-348,  *)
(* casador_autoblock_poller.py 81).                                        *)
BlocksAllowed ==
  order # NoOrder /\ ~edited =>
    /\ order.by \in {"poller", "panel"} => PollerPicks(order.alarm, policy)
    /\ order.by = "wazuh" => ~Excepted(order.alarm, policy) /\ ~Inside(order.alarm, policy)
=============================================================================
