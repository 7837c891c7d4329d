------------------------------ MODULE NodeProbe ------------------------------
(***************************************************************************)
(* How Guardian comes to the label of a node (_probe_guardian_extended and *)
(* shomer_guardian_health_checks.py): it pings it; of one that answers, it *)
(* asks a router over SSH, with its key and then with a password, and an   *)
(* AP it reboots by SNMP through its agent; then it classifies.  The label *)
(* is what GuardianNodes counts and reboots for.                           *)
(*                                                                         *)
(* An answer may be partial: the session ended early, the agent told the   *)
(* names of its interfaces and not all of their states.                    *)
(*                                                                         *)
(* Abstracted: loss and round trip are above their thresholds or not; the  *)
(* checks are those that are on and whose target is valid.                 *)
(* External: the node, and the ssh, snmpget and ping of the host.          *)
(***************************************************************************)
EXTENDS Naturals, Sequences

VARIABLES
  probing,  \* what comes next
  node,     \* the node, and what is well in it
  checks,   \* _get_health_config: the checks that are made
  lan,      \* what the ping told
  shell,    \* ssh_result
  agent,    \* snmp_result
  verdict   \* status_label

probeVars == <<probing, node, checks, lan, shell, agent, verdict>>

Kinds    == {"router", "snmp", "other"}
Signals  == {"ping", "dns", "http"}      \* asked in the node's own shell
Toggles  == {"dns", "http", "latency"}
Bands    == {"24", "5"}
Radios   == [band : Bands \cup {"none"}, up : BOOLEAN]
Verdicts == {"online", "degraded", "no-internet", "offline"}
Tri      == {"yes", "no", "none"}
NotAsked == [asked |-> FALSE]
Silent   == [asked |-> TRUE, connected |-> FALSE]
-----------------------------------------------------------------------------
(* _tri: 1, 0, or nothing.                                                 *)
TriOf(told, well) == IF ~told THEN "none" ELSE IF well THEN "yes" ELSE "no"

(* One line of the shell, of which any part may be missing.                *)
Asked          == {"ping"} \cup (checks \cap {"dns", "http"})
ShellTold(got) ==
  [asked |-> TRUE, connected |-> TRUE,
   says  |-> [s \in Signals |-> TriOf(s \in got \cap Asked, s \in node.well)]]

(* Of the interfaces it listed the first of a band tells for the band, and *)
(* one whose state was not told is down.                                   *)
First(band, listed) == CHOOSE i \in listed :
  /\ node.radios[i].band = band
  /\ \A j \in listed : node.radios[j].band = band => i <= j
Radio(band, listed, got) ==
  IF \A i \in listed : node.radios[i].band # band THEN "none"
  ELSE IF First(band, listed) \in got /\ node.radios[First(band, listed)].up THEN "yes" ELSE "no"
AgentTold(listed, got) ==
  [asked |-> TRUE, connected |-> TRUE, got |-> got, radio |-> [b \in Bands |-> Radio(b, listed, got)]]
-----------------------------------------------------------------------------
(* _get_health_config, of which a toggle that is on counts when its target *)
(* is one that can be asked.                                               *)
HealthConfigs == SUBSET Toggles

(* _ping_metrics; during a mass outage no more is asked of anybody.        *)
PingsNode ==
  /\ probing = "ping"
  /\ \E kind \in Kinds, well \in SUBSET Signals, radios \in {<<>>} \cup (Radios \X Radios) :
       node' = [kind |-> kind, well |-> well, radios |-> IF kind = "snmp" THEN radios ELSE <<>>]
  /\ checks' \in HealthConfigs
  /\ lan' \in {"none", "bad", "good"}
  /\ probing' = IF lan' = "none" \/ node'.kind = "other" THEN "classify" ELSE "ask"
  /\ UNCHANGED <<shell, agent, verdict>>

MassOutage ==
  /\ probing = "ask" /\ probing' = "classify"
  /\ UNCHANGED <<node, checks, lan, shell, agent, verdict>>

(* _ssh_cmd_base: the key, or else the password, if there are any; then    *)
(* _ssh_health_probes reads what the shell wrote.                          *)
AsksShell ==
  /\ probing = "ask" /\ node.kind = "router"
  /\ \E byKey, byPassword \in BOOLEAN :
       IF byKey \/ byPassword THEN \E got \in SUBSET Signals : shell' = ShellTold(got)
       ELSE shell' = Silent
  /\ probing' = "classify" /\ UNCHANGED <<node, checks, lan, agent, verdict>>

(* _snmp_health_probes: the uptime; the names and states of the radios,    *)
(* or none when the walk does not end in time or cannot be made.           *)
AsksAgent ==
  /\ probing = "ask" /\ node.kind = "snmp"
  /\ \/ agent' = Silent
     \/ \E listed \in SUBSET DOMAIN node.radios : \E got \in SUBSET listed : agent' = AgentTold(listed, got)
  /\ probing' = "classify" /\ UNCHANGED <<node, checks, lan, shell, verdict>>

BadLatency == lan = "bad" /\ "latency" \in checks

(* classify_health: a session that was not opened says nothing.            *)
ShellSays(s, what) == shell.asked /\ shell.connected /\ shell.says[s] = what
Classified ==
  IF lan = "none" THEN "offline"
  ELSE IF ShellSays("ping", "no") THEN "no-internet"
  ELSE IF (\E s \in {"dns", "http"} : ShellSays(s, "no")) \/ BadLatency THEN "degraded"
  ELSE "online"

(* classify_snmp_health: without an answer to go by, the ping is all.      *)
ClassifiedSnmp ==
  IF lan = "none" THEN "offline"
  ELSE IF ~agent.asked THEN "online"
  ELSE IF ~agent.connected \/ \E b \in Bands : agent.radio[b] = "no" THEN "no-internet"
  ELSE IF BadLatency THEN "degraded" ELSE "online"

Classifies ==
  /\ probing = "classify" /\ probing' = "told"
  /\ verdict' = IF node.kind = "snmp" THEN ClassifiedSnmp ELSE Classified
  /\ UNCHANGED <<node, checks, lan, shell, agent>>

NewNode == [kind |-> "other", well |-> {}, radios |-> <<>>]
NextProbe ==
  /\ probing = "told" /\ probing' = "ping"
  /\ node' = NewNode /\ checks' = {} /\ lan' = "none"
  /\ shell' = NotAsked /\ agent' = NotAsked /\ verdict' = "online"
-----------------------------------------------------------------------------
ProbeInit ==
  /\ probing = "ping" /\ node = NewNode /\ checks = {} /\ lan = "none"
  /\ shell = NotAsked /\ agent = NotAsked /\ verdict = "online"

ProbeNext == PingsNode \/ MassOutage \/ AsksShell \/ AsksAgent \/ Classifies \/ NextProbe

ProbeSpec == ProbeInit /\ [][ProbeNext]_probeVars
-----------------------------------------------------------------------------
ProbeTypeOK ==
  /\ probing \in {"ping", "ask", "classify", "told"} /\ checks \subseteq Toggles
  /\ node.kind \in Kinds /\ node.well \subseteq Signals
  /\ lan \in {"none", "bad", "good"} /\ verdict \in Verdicts
  /\ shell \in {NotAsked, Silent} \cup
               [asked : {TRUE}, connected : {TRUE}, says : [Signals -> Tri]]
  /\ agent \in {NotAsked, Silent} \cup
               [asked : {TRUE}, connected : {TRUE}, got : SUBSET (1..2), radio : [Bands -> Tri]]

(* A label answers for the node.  What it is rebooted for is real: it did  *)
(* not answer the ping, or the internet fails from the node itself, or its *)
(* agent gives no answer, or a radio is down or its state was not told.    *)
(* It is degraded only when a check that is on fails.  It is online only   *)
(* when it answered, and nothing it told is bad.                           *)
VerdictEarned ==
  probing = "told" =>
    CASE verdict = "offline" -> lan = "none"
      [] verdict = "no-internet" ->
           \/ node.kind = "router" /\ "ping" \notin node.well
           \/ node.kind = "snmp" /\ agent = Silent
           \/ \E i \in DOMAIN node.radios :
                node.radios[i].band \in Bands /\ ~(node.radios[i].up /\ i \in agent.got)
      [] verdict = "degraded" ->
           \/ BadLatency
           \/ node.kind = "router" /\ \E s \in checks \cap {"dns", "http"} : s \notin node.well
      [] OTHER ->
           /\ lan # "none" /\ \A s \in Signals : ~ShellSays(s, "no")
           /\ agent.asked => agent.connected /\ \A b \in Bands : agent.radio[b] # "no"
=============================================================================
