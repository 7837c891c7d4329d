------------------------------ MODULE JobsProofs ------------------------------
(***************************************************************************)
(* Proofs about the jobs of MCJobs, for any number of devices, hosts, rows *)
(* and users and any bounds: each component has an invariant that holds at *)
(* first, that its steps keep and that rests while the others step, and    *)
(* the last section puts them together.                                    *)
(***************************************************************************)
EXTENDS MCJobs, WellFoundedInduction, FiniteSetTheorems, TLAPS

(* Numbers: a set that is not empty has a least one, and one of ids that   *)
(* are bounded has a last one.                                             *)
LEMMA LeastOf ==
  ASSUME NEW T, T \subseteq Nat, T # {}
  PROVE  \E x \in T : \A y \in T : x <= y
<1> DEFINE R == OpToRel(<, Nat)
<1>1. \E x \in T : \A y \in T : ~(<<y, x>> \in R)
  <2> HIDE DEF R
  <2>1. IsWellFoundedOn(R, Nat)
    BY NatLessThanWellFounded DEF R
  <2> QED BY <2>1, WFMin
<1>2. \A x, y \in Nat : y < x => <<y, x>> \in R
  BY DEF OpToRel
<1>3. PICK x \in T : \A y \in T : ~(<<y, x>> \in R)
  BY <1>1
<1> HIDE DEF R
<1>4. \A y \in T : x <= y
  <2> SUFFICES ASSUME NEW y \in T PROVE x <= y
    OBVIOUS
  <2>1. x \in Nat /\ y \in Nat /\ ~(y < x)
    BY <1>2, <1>3
  <2> QED BY <2>1
<1> QED BY <1>4

LEMMA LastOf ==
  ASSUME NEW n \in Nat, NEW T, T \subseteq 1..n, T # {}
  PROVE  \E x \in T : \A y \in T : y <= x
<1> DEFINE U == {n - y : y \in T}
<1>1. U \subseteq Nat /\ U # {}
  <2>1. \A y \in T : n - y \in Nat
    OBVIOUS
  <2> QED BY <2>1
<1>2. PICK u \in U : \A v \in U : u <= v
  BY <1>1, LeastOf
<1>3. PICK x \in T : u = n - x
  BY <1>2
<1>4. \A y \in T : n - x <= n - y
  BY <1>2, <1>3
<1>5. \A y \in T : y <= x
  BY <1>4
<1> QED BY <1>5

-----------------------------------------------------------------------------
(* The probe of a node (NodeProbe).                                        *)
(* What the probe heard is the node's own: what its shell told is some     *)
(* part of what is well in it, what its agent told of its radios.          *)
ShellIsTold ==
  \/ shell = NotAsked
  \/ /\ node.kind = "router"
     /\ shell = Silent \/ \E got \in SUBSET Signals : shell = ShellTold(got)
AgentIsTold ==
  \/ agent = NotAsked
  \/ /\ node.kind = "snmp"
     /\ \/ agent = Silent
        \/ \E listed \in SUBSET DOMAIN node.radios :
             \E got \in SUBSET listed : agent = AgentTold(listed, got)

ProbedNodes == [kind : Kinds, well : SUBSET Signals, radios : {<<>>} \cup (Radios \X Radios)]

HeardOK ==
  /\ node \in ProbedNodes /\ checks \subseteq Toggles
  /\ ShellIsTold /\ AgentIsTold
  /\ probing \in {"ping", "ask"} => shell = NotAsked /\ agent = NotAsked

ProbeInvariant == ProbeTypeOK /\ HeardOK /\ VerdictEarned

(* The parts of what a shell or an agent told.                             *)
LEMMA ShellToldParts ==
  ASSUME NEW got \in SUBSET Signals
  PROVE  /\ ShellTold(got) \in [asked : {TRUE}, connected : {TRUE}, says : [Signals -> Tri]]
         /\ \A s \in Signals : ShellTold(got).says[s] = "no" => s \in Asked /\ s \notin node.well
BY DEF ShellTold, TriOf, Tri

LEMMA RadioParts ==
  ASSUME HeardOK, NEW listed \in SUBSET DOMAIN node.radios, NEW got \in SUBSET listed, NEW b \in Bands
  PROVE  /\ Radio(b, listed, got) \in Tri
         /\ Radio(b, listed, got) = "no" =>
              \E i \in DOMAIN node.radios : node.radios[i].band = b /\ ~(node.radios[i].up /\ i \in got)
<1>1. Radio(b, listed, got) \in Tri
  BY DEF Radio, Tri
<1>2. DOMAIN node.radios \subseteq 1..2
  BY DEF HeardOK, ProbedNodes
<1>3. ASSUME NEW i \in listed, node.radios[i].band = b
      PROVE  First(b, listed) \in listed /\ node.radios[First(b, listed)].band = b
  <2>1. \E k \in listed : /\ node.radios[k].band = b
                          /\ \A j \in listed : node.radios[j].band = b => k <= j
    <3>1. CASE 1 \in listed /\ node.radios[1].band = b
      <4>1. \A j \in listed : 1 <= j
        BY <1>2
      <4> QED BY <3>1, <4>1
    <3>2. CASE ~(1 \in listed /\ node.radios[1].band = b)
      <4>1. i = 2
        BY <1>2, <1>3, <3>2
      <4>2. \A j \in listed : node.radios[j].band = b => 2 <= j
        BY <1>2, <3>2
      <4> QED BY <1>3, <4>1, <4>2
    <3> QED BY <3>1, <3>2
  <2> QED BY <2>1 DEF First
<1>4. ASSUME Radio(b, listed, got) = "no"
      PROVE  \E i \in DOMAIN node.radios : node.radios[i].band = b /\ ~(node.radios[i].up /\ i \in got)
  <2>1. PICK i \in listed : node.radios[i].band = b
    BY <1>4 DEF Radio
  <2>2. First(b, listed) \in listed /\ node.radios[First(b, listed)].band = b
    BY <1>3, <2>1
  <2>3. ~(First(b, listed) \in got /\ node.radios[First(b, listed)].up)
    BY <1>4, <2>1 DEF Radio
  <2> QED BY <2>2, <2>3
<1> QED BY <1>1, <1>4

LEMMA AgentToldParts ==
  ASSUME HeardOK, NEW listed \in SUBSET DOMAIN node.radios, NEW got \in SUBSET listed
  PROVE  /\ AgentTold(listed, got) \in [asked : {TRUE}, connected : {TRUE}, got : SUBSET (1..2),
                                        radio : [Bands -> Tri]]
         /\ AgentTold(listed, got).got = got
         /\ \A b \in Bands : AgentTold(listed, got).radio[b] = Radio(b, listed, got)
<1>1. DOMAIN node.radios \subseteq 1..2
  BY DEF HeardOK, ProbedNodes
<1>2. \A b \in Bands : Radio(b, listed, got) \in Tri
  BY RadioParts
<1> QED BY <1>1, <1>2 DEF AgentTold

(* A label that was not told yet has nothing to answer for.                *)
LEMMA UntoldIsEarned == (probing # "told" => VerdictEarned) /\ (probing' # "told" => VerdictEarned')
<1>1. ASSUME probing # "told" PROVE VerdictEarned
  BY <1>1 DEF VerdictEarned
<1>2. ASSUME probing' # "told" PROVE VerdictEarned'
  BY <1>2 DEF VerdictEarned
<1> QED BY <1>1, <1>2

(* Nothing was heard of a shell or an agent that was not asked, and what   *)
(* was heard stays what it was while the node and its checks do.           *)
LEMMA SilenceIsTold ==
  /\ (shell = NotAsked => ShellIsTold) /\ (shell' = NotAsked => ShellIsTold')
  /\ (agent = NotAsked => AgentIsTold) /\ (agent' = NotAsked => AgentIsTold')
<1>1. ASSUME shell = NotAsked PROVE ShellIsTold
  BY <1>1 DEF ShellIsTold
<1>2. ASSUME shell' = NotAsked PROVE ShellIsTold'
  BY <1>2 DEF ShellIsTold
<1>3. ASSUME agent = NotAsked PROVE AgentIsTold
  BY <1>3 DEF AgentIsTold
<1>4. ASSUME agent' = NotAsked PROVE AgentIsTold'
  BY <1>4 DEF AgentIsTold
<1> QED BY <1>1, <1>2, <1>3, <1>4

LEMMA TellingKept ==
  ASSUME HeardOK, UNCHANGED <<node, checks>>
  PROVE  (shell' = shell => ShellIsTold') /\ (agent' = agent => AgentIsTold')
<1>1. \A got \in SUBSET Signals : ShellTold(got)' = ShellTold(got)
  BY DEF ShellTold, Asked
<1>2. \A listed, got : AgentTold(listed, got)' = AgentTold(listed, got)
  BY DEF AgentTold, Radio, First
<1>3. ASSUME shell' = shell PROVE ShellIsTold'
  BY <1>1, <1>3 DEF HeardOK, ShellIsTold
<1>4. ASSUME agent' = agent PROVE AgentIsTold'
  BY <1>2, <1>4 DEF HeardOK, AgentIsTold
<1> QED BY <1>3, <1>4

LEMMA ProbeStarts == ProbeInit => ProbeInvariant
<1> SUFFICES ASSUME ProbeInit PROVE ProbeTypeOK /\ HeardOK /\ VerdictEarned
  BY DEF ProbeInvariant
<1>1. NewNode \in ProbedNodes /\ NewNode.kind \in Kinds /\ NewNode.well = {}
  BY DEF NewNode, ProbedNodes, Kinds
<1>2. ProbeTypeOK
  BY <1>1 DEF ProbeInit, ProbeTypeOK, Verdicts
<1>3. HeardOK
  BY <1>1, SilenceIsTold DEF ProbeInit, HeardOK
<1> QED BY <1>2, <1>3, UntoldIsEarned DEF ProbeInit

(* The label of what was heard.                                            *)
LEMMA VerdictOfHeard ==
  ASSUME ProbeTypeOK, HeardOK, Classifies
  PROVE  VerdictEarned'
<1> USE DEF Classifies
<1>1. UNCHANGED <<node, checks, lan, shell, agent>> /\ probing' = "told"
  OBVIOUS
<1>2. node.kind \in Kinds /\ checks \subseteq Toggles /\ lan \in {"none", "bad", "good"}
  BY DEF ProbeTypeOK
<1>3. \A s \in Signals : ShellSays(s, "no") => node.kind = "router" /\ s \in Asked /\ s \notin node.well
  <2> SUFFICES ASSUME NEW s \in Signals, ShellSays(s, "no")
               PROVE  node.kind = "router" /\ s \in Asked /\ s \notin node.well
    OBVIOUS
  <2>1. shell # NotAsked /\ shell # Silent
    BY DEF ShellSays, NotAsked, Silent
  <2>2. PICK got \in SUBSET Signals : shell = ShellTold(got)
    BY <2>1 DEF HeardOK, ShellIsTold
  <2>3. node.kind = "router"
    BY <2>1 DEF HeardOK, ShellIsTold
  <2> QED BY <2>2, <2>3, ShellToldParts DEF ShellSays
<1>4. CASE node.kind # "snmp"
  <2>1. agent = NotAsked
    BY <1>4 DEF HeardOK, AgentIsTold
  <2>2. verdict' = Classified
    BY <1>4
  <2>3. CASE Classified = "offline"
    <3>1. lan = "none"
      BY <2>3 DEF Classified
    <3> QED BY <1>1, <2>2, <2>3, <3>1 DEF VerdictEarned
  <2>4. CASE Classified = "no-internet"
    <3>1. ShellSays("ping", "no")
      BY <2>4 DEF Classified
    <3>2. node.kind = "router" /\ "ping" \notin node.well
      BY <1>3, <3>1 DEF Signals
    <3> QED BY <1>1, <2>2, <2>4, <3>2 DEF VerdictEarned
  <2>5. CASE Classified = "degraded"
    <3>1. BadLatency \/ \E s \in {"dns", "http"} : ShellSays(s, "no")
      BY <2>5 DEF Classified
    <3>2. BadLatency \/ (node.kind = "router" /\ \E s \in checks \cap {"dns", "http"} : s \notin node.well)
      BY <1>3, <3>1 DEF Signals, Asked
    <3>3. BadLatency' = BadLatency
      BY <1>1 DEF BadLatency
    <3> QED BY <1>1, <2>2, <2>5, <3>2, <3>3 DEF VerdictEarned
  <2>6. CASE Classified \notin {"offline", "no-internet", "degraded"}
    <3>1. lan # "none" /\ \A s \in Signals : ~ShellSays(s, "no")
      BY <2>6 DEF Classified, Signals
    <3>2. \A s \in Signals : ShellSays(s, "no")' = ShellSays(s, "no")
      BY <1>1 DEF ShellSays
    <3> QED BY <1>1, <2>1, <2>2, <2>6, <3>1, <3>2 DEF VerdictEarned, NotAsked
  <2> QED BY <2>3, <2>4, <2>5, <2>6
<1>5. CASE node.kind = "snmp"
  <2>1. \A s \in Signals : ~ShellSays(s, "no")'
    <3>1. \A s \in Signals : ~ShellSays(s, "no")
      BY <1>3, <1>5
    <3> QED BY <1>1, <3>1 DEF ShellSays
  <2>2. verdict' = ClassifiedSnmp
    BY <1>5
  <2>3. CASE ClassifiedSnmp = "offline"
    <3>1. lan = "none"
      BY <2>3 DEF ClassifiedSnmp
    <3> QED BY <1>1, <2>2, <2>3, <3>1 DEF VerdictEarned
  <2>4. CASE ClassifiedSnmp = "no-internet"
    <3>1. agent.asked /\ (~agent.connected \/ \E b \in Bands : agent.radio[b] = "no")
      BY <2>4 DEF ClassifiedSnmp
    <3>2. CASE agent = Silent
      BY <1>1, <1>5, <2>2, <2>4, <3>2 DEF VerdictEarned
    <3>3. CASE agent # Silent
      <4>1. agent # NotAsked
        BY <3>1 DEF NotAsked
      <4>2. PICK listed \in SUBSET DOMAIN node.radios : \E got \in SUBSET listed : agent = AgentTold(listed, got)
        BY <3>3, <4>1 DEF HeardOK, AgentIsTold
      <4>6. PICK got \in SUBSET listed : agent = AgentTold(listed, got)
        BY <4>2
      <4>3. agent.connected /\ agent.got = got /\ \A b \in Bands : agent.radio[b] = Radio(b, listed, got)
        BY <4>6, AgentToldParts
      <4>4. PICK b \in Bands : Radio(b, listed, got) = "no"
        BY <3>1, <4>3
      <4>5. \E i \in DOMAIN node.radios :
              node.radios[i].band \in Bands /\ ~(node.radios[i].up /\ i \in agent.got)
        BY <4>3, <4>4, RadioParts
      <4> QED BY <1>1, <2>2, <2>4, <4>5 DEF VerdictEarned
    <3> QED BY <3>2, <3>3
  <2>5. CASE ClassifiedSnmp = "degraded"
    <3>1. BadLatency
      BY <2>5 DEF ClassifiedSnmp
    <3> QED BY <1>1, <2>2, <2>5, <3>1 DEF VerdictEarned, BadLatency
  <2>6. CASE ClassifiedSnmp \notin {"offline", "no-internet", "degraded"}
    <3>1. lan # "none" /\ (agent.asked => agent.connected /\ \A b \in Bands : agent.radio[b] # "no")
      BY <2>6 DEF ClassifiedSnmp
    <3> QED BY <1>1, <2>1, <2>2, <2>6, <3>1 DEF VerdictEarned
  <2> QED BY <2>3, <2>4, <2>5, <2>6
<1> QED BY <1>4, <1>5

LEMMA ProbeStep ==
  ASSUME ProbeInvariant, ProbeNext
  PROVE  ProbeInvariant'
<1> USE DEF ProbeInvariant
<1>1. CASE PingsNode
  <2>1. PICK kind \in Kinds, well \in SUBSET Signals, radios \in {<<>>} \cup (Radios \X Radios) :
          node' = [kind |-> kind, well |-> well, radios |-> IF kind = "snmp" THEN radios ELSE <<>>]
    BY <1>1 DEF PingsNode
  <2>2. node' \in ProbedNodes /\ node'.kind \in Kinds /\ node'.well \subseteq Signals
    BY <2>1 DEF ProbedNodes
  <2>3. shell' = NotAsked /\ agent' = NotAsked /\ probing' \in {"classify", "ask"} /\ checks' \subseteq Toggles
    BY <1>1 DEF PingsNode, HeardOK, HealthConfigs
  <2>4. ProbeTypeOK'
    BY <1>1, <2>2, <2>3 DEF PingsNode, ProbeTypeOK
  <2>5. HeardOK'
    BY <2>2, <2>3, SilenceIsTold DEF HeardOK
  <2> QED BY <2>3, <2>4, <2>5, UntoldIsEarned
<1>2. CASE MassOutage
  <2>1. ProbeTypeOK' /\ HeardOK'
    BY <1>2, TellingKept DEF MassOutage, ProbeTypeOK, HeardOK
  <2> QED BY <1>2, <2>1, UntoldIsEarned DEF MassOutage
<1>3. CASE AsksShell
  <2>1. UNCHANGED <<node, checks, lan, agent, verdict>> /\ probing' = "classify" /\ agent = NotAsked
    BY <1>3 DEF AsksShell, HeardOK
  <2>2. node.kind = "router" /\ (shell' = Silent \/ \E got \in SUBSET Signals : shell' = ShellTold(got))
    BY <1>3 DEF AsksShell
  <2>3. \A got \in SUBSET Signals : ShellTold(got)' = ShellTold(got)
    BY <2>1 DEF ShellTold, Asked
  <2>4. shell' \in {NotAsked, Silent} \cup
               [asked : {TRUE}, connected : {TRUE}, says : [Signals -> Tri]]
    BY <2>2, ShellToldParts
  <2>5. ShellIsTold'
    BY <2>1, <2>2, <2>3 DEF ShellIsTold
  <2>6. ProbeTypeOK'
    BY <2>1, <2>4 DEF ProbeTypeOK
  <2>7. HeardOK'
    BY <2>1, <2>5, TellingKept DEF HeardOK
  <2> QED BY <2>1, <2>6, <2>7, UntoldIsEarned
<1>4. CASE AsksAgent
  <2>1. UNCHANGED <<node, checks, lan, shell, verdict>> /\ probing' = "classify" /\ shell = NotAsked
    BY <1>4 DEF AsksAgent, HeardOK
  <2>2. /\ node.kind = "snmp"
        /\ \/ agent' = Silent
           \/ \E listed \in SUBSET DOMAIN node.radios :
                \E got \in SUBSET listed : agent' = AgentTold(listed, got)
    BY <1>4 DEF AsksAgent
  <2>3. \A listed, got : AgentTold(listed, got)' = AgentTold(listed, got)
    BY <2>1 DEF AgentTold, Radio, First
  <2>4. agent' \in {NotAsked, Silent} \cup
               [asked : {TRUE}, connected : {TRUE}, got : SUBSET (1..2), radio : [Bands -> Tri]]
    <3>1. CASE agent' = Silent
      BY <3>1
    <3>2. ASSUME NEW listed \in SUBSET DOMAIN node.radios, NEW got \in SUBSET listed,
                 agent' = AgentTold(listed, got)
          PROVE  agent' \in [asked : {TRUE}, connected : {TRUE}, got : SUBSET (1..2), radio : [Bands -> Tri]]
      BY <3>2, AgentToldParts
    <3> QED BY <2>2, <3>1, <3>2
  <2>5. AgentIsTold'
    BY <2>1, <2>2, <2>3 DEF AgentIsTold
  <2>6. ProbeTypeOK'
    BY <2>1, <2>4 DEF ProbeTypeOK
  <2>7. HeardOK'
    BY <2>1, <2>5, TellingKept DEF HeardOK
  <2> QED BY <2>1, <2>6, <2>7, UntoldIsEarned
<1>5. CASE Classifies
  <2>1. VerdictEarned'
    BY <1>5, VerdictOfHeard
  <2>2. UNCHANGED <<node, checks, lan, shell, agent>> /\ probing' = "told" /\ verdict' \in Verdicts
    BY <1>5 DEF Classifies, Classified, ClassifiedSnmp, Verdicts
  <2>5. HeardOK'
    BY <2>2, TellingKept DEF HeardOK
  <2> QED BY <2>1, <2>2, <2>5 DEF ProbeTypeOK
<1>6. CASE NextProbe
  <2>1. ProbeInit'
    BY <1>6 DEF NextProbe, ProbeInit
  <2>2. NewNode \in ProbedNodes /\ NewNode.kind \in Kinds /\ NewNode.well = {}
    BY DEF NewNode, ProbedNodes, Kinds
  <2>3. ProbeTypeOK'
    BY <2>1, <2>2 DEF ProbeInit, ProbeTypeOK, Verdicts
  <2>4. HeardOK'
    BY <2>1, <2>2, SilenceIsTold DEF ProbeInit, HeardOK
  <2> QED BY <2>1, <2>3, <2>4, UntoldIsEarned DEF ProbeInit
<1> QED BY <1>1, <1>2, <1>3, <1>4, <1>5, <1>6 DEF ProbeNext

LEMMA ProbeRests ==
  ASSUME ProbeInvariant, UNCHANGED probeVars
  PROVE  ProbeInvariant'
<1> USE DEF probeVars
<1>3. HeardOK'
  BY TellingKept DEF ProbeInvariant, HeardOK
<1>4. ProbeTypeOK' /\ VerdictEarned'
  BY DEF ProbeInvariant, ProbeTypeOK, VerdictEarned, BadLatency, ShellSays
<1> QED BY <1>3, <1>4 DEF ProbeInvariant

-----------------------------------------------------------------------------
(* The reboot of a node (NodeReboot).                                      *)
(* The ways before the one that comes next were all tried, if there are    *)
(* any, and none of them was answered with a yes; but a node whose method  *)
(* is SNMP is asked by it at once.                                         *)
Earlier == [login |-> {}, key |-> {"login"}, global |-> {"login", "key"},
            snmp |-> {"login", "key", "global"}]
TriedSoFar ==
  next \in Ways =>
    /\ answer = NoReply
    /\ \/ tried = ways \cap Earlier[next]
       \/ next = "snmp" /\ direct /\ tried = {} /\ "snmp" \in ways

RebootInvariant == RebootTypeOK /\ TriedSoFar /\ EveryWayTried

LEMMA RebootStarts == RebootInit => RebootInvariant
BY DEF RebootInit, RebootInvariant, RebootTypeOK, TriedSoFar, EveryWayTried, Ways

LEMMA RebootStep ==
  ASSUME RebootInvariant, RebootNext
  PROVE  RebootInvariant'
<1> USE DEF RebootInvariant, Ways, Earlier
<1>1. CASE RebootAsked
  <2>1. RebootTypeOK'
    BY <1>1 DEF RebootAsked, RebootTypeOK
  <2> QED BY <1>1, <2>1 DEF RebootAsked, TriedSoFar, EveryWayTried, NoReply
<1>2. CASE RebootTold
  BY <1>2 DEF RebootTold, RebootTypeOK, TriedSoFar, EveryWayTried
<1>3. ASSUME NEW w \in Ways, NotThere(w) PROVE RebootInvariant'
  BY <1>3 DEF NotThere, After, RebootTypeOK, TriedSoFar, EveryWayTried, NoReply
<1>4. ASSUME NEW w \in Ways, NEW success \in BOOLEAN, Tries(w), Says(w, success),
             taken' \in BOOLEAN, reach' \in {"up", "deaf", "away"},
             success /\ w # "snmp" => taken'
      PROVE  RebootInvariant'
  <2>1. RebootTypeOK'
    <3>1. answer' \in {NoReply} \cup {Yes(v) : v \in Ways}
      BY <1>4 DEF Says, RebootTypeOK
    <3> QED BY <1>4, <3>1 DEF Tries, Says, After, RebootTypeOK
  <2>2. TriedSoFar'
    BY <1>4 DEF Tries, Says, After, TriedSoFar
  <2>3. EveryWayTried'
    <3>1. CASE success
      BY <1>4, <3>1 DEF Tries, Says, TriedSoFar, EveryWayTried, Yes
    <3>2. CASE ~success
      <4>1. next = w /\ w \in ways /\ tried' = tried \cup {w} /\ answer' = NoReply
              /\ next' = After(w) /\ UNCHANGED <<ways, direct>>
        BY <1>4, <3>2 DEF Tries, Says, TriedSoFar
      <4>2. next' = "told" => w = "snmp"
        BY <4>1 DEF After
      <4>3. w = "snmp" => tried' = ways' \/ (direct' /\ tried' = {"snmp"})
        <5>1. Earlier["snmp"] = {"login", "key", "global"} /\ ways \subseteq Ways
          BY DEF RebootTypeOK
        <5>2. CASE w = "snmp" /\ tried = ways \cap {"login", "key", "global"}
          <6>1. \A x : x \in ways => x \in tried \cup {"snmp"}
            BY <5>1, <5>2
          <6> QED BY <4>1, <5>2, <6>1
        <5>3. CASE w = "snmp" /\ direct /\ tried = {}
          BY <4>1, <5>3
        <5> QED BY <4>1, <5>1, <5>2, <5>3 DEF TriedSoFar
      <4> QED BY <4>1, <4>2, <4>3 DEF EveryWayTried, NoReply
    <3> QED BY <3>1, <3>2
  <2> QED BY <2>1, <2>2, <2>3
<1>5. ASSUME NoPing \/ SnmpRan \/ SnmpRefused \/ SnmpSilent PROVE RebootInvariant'
  BY <1>4, <1>5 DEF NoPing, SnmpRan, SnmpRefused, SnmpSilent, RebootTypeOK
<1>6. ASSUME NEW w \in Ways, SshRan(w) \/ SshRefused(w) PROVE RebootInvariant'
  BY <1>4, <1>6 DEF SshRan, SshRefused, RebootTypeOK
<1> QED BY <1>1, <1>2, <1>3, <1>5, <1>6 DEF RebootNext

LEMMA RebootRests ==
  ASSUME RebootInvariant, UNCHANGED rebootVars
  PROVE  RebootInvariant'
BY DEF RebootInvariant, RebootTypeOK, TriedSoFar, EveryWayTried, rebootVars

-----------------------------------------------------------------------------
(* The policy of the automatic blocks (AutoblockPolicy).                   *)
USE EditsAssumption

(* The policy in force lets an order through when it is given; one that    *)
(* an edit overtook is not held to the new policy.                         *)
PolicyInvariant == PolicyTypeOK /\ BlocksAllowed

LEMMA PolicyStarts == PolicyInit => PolicyInvariant
<1> SUFFICES ASSUME PolicyInit PROVE PolicyTypeOK /\ BlocksAllowed
  BY DEF PolicyInvariant
<1>1. MaxEdits \in Nat
  OBVIOUS
<1>2. PolicyTypeOK
  <2>1. edits \in 0..MaxEdits /\ edited \in BOOLEAN
    <3>1. edits = 0 /\ edited = FALSE
      BY DEF PolicyInit
    <3>2. edited \in BOOLEAN
      BY <3>1
    <3>3. edits \in 0..MaxEdits
      BY <1>1, <3>1
    <3> QED BY <3>2, <3>3
  <2>2. sweep \in Policies \cup {NoSweep} /\ policy \in Policies /\ page \in Policies
    BY DEF PolicyInit
  <2>3. order = NoOrder
    BY DEF PolicyInit
  <2> QED BY <2>1, <2>2, <2>3 DEF PolicyTypeOK
<1>3. BlocksAllowed
  BY DEF PolicyInit, BlocksAllowed
<1> QED BY <1>2, <1>3

LEMMA PolicyStep ==
  ASSUME PolicyInvariant, PolicyNext
  PROVE  PolicyInvariant'
<1> USE DEF PolicyInvariant
<1>1. CASE SweepBegins
  BY <1>1 DEF SweepBegins, PolicyTypeOK, BlocksAllowed
<1>2. CASE SweepEnds
  BY <1>2 DEF SweepEnds, PolicyTypeOK, BlocksAllowed
<1>3. CASE PageLoads
  BY <1>3 DEF PageLoads, PolicyTypeOK, BlocksAllowed
<1>4. CASE OrderEnds
  BY <1>4 DEF OrderEnds, PolicyTypeOK, BlocksAllowed
<1>5. CASE EditPolicy
  <2>1. PolicyTypeOK'
    BY <1>5 DEF EditPolicy, PolicyTypeOK
  <2>2. BlocksAllowed'
    BY <1>5 DEF EditPolicy, BlocksAllowed
  <2> QED BY <2>1, <2>2
<1>6. ASSUME NEW a \in Alarms, SweepAsks(a) \/ PageAsks(a) \/ WazuhAsks(a) \/ OperatorAsks(a)
      PROVE  PolicyInvariant'
  <2>1. PICK by \in {"poller", "panel", "wazuh", "operator"} :
          /\ Orders(by, a)
          /\ by \in {"poller", "panel"} => AutoTakes(a)
          /\ by = "wazuh" => WazuhTakes(a)
    BY <1>6 DEF SweepAsks, PageAsks, WazuhAsks, OperatorAsks
  <2>2. UNCHANGED <<policy, sweep, page, edits>>
    BY <1>6 DEF SweepAsks, PageAsks, WazuhAsks, OperatorAsks
  <2>3. PolicyTypeOK'
    BY <2>1, <2>2 DEF Orders, PolicyTypeOK
  <2>4. order'.by = by /\ order'.alarm = a
    BY <2>1 DEF Orders
  <2>5. AutoTakes(a) => PollerPicks(a, policy)
    BY DEF AutoTakes, PollerPicks
  <2>6. BlocksAllowed'
    BY <2>1, <2>2, <2>4, <2>5 DEF BlocksAllowed, WazuhTakes, PollerPicks, Essential, Noise, InRange, Inside, Excepted
  <2> QED BY <2>3, <2>6
<1> QED BY <1>1, <1>2, <1>3, <1>4, <1>5, <1>6 DEF PolicyNext

LEMMA PolicyRests ==
  ASSUME PolicyInvariant, UNCHANGED policyVars
  PROVE  PolicyInvariant'
BY DEF PolicyInvariant, PolicyTypeOK, BlocksAllowed, policyVars, PollerPicks, Essential, Noise, InRange, Inside,
   Excepted

-----------------------------------------------------------------------------
(* The processing of a host (HostProcessing).                              *)
(* Before a phase the type of a host comes from the phases that are over.  *)
TypeSources ==
  [next |-> {Unknown}, lldp |-> {Unknown, "guess"}, ports |-> {Unknown, "guess", "lldp"},
   snmp |-> {Unknown, "guess", "lldp"}]
TypeSoFar ==
  /\ phase \in {"next", "lldp", "ports", "snmp"} => base["type"] \in TypeSources[phase]
  /\ phase \in {"wmi", "ssh"} => base["type"] \in {Unknown, "guess", "lldp", "snmp"}
  /\ phase = "next" => base = NoColumns

ProcessInvariant == ProcessTypeOK /\ TypeSoFar

(* A step takes nothing away, gives no type less evidence, and a remedy is *)
(* about a protocol that failed: the action of EvidenceGrows.              *)
KeepsEvidence ==
  /\ phase # "finish" =>
       /\ \A c \in Columns : base[c] # Unknown => base'[c] # Unknown
       /\ Worth(base'["type"]) >= Worth(base["type"])
  /\ phase = "finish" =>
       /\ base["os"] # Unknown => osName' # Unknown
       /\ remedy' \in Protocols => outcome'[remedy'] = "ERROR"

(* merge_asset never empties a column, and takes a value from either.      *)
LEMMA MergeKeeps ==
  ASSUME NEW b \in [Columns -> Sources], NEW new \in [Columns -> Sources]
  PROVE  /\ Merge(b, new) \in [Columns -> Sources]
         /\ \A c \in Columns : /\ b[c] # Unknown => Merge(b, new)[c] # Unknown
                               /\ Merge(b, new)[c] \in {b[c], new[c]}
                               /\ new[c] # Unknown => Merge(b, new)[c] = new[c]
                               /\ new[c] = Unknown => Merge(b, new)[c] = b[c]
BY DEF Merge

LEMMA FilledTypes ==
  ASSUME NEW source \in Sources, NEW cols
  PROVE  /\ Filled(source, cols) \in [Columns -> Sources]
         /\ \A c \in Columns : Filled(source, cols)[c] \in {source, Unknown}
         /\ \A c \in Columns : c \notin cols => Filled(source, cols)[c] = Unknown
BY DEF Filled, Sources, Unknown

LEMMA WorthOrder ==
  /\ Worth(Unknown) = 0 /\ Worth("guess") = 1 /\ Worth("lldp") = 2 /\ Worth("snmp") = 3
  /\ \A source \in Sources : Worth(source) \in 0..4
  /\ \A source \in {"wmi", "ssh", "router", "device", "web", "nmap"} : Worth(source) = 4
BY DEF Worth, Unknown, Sources

LEMMA ProcessStarts == ProcessInit => ProcessInvariant
<1> SUFFICES ASSUME ProcessInit PROVE ProcessTypeOK /\ TypeSoFar
  BY DEF ProcessInvariant
<1>1. base \in [Columns -> Sources] /\ base["type"] = Unknown
  BY DEF ProcessInit, NoColumns, Columns, Sources, Unknown
<1>2. outcome \in [Protocols -> Outcomes]
  BY DEF ProcessInit, Outcomes, Unknown
<1>3. ProcessTypeOK
  BY <1>1, <1>2 DEF ProcessInit, ProcessTypeOK, Sources, Unknown
<1>4. TypeSoFar
  BY <1>1 DEF ProcessInit, TypeSoFar, TypeSources
<1> QED BY <1>3, <1>4

(* The answers of the protocols: their outcome, and what they may tell.    *)
LEMMA AnswerParts ==
  /\ \A a \in SnmpAnswers : a.outcome \in Outcomes
  /\ \A a \in WmiAnswers(TRUE) \cup WmiAnswers(FALSE) : a.outcome \in Outcomes /\ "type" \notin a.cols
  /\ \A a \in SshAnswers : a.outcome \in Outcomes /\ "type" \notin a.cols
<1>6. /\ {"OK", "ERROR", "TIMEOUT", "AUTH_FAILED", Unknown} \subseteq Outcomes
      /\ NoAnswer.outcome \in Outcomes /\ NoAnswer.cols = {} /\ Error.outcome \in Outcomes /\ Error.cols = {}
  BY DEF NoAnswer, Error, Outcomes, Unknown
<1>1. \A a \in SnmpAnswers : a.outcome \in Outcomes
  <2> SUFFICES ASSUME NEW a \in SnmpAnswers, a \notin {NoAnswer, Error} PROVE a.outcome \in Outcomes
    BY <1>6
  <2>1. PICK cols : a = [outcome |-> "OK", cols |-> cols]
    BY DEF SnmpAnswers
  <2> QED BY <1>6, <2>1
<1>2. \A cols \in WmiParsed : "type" \notin cols
  BY DEF WmiParsed, Software
<1>3. \A a \in WmiAnswers(TRUE) \cup WmiAnswers(FALSE) : a.outcome \in Outcomes /\ "type" \notin a.cols
  <2> SUFFICES ASSUME NEW a \in WmiEnds, a # Error PROVE a.outcome \in Outcomes /\ "type" \notin a.cols
    BY <1>6 DEF WmiAnswers
  <2>1. PICK cols \in WmiParsed : a = [outcome |-> "OK", cols |-> cols]
    BY DEF WmiEnds
  <2> QED BY <1>6, <1>2, <2>1
<1>4. \A cols \in SshRead : "type" \notin cols
  BY DEF SshRead, SshSoftware, SshSession, Software
<1>5. \A a \in SshAnswers : a.outcome \in Outcomes /\ "type" \notin a.cols
  <2> SUFFICES ASSUME NEW a \in SshAnswers, a \notin {NoAnswer, Error}
               PROVE  a.outcome \in Outcomes /\ "type" \notin a.cols
    BY <1>6
  <2>1. CASE \E why \in {"TIMEOUT", "AUTH_FAILED"} : a = [outcome |-> why, cols |-> {}]
    BY <1>6, <2>1
  <2>2. CASE \E cols \in SshRead : a = [outcome |-> IF cols = {} THEN Unknown ELSE "OK", cols |-> cols]
    BY <1>6, <1>4, <2>2
  <2> QED BY <2>1, <2>2 DEF SshAnswers
<1> QED BY <1>1, <1>3, <1>5

LEMMA AnsweredKeeps ==
  ASSUME ProcessInvariant, NEW p \in Protocols, NEW a, a.outcome \in Outcomes, Answered(p, a)
  PROVE  /\ base' \in [Columns -> Sources] /\ outcome' \in [Protocols -> Outcomes]
         /\ \A c \in Columns : base[c] # Unknown => base'[c] # Unknown
         /\ base'["type"] \in {base["type"], p}
         /\ "type" \notin a.cols => base'["type"] = base["type"]
<1> DEFINE new == Filled(p, a.cols)
<1>1. p \in Sources /\ "type" \in Columns
  BY DEF Protocols, Sources, Columns
<1>2. /\ new \in [Columns -> Sources]
      /\ \A c \in Columns : new[c] \in {p, Unknown}
      /\ \A c \in Columns : c \notin a.cols => new[c] = Unknown
  BY <1>1, FilledTypes
<1>3. base \in [Columns -> Sources] /\ outcome \in [Protocols -> Outcomes]
  BY DEF ProcessInvariant, ProcessTypeOK
<1>4. base' = Merge(base, new) /\ outcome' = [outcome EXCEPT ![p] = a.outcome]
  BY DEF Answered
<1> HIDE DEF new
<1>5. outcome' \in [Protocols -> Outcomes]
  BY <1>3, <1>4
<1>6. /\ base' \in [Columns -> Sources]
      /\ \A c \in Columns : /\ base[c] # Unknown => base'[c] # Unknown
                            /\ new[c] # Unknown => base'[c] = new[c]
                            /\ new[c] = Unknown => base'[c] = base[c]
  BY <1>2, <1>3, <1>4, MergeKeeps
<1>7. base'["type"] \in {base["type"], p}
  BY <1>1, <1>2, <1>6
<1> QED BY <1>1, <1>2, <1>5, <1>6, <1>7

LEMMA ProcessStep ==
  ASSUME ProcessInvariant, ProcessNext
  PROVE  ProcessInvariant' /\ KeepsEvidence
<1>1. base \in [Columns -> Sources] /\ outcome \in [Protocols -> Outcomes] /\ "type" \in Columns
  BY DEF ProcessInvariant, ProcessTypeOK, Columns
<1>2. CASE HostListed
  <2>1. PICK os \in NmapTold, type \in {{}, {"type"}} :
           base' = Merge(Filled("nmap", os), Filled("guess", type))
    BY <1>2 DEF HostListed
  <2>2. /\ Filled("nmap", os) \in [Columns -> Sources] /\ Filled("guess", type) \in [Columns -> Sources]
        /\ Filled("nmap", os)["type"] = Unknown /\ Filled("guess", type)["type"] \in {"guess", Unknown}
    BY <1>1, FilledTypes DEF NmapTold, Sources
  <2>3. base' \in [Columns -> Sources] /\ base'["type"] \in {Unknown, "guess"}
    BY <1>1, <2>1, <2>2, MergeKeeps
  <2>4. phase = "next" /\ phase' = "lldp" /\ base = NoColumns
    BY <1>2 DEF HostListed, ProcessInvariant, TypeSoFar
  <2>5. ProcessTypeOK'
    BY <1>2, <2>3, <2>4 DEF HostListed, ProcessTypeOK, Sources, Outcomes, Unknown
  <2>6. TypeSoFar'
    BY <2>3, <2>4 DEF TypeSoFar, TypeSources
  <2>7. \A c \in Columns : base[c] = Unknown
    BY <2>4 DEF NoColumns
  <2>8. Worth(base'["type"]) >= Worth(base["type"])
    BY <1>1, <2>3, <2>7, WorthOrder
  <2> QED BY <2>4, <2>5, <2>6, <2>7, <2>8 DEF ProcessInvariant, KeepsEvidence
<1>3. CASE LldpTold
  <2>1. PICK type \in {{}, {"type"}}, os \in {{}, {"os"}} :
           base' = Merge(base, Filled("lldp", type \cup {c \in os : base[c] = Unknown}))
    BY <1>3 DEF LldpTold
  <2>2. phase = "lldp" /\ phase' = "ports" /\ UNCHANGED <<ports, osName, outcome, titled, remedy>>
    BY <1>3 DEF LldpTold
  <2>3. "lldp" \in Sources
    BY DEF Sources
  <2>4. /\ base' \in [Columns -> Sources] /\ base'["type"] \in {base["type"], "lldp"}
        /\ base["type"] \in {Unknown, "guess"} /\ \A c \in Columns : base[c] # Unknown => base'[c] # Unknown
    <3> DEFINE new == Filled("lldp", type \cup {c \in os : base[c] = Unknown})
    <3>1. new \in [Columns -> Sources] /\ \A c \in Columns : new[c] \in {"lldp", Unknown}
      BY <2>3, FilledTypes
    <3>2. base' = Merge(base, new)
      BY <2>1
    <3>3. base["type"] \in {Unknown, "guess"}
      BY <2>2 DEF ProcessInvariant, TypeSoFar, TypeSources
    <3> HIDE DEF new
    <3>4. /\ base' \in [Columns -> Sources]
          /\ \A c \in Columns : /\ base[c] # Unknown => base'[c] # Unknown
                                /\ new[c] # Unknown => base'[c] = new[c]
                                /\ new[c] = Unknown => base'[c] = base[c]
      BY <1>1, <3>1, <3>2, MergeKeeps
    <3> QED BY <1>1, <3>1, <3>3, <3>4
  <2>5. ProcessTypeOK'
    BY <2>2, <2>4 DEF ProcessInvariant, ProcessTypeOK
  <2>6. TypeSoFar'
    BY <2>2, <2>4 DEF TypeSoFar, TypeSources
  <2>7. Worth(base'["type"]) >= Worth(base["type"])
    BY <2>4, WorthOrder
  <2> QED BY <2>2, <2>4, <2>5, <2>6, <2>7 DEF ProcessInvariant, KeepsEvidence
<1>4. CASE PortsScanned
  <2>1. phase = "ports" /\ phase' = "snmp" /\ UNCHANGED <<base, osName, outcome, titled, remedy>>
          /\ ports' \subseteq Ports
    BY <1>4 DEF PortsScanned
  <2>2. ProcessTypeOK'
    BY <2>1 DEF ProcessInvariant, ProcessTypeOK
  <2>3. TypeSoFar'
    BY <2>1 DEF ProcessInvariant, TypeSoFar, TypeSources
  <2>4. Worth(base'["type"]) >= Worth(base["type"])
    BY <1>1, <2>1, WorthOrder
  <2> QED BY <2>1, <2>2, <2>3, <2>4 DEF ProcessInvariant, KeepsEvidence
<1>5. CASE AsksSnmp
  <2>1. phase = "snmp" /\ phase' = "wmi" /\ UNCHANGED <<ports, osName, titled, remedy>>
    BY <1>5 DEF AsksSnmp
  <2>2. UNCHANGED <<base, outcome>> \/ \E a \in SnmpAnswers : Answered("snmp", a)
    BY <1>5 DEF AsksSnmp
  <2>3. /\ base' \in [Columns -> Sources] /\ outcome' \in [Protocols -> Outcomes]
        /\ base'["type"] \in {base["type"], "snmp"}
        /\ \A c \in Columns : base[c] # Unknown => base'[c] # Unknown
    BY <1>1, <2>2, AnsweredKeeps, AnswerParts DEF Protocols
  <2>4. base["type"] \in {Unknown, "guess", "lldp"}
    BY <2>1 DEF ProcessInvariant, TypeSoFar, TypeSources
  <2>5. ProcessTypeOK'
    BY <2>1, <2>3 DEF ProcessInvariant, ProcessTypeOK
  <2>6. TypeSoFar'
    BY <2>1, <2>3, <2>4 DEF TypeSoFar
  <2>7. Worth(base'["type"]) >= Worth(base["type"])
    BY <2>3, <2>4, WorthOrder
  <2> QED BY <2>1, <2>3, <2>5, <2>6, <2>7 DEF ProcessInvariant, KeepsEvidence
<1>6. CASE AsksWmi \/ AsksSsh
  <2>1. /\ phase \in {"wmi", "ssh"} /\ phase' = (IF phase = "wmi" THEN "ssh" ELSE "http")
        /\ UNCHANGED <<ports, osName, titled, remedy>>
    BY <1>6 DEF AsksWmi, AsksSsh
  <2>2. UNCHANGED <<base, outcome>>
           \/ \E p \in Protocols, a \in WmiAnswers(TRUE) \cup WmiAnswers(FALSE) \cup SshAnswers : Answered(p, a)
    BY <1>6 DEF AsksWmi, AsksSsh, Protocols
  <2>3. /\ base' \in [Columns -> Sources] /\ outcome' \in [Protocols -> Outcomes]
        /\ base'["type"] = base["type"]
        /\ \A c \in Columns : base[c] # Unknown => base'[c] # Unknown
    BY <1>1, <2>2, AnsweredKeeps, AnswerParts
  <2>5. ProcessTypeOK'
    BY <2>1, <2>3 DEF ProcessInvariant, ProcessTypeOK
  <2>6. TypeSoFar'
    BY <2>1, <2>3 DEF ProcessInvariant, TypeSoFar
  <2>7. Worth(base'["type"]) >= Worth(base["type"])
    BY <1>1, <2>3, WorthOrder
  <2> QED BY <2>1, <2>3, <2>5, <2>6, <2>7 DEF ProcessInvariant, KeepsEvidence
<1>7. CASE Http \/ Https
  <2>1. /\ phase \in {"http", "https"} /\ phase' \in {"https", "finish"}
        /\ UNCHANGED <<ports, osName, outcome, remedy>>
    BY <1>7 DEF Http, Https
  <2>2. UNCHANGED <<base, titled>>
           \/ \E banner \in Banners : /\ base' = Merge(base, [NoColumns EXCEPT !["type"] = banner.type])
                                      /\ titled' = banner.titled
    BY <1>7 DEF Http, Https, Web
  <2>3. /\ base' \in [Columns -> Sources] /\ titled' \in BOOLEAN
        /\ \A c \in Columns : base[c] # Unknown => base'[c] # Unknown
        /\ base'["type"] \in {base["type"], "device", "router"}
    <3>1. CASE UNCHANGED <<base, titled>>
      BY <1>1, <3>1 DEF ProcessInvariant, ProcessTypeOK
    <3>2. ASSUME NEW banner \in Banners, base' = Merge(base, [NoColumns EXCEPT !["type"] = banner.type]),
                 titled' = banner.titled
          PROVE  /\ base' \in [Columns -> Sources] /\ titled' \in BOOLEAN
                 /\ \A c \in Columns : base[c] # Unknown => base'[c] # Unknown
                 /\ base'["type"] \in {base["type"], "device", "router"}
      <4> DEFINE new == [NoColumns EXCEPT !["type"] = banner.type]
      <4>1. new \in [Columns -> Sources] /\ new["type"] \in {Unknown, "device", "router"}
        BY <1>1 DEF Banners, NoColumns, Sources, Unknown
      <4>2. base' = Merge(base, new) /\ titled' \in BOOLEAN
        BY <3>2 DEF Banners
      <4> HIDE DEF new
      <4>3. /\ base' \in [Columns -> Sources]
            /\ \A c \in Columns : /\ base[c] # Unknown => base'[c] # Unknown
                                  /\ new[c] # Unknown => base'[c] = new[c]
                                  /\ new[c] = Unknown => base'[c] = base[c]
        BY <1>1, <4>1, <4>2, MergeKeeps
      <4> QED BY <1>1, <4>1, <4>2, <4>3
    <3> QED BY <2>2, <3>1, <3>2
  <2>5. ProcessTypeOK'
    BY <2>1, <2>3 DEF ProcessInvariant, ProcessTypeOK
  <2>6. TypeSoFar'
    BY <2>1 DEF TypeSoFar
  <2>7. Worth(base'["type"]) >= Worth(base["type"])
    BY <1>1, <2>3, WorthOrder
  <2> QED BY <2>1, <2>3, <2>5, <2>6, <2>7 DEF ProcessInvariant, KeepsEvidence
<1>8. CASE Finished
  <2>1. phase = "finish" /\ phase' = "next" /\ base' = NoColumns /\ ports' = {} /\ titled' = FALSE
          /\ osName' \in Identities /\ remedy' \in Remedies /\ outcome' = [p \in Protocols |-> OutcomeOf(p)]
    BY <1>8 DEF Finished
  <2>2. base["os"] # Unknown => osName' # Unknown
    BY <2>1 DEF Identities
  <2>3. remedy' \in Protocols \cup {"http", Unknown} /\ (remedy' \in Protocols => outcome[remedy'] = "ERROR")
    <3>1. PICK a \in Advice("wmi") \X Advice("ssh") \X Advice("snmp") \X WebAdvice : remedy' = FirstAdvice(a)
      BY <2>1 DEF Remedies
    <3>2. DOMAIN a = 1..4 /\ a[1] \in Advice("wmi") /\ a[2] \in Advice("ssh") /\ a[3] \in Advice("snmp")
            /\ a[4] \in WebAdvice
      BY <3>1
    <3>3. \A i \in DOMAIN a : a[i] \in Protocols \cup {"http", Unknown}
                                /\ (a[i] \in Protocols => outcome[a[i]] = "ERROR")
      <4>1. \A p \in Protocols : \A x \in Advice(p) :
              x \in {p, Unknown} /\ (x # Unknown => x = p /\ outcome[p] = "ERROR")
        BY DEF Advice
      <4>2. \A x \in WebAdvice : x \in {"http", Unknown}
        BY DEF WebAdvice
      <4>3. {"wmi", "ssh", "snmp"} = Protocols /\ "http" \notin Protocols /\ Unknown \notin Protocols
        BY DEF Protocols, Unknown
      <4>4. \A i \in {1, 2, 3} : a[i] \in Protocols \cup {"http", Unknown}
                                   /\ (a[i] \in Protocols => outcome[a[i]] = "ERROR")
        BY <3>2, <4>1, <4>3
      <4>5. a[4] \in {"http", Unknown}
        BY <3>2, <4>2
      <4> QED BY <3>2, <4>3, <4>4, <4>5
    <3>4. CASE \E i \in DOMAIN a : a[i] # Unknown
      <4>1. \E i \in DOMAIN a : a[i] # Unknown /\ \A j \in 1..(i - 1) : a[j] = Unknown
        <5>1. CASE a[1] # Unknown
          BY <3>2, <5>1
        <5>2. CASE a[1] = Unknown /\ a[2] # Unknown
          BY <3>2, <5>2
        <5>3. CASE a[1] = Unknown /\ a[2] = Unknown /\ a[3] # Unknown
          BY <3>2, <5>3
        <5>4. CASE a[1] = Unknown /\ a[2] = Unknown /\ a[3] = Unknown /\ a[4] # Unknown
          BY <3>2, <5>4
        <5> QED BY <3>2, <3>4, <5>1, <5>2, <5>3, <5>4
      <4> DEFINE i == CHOOSE i \in DOMAIN a : a[i] # Unknown /\ \A j \in 1..(i - 1) : a[j] = Unknown
      <4>2. i \in DOMAIN a
        BY <4>1
      <4>3. remedy' = a[i]
        BY <3>1, <3>4 DEF FirstAdvice
      <4> QED BY <3>3, <4>2, <4>3
    <3>5. CASE ~(\E i \in DOMAIN a : a[i] # Unknown)
      <4>1. remedy' = Unknown
        BY <3>1, <3>5 DEF FirstAdvice
      <4> QED BY <4>1 DEF Protocols, Unknown
    <3> QED BY <3>4, <3>5
  <2>4. remedy' \in Protocols => outcome'[remedy'] = "ERROR"
    BY <2>1, <2>3 DEF OutcomeOf, Unknown
  <2>5. ProcessTypeOK'
    <3>1. osName' \in Sources
      BY <2>1 DEF Identities, ProcessInvariant, ProcessTypeOK, Sources, Unknown, Columns
    <3>2. outcome' \in [Protocols -> Outcomes]
      BY <1>1, <2>1 DEF OutcomeOf, Outcomes
    <3>3. base' \in [Columns -> Sources]
      BY <2>1 DEF NoColumns, Sources, Unknown
    <3> QED BY <2>1, <2>3, <3>1, <3>2, <3>3 DEF ProcessTypeOK
  <2>6. TypeSoFar'
    BY <1>1, <2>1 DEF TypeSoFar, TypeSources, NoColumns
  <2> QED BY <2>1, <2>2, <2>4, <2>5, <2>6 DEF ProcessInvariant, KeepsEvidence
<1> QED BY <1>2, <1>3, <1>4, <1>5, <1>6, <1>7, <1>8 DEF ProcessNext

LEMMA ProcessRests ==
  ASSUME ProcessInvariant, UNCHANGED processVars
  PROVE  ProcessInvariant'
BY DEF ProcessInvariant, ProcessTypeOK, TypeSoFar, processVars

-----------------------------------------------------------------------------
(* The users of the panel (PanelUsers).                                    *)
USE UserAssumption, SessionAssumption

(* A deletion under way is of an account that was there and that is not    *)
(* the one named admin.                                                    *)
DeletionsAllowed ==
  \A w \in Servers : deleting[w] # NoUser =>
    users[deleting[w]] # Nobody /\ users[deleting[w]].name # "admin"

PanelInvariant == PanelTypeOK /\ DeletionsAllowed

UserRows == [name : Names, role : Roles, factory : BOOLEAN]

(* A row is never mistaken for an id that was not used, or is gone.        *)
LEMMA RowsAreReal == Nobody \notin UserRows /\ Gone \notin UserRows
<1>1. \A row \in UserRows : row.role \in Roles
  BY DEF UserRows
<1>2. Nobody.role \notin Roles /\ Gone.role \notin Roles
  BY DEF Nobody, Gone, Roles
<1> QED BY <1>1, <1>2

LEMMA RowsAreUsers ==
  ASSUME users \in [Users -> {Nobody, Gone} \cup UserRows]
  PROVE  Rows = {u \in Users : users[u] \in UserRows}
BY RowsAreReal DEF Rows

LEMMA RowsAreUsersNext ==
  ASSUME users' \in [Users -> {Nobody, Gone} \cup UserRows]
  PROVE  Rows' = {u \in Users : users'[u] \in UserRows}
BY RowsAreReal DEF Rows

LEMMA PanelStarts == PanelInit => PanelInvariant
<1> SUFFICES ASSUME PanelInit PROVE PanelTypeOK /\ DeletionsAllowed
  BY DEF PanelInvariant
<1>1. Support \in UserRows
  BY DEF Support, UserRows, Roles
<1>2. users \in [Users -> {Nobody, Gone} \cup UserRows]
  BY <1>1 DEF PanelInit
<1>3. \A u \in Rows : u = 1 /\ legacy
  BY DEF PanelInit, Rows
<1>4. legacy => \E u \in Rows : users[u].name = "admin"
  <2> SUFFICES ASSUME legacy PROVE 1 \in Rows /\ users[1].name = "admin"
    OBVIOUS
  <2>1. users[1] = Support
    BY DEF PanelInit
  <2>2. 1 \in Users
    OBVIOUS
  <2>3. 1 \in Rows
    BY <1>1, <1>2, <2>1, <2>2, RowsAreUsers
  <2> QED BY <2>1, <2>3 DEF Support
<1>5. sessions = {} /\ logins \in 0..MaxSessions /\ legacy \in BOOLEAN
  <2>1. MaxSessions \in Nat
    OBVIOUS
  <2>2. logins \in 0..MaxSessions
    BY <2>1 DEF PanelInit
  <2> QED BY <2>2 DEF PanelInit
<1>6. \A w \in Servers : deleting[w] = NoUser
  BY DEF PanelInit
<1>7. deleting \in [Servers -> {NoUser} \cup Users]
  BY DEF PanelInit
<1>8. PanelTypeOK
  BY <1>2, <1>3, <1>4, <1>5, <1>7 DEF PanelTypeOK, UserRows
<1> QED BY <1>6, <1>8 DEF DeletionsAllowed

(* A step that gives one row another content: a new one under a name that  *)
(* is free, or an old one under its name.                                  *)
LEMMA RowWritten ==
  ASSUME PanelInvariant, NEW u \in Users, NEW row \in UserRows, users' = [users EXCEPT ![u] = row],
         \/ u \in Rows /\ row.name = users[u].name
         \/ users[u] = Nobody /\ \A v \in Rows : users[v].name # row.name,
         deleting' = deleting,
         legacy' \in BOOLEAN, legacy' => legacy \/ row.name = "admin"
  PROVE  /\ users' \in [Users -> {Nobody, Gone} \cup UserRows]
         /\ \A v, x \in Rows' : users'[v].name = users'[x].name => v = x
         /\ legacy' => \E v \in Rows' : users'[v].name = "admin"
         /\ DeletionsAllowed'
<1>1. users \in [Users -> {Nobody, Gone} \cup UserRows]
  BY DEF PanelInvariant, PanelTypeOK, UserRows
<1>2. users' \in [Users -> {Nobody, Gone} \cup UserRows] /\ users'[u] = row
        /\ \A v \in Users \ {u} : users'[v] = users[v]
  BY <1>1
<1>3. Rows' = Rows \cup {u} /\ Rows \subseteq Users
  BY <1>1, <1>2, RowsAreUsers, RowsAreUsersNext
<1>4. \A v, x \in Rows' : users'[v].name = users'[x].name => v = x
  <2>1. \A v, x \in Rows : users[v].name = users[x].name => v = x
    BY DEF PanelInvariant, PanelTypeOK
  <2>2. u \notin Rows => users[u] = Nobody /\ \A v \in Rows : users[v].name # row.name
    BY DEF Rows
  <2> QED BY <1>2, <1>3, <2>1, <2>2
<1>5. legacy' => \E v \in Rows' : users'[v].name = "admin"
  <2>1. legacy => \E v \in Rows : users[v].name = "admin"
    BY DEF PanelInvariant, PanelTypeOK
  <2>2. \A v \in Rows \ {u} : users'[v] = users[v]
    BY <1>2, <1>3
  <2>3. u \in Rows => users'[u].name = users[u].name
    BY <1>2 DEF Rows
  <2> QED BY <1>2, <1>3, <2>1, <2>2, <2>3
<1>6. DeletionsAllowed'
  <2> SUFFICES ASSUME NEW w \in Servers, deleting[w] # NoUser
               PROVE  users'[deleting[w]] # Nobody /\ users'[deleting[w]].name # "admin"
    BY DEF DeletionsAllowed
  <2>1. deleting[w] \in Users /\ users[deleting[w]] # Nobody /\ users[deleting[w]].name # "admin"
    BY DEF PanelInvariant, PanelTypeOK, DeletionsAllowed
  <2>2. CASE deleting[w] = u
    BY <1>2, <2>1, <2>2 DEF UserRows, Nobody, Roles
  <2>3. CASE deleting[w] # u
    BY <1>2, <2>1, <2>3
  <2> QED BY <2>2, <2>3
<1> QED BY <1>2, <1>4, <1>5, <1>6

LEMMA PanelStep ==
  ASSUME PanelInvariant, PanelNext
  PROVE  PanelInvariant'
<1>1. /\ users \in [Users -> {Nobody, Gone} \cup UserRows]
      /\ sessions \subseteq [name : Names, role : Roles] /\ logins \in 0..MaxSessions
      /\ deleting \in [Servers -> {NoUser} \cup Users] /\ legacy \in BOOLEAN
  BY DEF PanelInvariant, PanelTypeOK, UserRows
<1>2. /\ \A u, v \in Rows : users[u].name = users[v].name => u = v
      /\ legacy => \E u \in Rows : users[u].name = "admin"
      /\ DeletionsAllowed
  BY DEF PanelInvariant, PanelTypeOK
<1>3. Rows = {u \in Users : users[u] \in UserRows} /\ Fresh \subseteq Users
  BY <1>1, RowsAreUsers DEF Fresh
<1>4. \A u \in Fresh : users[u] = Nobody
  BY <1>3 DEF Fresh
<1>5. CASE EnsureUsers
  <2> DEFINE u == CHOOSE x \in Fresh : \A v \in Fresh : x <= v
  <2>1. u \in Fresh
    <3>1. Fresh \subseteq Nat /\ Fresh # {}
      BY <1>3, <1>5 DEF EnsureUsers
    <3> QED BY <3>1, LeastOf
  <2>2. users' = [users EXCEPT ![u] = Root] /\ UNCHANGED <<sessions, logins, deleting, legacy>> /\ Rows = {}
    BY <1>5 DEF EnsureUsers
  <2> HIDE DEF u
  <2>3. Root \in UserRows
    BY DEF Root, UserRows, Roles
  <2>4. u \in Users /\ users[u] = Nobody
    BY <1>3, <1>4, <2>1
  <2> QED BY <1>1, <2>2, <2>3, <2>4, RowWritten DEF PanelInvariant, PanelTypeOK, UserRows
<1>6. CASE Login
  <2>1. PICK u \in Rows : sessions' = sessions \cup {[name |-> users[u].name, role |-> users[u].role]}
    BY <1>6 DEF Login
  <2>2. users[u].name \in Names /\ users[u].role \in Roles
    BY <1>3 DEF UserRows
  <2>3. sessions' \subseteq [name : Names, role : Roles] /\ logins' \in 0..MaxSessions
    <3>1. MaxSessions \in Nat
      OBVIOUS
    <3>2. logins' \in 0..MaxSessions
      BY <1>1, <1>6, <3>1 DEF Login
    <3> QED BY <1>1, <2>1, <2>2, <3>2
  <2>4. UNCHANGED <<users, deleting, legacy>>
    BY <1>6 DEF Login
  <2> QED BY <1>1, <1>2, <2>3, <2>4 DEF PanelInvariant, PanelTypeOK, UserRows, Rows, DeletionsAllowed
<1>7. CASE SessionEnds
  BY <1>1, <1>2, <1>7 DEF SessionEnds, PanelInvariant, PanelTypeOK, UserRows, Rows, DeletionsAllowed
<1>8. CASE CreateUser
  <2>1. PICK u \in Fresh, name \in FreeNames, role \in Roles :
           /\ users' = [users EXCEPT ![u] = [name |-> name, role |-> role, factory |-> FALSE]]
           /\ legacy' = (legacy \/ name = "admin")
    BY <1>8 DEF CreateUser
  <2> DEFINE row == [name |-> name, role |-> role, factory |-> FALSE]
  <2>2. row \in UserRows /\ row.name = name
    BY DEF UserRows, FreeNames
  <2>3. \A v \in Rows : users[v].name # name
    BY DEF FreeNames
  <2>4. u \in Users /\ users[u] = Nobody
    BY <1>3, <1>4, <2>1
  <2>5. UNCHANGED <<sessions, logins, deleting>>
    BY <1>8 DEF CreateUser
  <2>6. legacy' \in BOOLEAN /\ (legacy' => legacy \/ row.name = "admin") /\ users' = [users EXCEPT ![u] = row]
    BY <1>1, <2>1
  <2> HIDE DEF row
  <2>7. /\ users' \in [Users -> {Nobody, Gone} \cup UserRows]
        /\ \A v, x \in Rows' : users'[v].name = users'[x].name => v = x
        /\ legacy' => \E v \in Rows' : users'[v].name = "admin"
        /\ DeletionsAllowed'
    BY <2>2, <2>3, <2>4, <2>5, <2>6, RowWritten
  <2> QED BY <1>1, <2>5, <2>6, <2>7 DEF PanelInvariant, PanelTypeOK, UserRows
<1>9. CASE ChangePassword \/ ChangeRole
  <2>1. PICK u \in Rows, row \in UserRows : users' = [users EXCEPT ![u] = row] /\ row.name = users[u].name
    <3>1. CASE ChangePassword
      <4>1. PICK u \in Rows : users' = [users EXCEPT ![u].factory = FALSE]
        BY <3>1 DEF ChangePassword
      <4>2. [users[u] EXCEPT !.factory = FALSE] \in UserRows
              /\ [users[u] EXCEPT !.factory = FALSE].name = users[u].name
        BY <1>3 DEF UserRows
      <4> QED BY <4>1, <4>2
    <3>2. CASE ChangeRole
      <4>1. PICK u \in Rows, role \in Roles : users' = [users EXCEPT ![u].role = role]
        BY <3>2 DEF ChangeRole
      <4>2. [users[u] EXCEPT !.role = role] \in UserRows
              /\ [users[u] EXCEPT !.role = role].name = users[u].name
        BY <1>3 DEF UserRows
      <4> QED BY <4>1, <4>2
    <3> QED BY <1>9, <3>1, <3>2
  <2>2. UNCHANGED <<sessions, logins, deleting, legacy>>
    BY <1>9 DEF ChangePassword, ChangeRole
  <2>3. u \in Users
    BY <1>3
  <2>4. /\ users' \in [Users -> {Nobody, Gone} \cup UserRows]
        /\ \A v, x \in Rows' : users'[v].name = users'[x].name => v = x
        /\ legacy' => \E v \in Rows' : users'[v].name = "admin"
        /\ DeletionsAllowed'
    BY <1>1, <2>1, <2>2, <2>3, RowWritten
  <2> QED BY <1>1, <2>2, <2>4 DEF PanelInvariant, PanelTypeOK, UserRows
<1>10. ASSUME NEW w \in Servers, DeleteChecks(w) PROVE PanelInvariant'
  <2>1. PICK s \in sessions, u \in Rows : Deletable(s, u) /\ deleting' = [deleting EXCEPT ![w] = u]
    BY <1>10 DEF DeleteChecks
  <2>2. UNCHANGED <<users, sessions, logins, legacy>>
    BY <1>10 DEF DeleteChecks
  <2>3. u \in Users /\ users[u] # Nobody /\ users[u].name # "admin"
    BY <2>1 DEF Rows, Deletable
  <2>4. deleting' \in [Servers -> {NoUser} \cup Users] /\ DeletionsAllowed'
    BY <1>1, <1>2, <2>1, <2>2, <2>3 DEF DeletionsAllowed
  <2> QED BY <1>1, <1>2, <2>2, <2>4 DEF PanelInvariant, PanelTypeOK, UserRows, Rows
<1>11. ASSUME NEW w \in Servers, DeleteUser(w) PROVE PanelInvariant'
  <2>1. /\ deleting[w] # NoUser /\ users' = [users EXCEPT ![deleting[w]] = Gone]
        /\ deleting' = [deleting EXCEPT ![w] = NoUser] /\ UNCHANGED <<sessions, logins, legacy>>
    BY <1>11 DEF DeleteUser
  <2>2. deleting[w] \in Users /\ users[deleting[w]].name # "admin"
    BY <1>1, <1>2, <2>1 DEF DeletionsAllowed
  <2>3. /\ users' \in [Users -> {Nobody, Gone} \cup UserRows] /\ users'[deleting[w]] = Gone
        /\ \A v \in Users \ {deleting[w]} : users'[v] = users[v]
    BY <1>1, <2>1, <2>2
  <2>4. Rows' = Rows \ {deleting[w]}
    <3>1. Gone \notin UserRows
      BY DEF Gone, UserRows, Roles
    <3> QED BY <1>3, <2>2, <2>3, <3>1, RowsAreUsersNext
  <2>5. \A v, x \in Rows' : users'[v].name = users'[x].name => v = x
    BY <1>2, <1>3, <2>3, <2>4
  <2>6. legacy' => \E v \in Rows' : users'[v].name = "admin"
    BY <1>2, <1>3, <2>1, <2>2, <2>3, <2>4
  <2>7. deleting' \in [Servers -> {NoUser} \cup Users]
    BY <1>1, <2>1
  <2>8. DeletionsAllowed'
    <3> SUFFICES ASSUME NEW z \in Servers, deleting'[z] # NoUser
                 PROVE  users'[deleting'[z]] # Nobody /\ users'[deleting'[z]].name # "admin"
      BY DEF DeletionsAllowed
    <3>1. deleting'[z] = deleting[z] /\ deleting[z] \in Users
      BY <1>1, <2>1
    <3>2. users[deleting[z]] # Nobody /\ users[deleting[z]].name # "admin"
      BY <1>2, <3>1 DEF DeletionsAllowed
    <3>3. Gone # Nobody /\ Gone.name # "admin"
      BY DEF Gone, Nobody
    <3> QED BY <2>3, <3>1, <3>2, <3>3
  <2> QED BY <1>1, <2>1, <2>3, <2>5, <2>6, <2>7, <2>8 DEF PanelInvariant, PanelTypeOK, UserRows
<1> QED BY <1>5, <1>6, <1>7, <1>8, <1>9, <1>10, <1>11 DEF PanelNext

LEMMA PanelRests ==
  ASSUME PanelInvariant, UNCHANGED panelVars
  PROVE  PanelInvariant'
BY DEF PanelInvariant, PanelTypeOK, DeletionsAllowed, Rows, panelVars

-----------------------------------------------------------------------------
(* The audit of the network (NetworkAudit).                                *)
USE AuditAssumption

-----------------------------------------------------------------------------
FindingRows == [status : Statuses \cup {"deleted"}, key : AuditKeys]
ScanRows    == [status : {"running", "completed", "failed"}, worker : AuditWorkers]
Simple      == [at : {"created", "nmap", "patches"}]

(* The flag of a worker, up only while a task of it runs.                  *)
FlagsEarned == \A w \in AuditWorkers : scanFlag[w] => \E s \in Scans : Underway(s) /\ WorkerOf(s) = w

(* A task has its scan; ids are given one after the other; and a row that  *)
(* a task looked up is still that of its key, and not deleted but by a     *)
(* step the task was told of.                                              *)
TasksHaveScans == \A s \in Scans : scans[s] = NoScan => audit[s] = NoTask
IdsInOrder     == \E n \in 0..MaxFindings : \A i \in Ids : findings[i].status # "none" <=> i <= n
LooksHold ==
  \A s \in Scans : audit[s].at = "saving" =>
    /\ audit[s].first \in audit[s].seen
    /\ audit[s].row # NoId =>
         /\ findings[audit[s].row].status # "none" /\ findings[audit[s].row].key = audit[s].first
         /\ audit[s].kept => findings[audit[s].row].status # "deleted"

AuditTypes ==
  /\ scans \in [Scans -> {NoScan} \cup ScanRows]
  /\ audit \in [Scans -> {NoTask} \cup Simple \cup Saving]
  /\ findings \in [Ids -> {NoFinding} \cup FindingRows]
  /\ exposed \subseteq AuditKeys /\ changes \in 0..MaxChanges
  /\ scanFlag \in [AuditWorkers -> BOOLEAN]

AuditInvariant == AuditTypes /\ FlagsEarned /\ TasksHaveScans /\ IdsInOrder /\ LooksHold

LEMMA AuditTypesGiveTypeOK ==
  ASSUME AuditInvariant
  PROVE  AuditTypeOK
BY DEF AuditInvariant, AuditTypes, AuditTypeOK, FlagsEarned, FindingRows, ScanRows, Simple

(* What tells the rows of the tables from those that are not there.        *)
LEMMA RowsTold ==
  /\ \A f \in {NoFinding} \cup FindingRows : f.status # "none" => f \in FindingRows
  /\ \A f \in FindingRows : f.status # "none" /\ f.status \in Statuses \cup {"deleted"} /\ f.key \in AuditKeys
  /\ \A r \in {NoScan} \cup ScanRows : r # NoScan => r \in ScanRows
  /\ \A t \in {NoTask} \cup Simple \cup Saving :
       /\ t.at = "saving" => t \in Saving
       /\ t.at # "none" => t # NoTask
       /\ t.at \notin {"none", "saving"} => t \in Simple
<1>1. \A f \in {NoFinding} \cup FindingRows : f.status # "none" => f \in FindingRows
  BY DEF NoFinding
<1>2. \A f \in FindingRows : f.status # "none" /\ f.status \in Statuses \cup {"deleted"} /\ f.key \in AuditKeys
  BY DEF FindingRows, Statuses
<1>3. \A t \in {NoTask} \cup Simple \cup Saving :
       /\ t.at = "saving" => t \in Saving
       /\ t.at # "none" => t # NoTask
       /\ t.at \notin {"none", "saving"} => t \in Simple
  BY DEF NoTask, Simple, Saving
<1> QED BY <1>1, <1>2, <1>3

(* The last row of a key is one of its rows.                               *)
LEMMA LastRowParts ==
  ASSUME AuditTypes, NEW k \in AuditKeys
  PROVE  /\ LastRow(k) = NoId \/ LastRow(k) \in RowsOf(k)
         /\ LastRow(k) \in {NoId} \cup Ids
         /\ LastRow(k) \in RowsOf(k) =>
              LastRow(k) # NoId /\ findings[LastRow(k)].status \in Statuses /\ findings[LastRow(k)].key = k
<1>1. RowsOf(k) \subseteq 1..MaxFindings /\ MaxFindings \in Nat
  BY DEF RowsOf, Ids
<1>2. RowsOf(k) # {} => \E i \in RowsOf(k) : \A j \in RowsOf(k) : j <= i
  BY <1>1, LastOf
<1>3. LastRow(k) = NoId \/ LastRow(k) \in RowsOf(k)
  BY <1>2 DEF LastRow
<1>4. ASSUME LastRow(k) \in RowsOf(k)
      PROVE  LastRow(k) # NoId /\ findings[LastRow(k)].status \in Statuses /\ findings[LastRow(k)].key = k
  <2> DEFINE i == LastRow(k)
  <2>1. i \in Ids /\ findings[i].status \notin {"none", "deleted"} /\ findings[i].key = k
    BY <1>4 DEF RowsOf
  <2>2. findings[i] \in {NoFinding} \cup FindingRows
    BY <2>1 DEF AuditTypes
  <2>3. findings[i].status \in Statuses
    BY <2>1, <2>2, RowsTold
  <2>4. i # 0
    BY <2>1 DEF Ids
  <2> QED BY <2>1, <2>3, <2>4 DEF NoId
<1>5. LastRow(k) \in {NoId} \cup Ids
  BY <1>1, <1>3 DEF Ids
<1> QED BY <1>3, <1>4, <1>5

(* The ids that follow the last one.                                       *)
LEMMA NextIdParts ==
  ASSUME NEW n \in 0..MaxFindings, \A i \in Ids : findings[i].status # "none" <=> i <= n
  PROVE  NextId = n + 1
<1>1. {i \in Ids : findings[i].status # "none"} = 1..n
  BY DEF Ids
<1>2. Cardinality(1..n) = n
  <2>1. 1 \in Int /\ n \in Int
    OBVIOUS
  <2> QED BY <2>1, FS_Interval
<1> QED BY <1>1, <1>2 DEF NextId

LEMMA IdsAfter ==
  ASSUME NEW n \in Nat, NEW c \in Nat
  PROVE  IsFiniteSet((n + 1)..(n + c)) /\ Cardinality((n + 1)..(n + c)) = c
<1> DEFINE a == n + 1
           b == n + c
<1>1. a \in Int /\ b \in Int /\ (a > b => c = 0) /\ b - a + 1 = c
  OBVIOUS
<1> HIDE DEF a, b
<1>2. IsFiniteSet(a..b) /\ Cardinality(a..b) = IF a > b THEN 0 ELSE b - a + 1
  BY <1>1, FS_Interval
<1>3. IsFiniteSet(a..b) /\ Cardinality(a..b) = c
  BY <1>1, <1>2
<1> QED BY <1>3 DEF a, b

LEMMA ReopenedParts ==
  ASSUME NEW x \in Statuses
  PROVE  Reopened(x) \in {"pendiente", "en_revision"}
BY DEF Reopened, Statuses

LEMMA KeysFinite == IsFiniteSet(AuditKeys) /\ MaxScans \in Nat /\ MaxFindings \in Nat /\ MaxChanges \in Nat
BY DEF AuditKeys

(* What _save_findings leaves in the table: a row for every key it had     *)
(* none for, and the rows that were there still of their keys.             *)
LEMMA SavedParts ==
  ASSUME AuditInvariant, NEW s \in Scans, Saves(s)
  PROVE  /\ findings' \in [Ids -> {NoFinding} \cup FindingRows]
         /\ IdsInOrder'
         /\ \A i \in Ids : findings[i].status # "none" =>
              /\ findings'[i].key = findings[i].key /\ findings'[i].status # "none"
              /\ findings[i].status # "deleted" => findings'[i].status # "deleted"
         /\ \A k \in audit[s].seen : k # audit[s].first \/ audit[s].kept =>
              \E i \in Ids : findings'[i].status \in {"pendiente", "en_revision"} /\ findings'[i].key = k
<1> DEFINE t    == audit[s]
           news == NewKeys(t)
           olds == OldRows(t)
           c    == Cardinality(news)
<1>1. t \in Saving /\ Room(c) /\ \E given \in Inserted(t) : findings' = Stored(t, given)
  BY RowsTold DEF Saves, AuditInvariant, AuditTypes
<1>2. /\ t.seen \subseteq AuditKeys /\ t.first \in t.seen /\ t.row \in {NoId} \cup Ids /\ t.was \in Statuses
      /\ t.row # NoId => /\ findings[t.row].status # "none" /\ findings[t.row].key = t.first
                         /\ t.kept => findings[t.row].status # "deleted"
  BY <1>1 DEF Saving, AuditInvariant, LooksHold, Saves
<1>3. news \subseteq t.seen /\ IsFiniteSet(news) /\ c \in Nat
  <2>1. news \subseteq t.seen
    BY DEF NewKeys
  <2>2. IsFiniteSet(news)
    BY <1>2, <2>1, KeysFinite, FS_Subset
  <2> QED BY <2>1, <2>2, FS_CardinalityType
<1>4. PICK n \in 0..MaxFindings : \A i \in Ids : findings[i].status # "none" <=> i <= n
  BY DEF AuditInvariant, IdsInOrder
<1>5. NextId = n + 1 /\ n \in Nat /\ n + c <= MaxFindings
  BY <1>1, <1>3, <1>4, NextIdParts, KeysFinite DEF Room
<1>6. PICK given \in Inserted(t) : findings' = Stored(t, given)
  BY <1>1
<1>7. /\ given \in [news -> (n + 1)..(n + c)]
      /\ \A j, k \in news : j # k => given[j] # given[k]
  <2>1. given \in [news -> NextId..(NextId + c - 1)] /\ \A j, k \in news : j # k => given[j] # given[k]
    BY <1>6 DEF Inserted
  <2>2. NextId + c - 1 = n + c
    BY <1>3, <1>5
  <2> QED BY <1>5, <2>1, <2>2
<1>8. \A k \in news : given[k] \in Ids /\ findings[given[k]].status = "none"
  <2> SUFFICES ASSUME NEW k \in news PROVE given[k] \in Ids /\ findings[given[k]].status = "none"
    OBVIOUS
  <2>1. given[k] \in (n + 1)..(n + c)
    BY <1>7
  <2>2. given[k] \in Ids /\ ~(given[k] <= n)
    BY <1>3, <1>5, <2>1, KeysFinite DEF Ids
  <2> QED BY <1>4, <2>2
<1>9. \A i \in (n + 1)..(n + c) : \E k \in news : given[k] = i
  <2>1. given \in Injection(news, (n + 1)..(n + c))
    BY <1>7 DEF Injection, IsInjective
  <2>2. IsFiniteSet((n + 1)..(n + c)) /\ Cardinality((n + 1)..(n + c)) = c
    BY <1>3, <1>5, IdsAfter
  <2>3. given \in Surjection(news, (n + 1)..(n + c))
    BY <2>1, <2>2, FS_Injection
  <2> QED BY <2>3 DEF Surjection
<1>10. \A k \in news : findings'[given[k]] = [status |-> "pendiente", key |-> k]
  <2> SUFFICES ASSUME NEW k \in news PROVE findings'[given[k]] = [status |-> "pendiente", key |-> k]
    OBVIOUS
  <2>1. (CHOOSE j \in news : given[j] = given[k]) = k
    BY <1>7
  <2> QED BY <1>6, <1>8, <2>1 DEF Stored
<1>10a. \A k \in news : findings'[given[k]].status = "pendiente" /\ findings'[given[k]].key = k
  <2> SUFFICES ASSUME NEW k \in news
               PROVE  findings'[given[k]].status = "pendiente" /\ findings'[given[k]].key = k
    OBVIOUS
  <2>1. findings'[given[k]] = [status |-> "pendiente", key |-> k]
    BY <1>10
  <2> QED BY <2>1
<1>11. \A i \in olds : i \in Ids /\ findings[i] \in FindingRows /\ findings[i].status \in Statuses
  <2> SUFFICES ASSUME NEW k \in t.seen \ ({t.first} \cup news)
               PROVE  LET i == LastRow(k) IN i \in Ids /\ findings[i] \in FindingRows /\ findings[i].status \in Statuses
    BY DEF OldRows
  <2>1. LastRow(k) # NoId
    BY DEF NewKeys
  <2>2. LastRow(k) \in Ids /\ findings[LastRow(k)].status \in Statuses
    BY <1>2, <2>1, LastRowParts DEF AuditInvariant
  <2>3. findings[LastRow(k)].status # "none"
    BY <2>2 DEF Statuses
  <2> QED BY <2>2, <2>3, RowsTold DEF AuditInvariant, AuditTypes
<1>12. ASSUME NEW i \in Ids, \A k \in news : given[k] # i
       PROVE  \/ findings'[i] = findings[i]
              \/ /\ findings[i] \in FindingRows /\ findings[i].status # "deleted"
                 /\ \E x \in Statuses : findings'[i] = [findings[i] EXCEPT !.status = Reopened(x)]
  <2>1. CASE i = t.row /\ i # NoId /\ findings[i].status # "deleted"
    <3>1. findings'[i] = [findings[i] EXCEPT !.status = Reopened(t.was)]
      BY <1>6, <1>12, <2>1 DEF Stored
    <3>2. findings[i] \in FindingRows
      BY <1>2, <2>1, RowsTold DEF AuditInvariant, AuditTypes
    <3> QED BY <1>2, <2>1, <3>1, <3>2
  <2>2. CASE ~(i = t.row /\ i # NoId /\ findings[i].status # "deleted") /\ i \in olds
    <3>1. findings'[i] = [findings[i] EXCEPT !.status = Reopened(findings[i].status)]
      BY <1>6, <1>12, <2>2 DEF Stored
    <3>2. findings[i] \in FindingRows /\ findings[i].status \in Statuses
      BY <1>11, <2>2
    <3> QED BY <3>1, <3>2 DEF Statuses
  <2>3. CASE ~(i = t.row /\ i # NoId /\ findings[i].status # "deleted") /\ i \notin olds
    BY <1>6, <1>12, <2>3 DEF Stored
  <2> QED BY <2>1, <2>2, <2>3
<1>13. ASSUME NEW i \in Ids, findings[i].status # "none"
       PROVE  /\ findings'[i] \in FindingRows
              /\ findings'[i].key = findings[i].key /\ findings'[i].status # "none"
              /\ findings[i].status # "deleted" => findings'[i].status # "deleted"
  <2>1. \A k \in news : given[k] # i
    BY <1>8, <1>13
  <2>2. findings[i] \in FindingRows
    BY <1>13, RowsTold DEF AuditInvariant, AuditTypes
  <2>3. CASE findings'[i] = findings[i]
    BY <1>13, <2>2, <2>3
  <2>4. ASSUME NEW x \in Statuses, findings'[i] = [findings[i] EXCEPT !.status = Reopened(x)]
        PROVE  /\ findings'[i] \in FindingRows
               /\ findings'[i].key = findings[i].key /\ findings'[i].status \in {"pendiente", "en_revision"}
    BY <2>2, <2>4, ReopenedParts DEF FindingRows, Statuses
  <2> QED BY <1>12, <2>1, <2>3, <2>4
<1>14. ASSUME NEW i \in Ids, findings[i].status = "none", \A k \in news : given[k] # i
       PROVE  findings'[i] = findings[i]
  <2>1. findings[i] \notin FindingRows
    BY <1>14, RowsTold
  <2> QED BY <1>12, <1>14, <2>1
<1>15. \A k \in news : [status |-> "pendiente", key |-> k] \in FindingRows
  BY <1>2, <1>3 DEF FindingRows, Statuses
<1>16. findings' \in [Ids -> {NoFinding} \cup FindingRows]
  <2>1. findings' = [i \in Ids |-> findings'[i]]
    BY <1>6 DEF Stored
  <2>2. ASSUME NEW i \in Ids PROVE findings'[i] \in {NoFinding} \cup FindingRows
    <3>1. findings[i] \in {NoFinding} \cup FindingRows
      BY DEF AuditInvariant, AuditTypes
    <3>2. CASE findings[i].status # "none"
      BY <1>13, <3>2
    <3>3. CASE findings[i].status = "none" /\ \A k \in news : given[k] # i
      BY <1>14, <3>1, <3>3
    <3>4. CASE \E k \in news : given[k] = i
      BY <1>10, <1>15, <3>4
    <3> QED BY <3>2, <3>3, <3>4
  <2> QED BY <2>1, <2>2
<1>17. IdsInOrder'
  <2>1. n + c \in 0..MaxFindings
    BY <1>3, <1>5, KeysFinite
  <2>2. ASSUME NEW i \in Ids PROVE findings'[i].status # "none" <=> i <= n + c
    <3>1. i \in Nat /\ i >= 1
      BY KeysFinite DEF Ids
    <3>2. CASE i <= n
      <4>1. findings[i].status # "none"
        BY <1>4, <3>2
      <4> QED BY <1>3, <1>5, <1>13, <3>1, <3>2, <4>1
    <3>3. CASE i > n /\ i <= n + c
      <4>1. i \in (n + 1)..(n + c)
        BY <1>3, <1>5, <3>1, <3>3
      <4>2. PICK k \in news : given[k] = i
        BY <1>9, <4>1
      <4>3. findings'[i].status = "pendiente"
        BY <1>10a, <4>2
      <4> QED BY <3>3, <4>3
    <3>4. CASE i > n + c
      <4>1. \A k \in news : given[k] # i
        <5> SUFFICES ASSUME NEW k \in news PROVE given[k] # i
          OBVIOUS
        <5>1. given[k] \in (n + 1)..(n + c)
          BY <1>7
        <5> QED BY <1>3, <1>5, <3>1, <3>4, <5>1
      <4>2. ~(i <= n) /\ ~(i <= n + c)
        BY <1>3, <1>5, <3>1, <3>4
      <4>3. findings[i].status = "none"
        BY <1>4, <4>2
      <4> QED BY <1>14, <4>1, <4>2, <4>3
    <3> QED BY <1>3, <1>5, <3>1, <3>2, <3>3, <3>4
  <2> QED BY <2>1, <2>2 DEF IdsInOrder
<1>18. ASSUME NEW k \in t.seen, k # t.first \/ t.kept
       PROVE  \E i \in Ids : findings'[i].status \in {"pendiente", "en_revision"} /\ findings'[i].key = k
  <2>1. CASE k \in news
    BY <1>8, <1>10a, <2>1
  <2>2. CASE k = t.first /\ k \notin news
    <3>1. t.row # NoId /\ t.row \in Ids
      BY <1>2, <2>2 DEF NewKeys
    <3>2. t.kept
      BY <1>18, <2>2
    <3>3. /\ findings[t.row].status # "none" /\ findings[t.row].status # "deleted"
          /\ findings[t.row].key = k
      BY <1>2, <2>2, <3>1, <3>2
    <3>4. \A j \in news : given[j] # t.row
      BY <1>8, <3>3
    <3>5. findings'[t.row] = [findings[t.row] EXCEPT !.status = Reopened(t.was)]
      BY <1>6, <3>1, <3>3, <3>4 DEF Stored
    <3>6. findings[t.row] \in FindingRows
      BY <3>1, <3>3, RowsTold DEF AuditInvariant, AuditTypes
    <3>7. findings'[t.row].status \in {"pendiente", "en_revision"} /\ findings'[t.row].key = k
      BY <1>2, <3>3, <3>5, <3>6, ReopenedParts DEF FindingRows
    <3> QED BY <3>1, <3>7
  <2>3. CASE k # t.first /\ k \notin news
    <3> DEFINE i == LastRow(k)
    <3>1. i # NoId
      BY <2>3 DEF NewKeys
    <3>2. i \in olds
      BY <2>3 DEF OldRows
    <3>3. k \in AuditKeys
      BY <1>2
    <3>4. i \in Ids /\ findings[i].key = k /\ findings[i].status \in Statuses
      BY <3>1, <3>3, LastRowParts DEF AuditInvariant
    <3>5. i # t.row
      BY <1>2, <2>3, <3>1, <3>4
    <3>6. findings[i] \in FindingRows
      BY <1>11, <3>2
    <3>7. \A j \in news : given[j] # i
      BY <1>8, <3>4 DEF Statuses
    <3> HIDE DEF i
    <3>8. findings'[i] = [findings[i] EXCEPT !.status = Reopened(findings[i].status)]
      BY <1>6, <3>2, <3>4, <3>5, <3>7 DEF Stored
    <3>9. findings'[i].status \in {"pendiente", "en_revision"} /\ findings'[i].key = k
      BY <3>4, <3>6, <3>8, ReopenedParts DEF FindingRows
    <3> QED BY <3>4, <3>9
  <2> QED BY <2>1, <2>2, <2>3
<1> QED BY <1>13, <1>16, <1>17, <1>18
-----------------------------------------------------------------------------
LEMMA AuditStarts == AuditInit => AuditInvariant
<1> SUFFICES ASSUME AuditInit PROVE AuditTypes /\ FlagsEarned /\ TasksHaveScans /\ IdsInOrder /\ LooksHold
  BY DEF AuditInvariant
<1> USE DEF AuditInit
<1>1. AuditTypes
  <2>1. changes \in 0..MaxChanges
    BY KeysFinite
  <2> QED BY <2>1 DEF AuditTypes
<1>2. FlagsEarned
  BY DEF FlagsEarned
<1>3. TasksHaveScans /\ LooksHold
  BY DEF TasksHaveScans, LooksHold, NoTask
<1>4. IdsInOrder
  <2>1. 0 \in 0..MaxFindings /\ \A i \in Ids : findings[i].status = "none" /\ ~(i <= 0)
    BY KeysFinite DEF Ids, NoFinding
  <2> QED BY <2>1 DEF IdsInOrder
<1> QED BY <1>1, <1>2, <1>3, <1>4

(* A task that ends takes its flag down, which no other worker needs.      *)
LEMMA EndsKeep ==
  ASSUME AuditInvariant, NEW s \in Scans, NEW word \in {"completed", "failed"}, AuditEnds(s, word),
         audit[s].at # "none"
  PROVE  /\ scans' \in [Scans -> {NoScan} \cup ScanRows]
         /\ audit' \in [Scans -> {NoTask} \cup Simple \cup Saving]
         /\ scanFlag' \in [AuditWorkers -> BOOLEAN]
         /\ FlagsEarned' /\ TasksHaveScans'
         /\ \A r \in Scans : audit'[r].at = "saving" => audit'[r] = audit[r]
<1>1. /\ scans \in [Scans -> {NoScan} \cup ScanRows] /\ audit \in [Scans -> {NoTask} \cup Simple \cup Saving]
      /\ scanFlag \in [AuditWorkers -> BOOLEAN]
  BY DEF AuditInvariant, AuditTypes
<1>2. scans[s] \in ScanRows
  <2>1. audit[s] # NoTask
    BY DEF NoTask
  <2> QED BY <1>1, <2>1, RowsTold DEF AuditInvariant, TasksHaveScans
<1>3. /\ scans' = [scans EXCEPT ![s].status = word] /\ audit' = [audit EXCEPT ![s] = NoTask]
      /\ scanFlag' = [scanFlag EXCEPT ![WorkerOf(s)] = FALSE]
  BY DEF AuditEnds, FlagDown
<1>4. [scans[s] EXCEPT !.status = word] \in ScanRows /\ [scans[s] EXCEPT !.status = word].worker = scans[s].worker
  BY <1>2 DEF ScanRows
<1>5. scans' \in [Scans -> {NoScan} \cup ScanRows] /\ \A r \in Scans : scans'[r].worker = scans[r].worker
  BY <1>1, <1>3, <1>4
<1>6. audit' \in [Scans -> {NoTask} \cup Simple \cup Saving] /\ scanFlag' \in [AuditWorkers -> BOOLEAN]
  BY <1>1, <1>3
<1>7. FlagsEarned'
  <2> SUFFICES ASSUME NEW w \in AuditWorkers, scanFlag'[w]
               PROVE  \E r \in Scans : Underway(r)' /\ WorkerOf(r)' = w
    BY DEF FlagsEarned
  <2>1. w # WorkerOf(s) /\ scanFlag[w]
    BY <1>1, <1>3
  <2>2. PICK r \in Scans : Underway(r) /\ WorkerOf(r) = w
    BY <2>1 DEF AuditInvariant, FlagsEarned
  <2>3. r # s
    BY <2>1, <2>2
  <2>4. Underway(r)' /\ WorkerOf(r)' = w
    BY <1>1, <1>3, <1>5, <2>2, <2>3 DEF Underway, WorkerOf
  <2> QED BY <2>4
<1>8. TasksHaveScans'
  <2> SUFFICES ASSUME NEW r \in Scans, scans'[r] = NoScan PROVE audit'[r] = NoTask
    BY DEF TasksHaveScans
  <2>1. CASE r = s
    BY <1>1, <1>3, <2>1
  <2>2. CASE r # s
    BY <1>1, <1>3, <2>2 DEF AuditInvariant, TasksHaveScans
  <2> QED BY <2>1, <2>2
<1>9. \A r \in Scans : audit'[r].at = "saving" => audit'[r] = audit[r]
  BY <1>1, <1>3 DEF NoTask
<1> QED BY <1>5, <1>6, <1>7, <1>8, <1>9

(* A step of one task, from one phase to another, while its scan stays.    *)
LEMMA MovesKeep ==
  ASSUME AuditInvariant, NEW s \in Scans, NEW t \in Simple \cup Saving, audit' = [audit EXCEPT ![s] = t],
         scans' = scans, scanFlag' = scanFlag, audit[s].at # "none", t.at # "created"
  PROVE  /\ audit' \in [Scans -> {NoTask} \cup Simple \cup Saving]
         /\ FlagsEarned' /\ TasksHaveScans'
         /\ \A r \in Scans : audit'[r] = IF r = s THEN t ELSE audit[r]
<1>1. audit \in [Scans -> {NoTask} \cup Simple \cup Saving]
  BY DEF AuditInvariant, AuditTypes
<1>2. \A r \in Scans : audit'[r] = IF r = s THEN t ELSE audit[r]
  BY <1>1
<1>3. t.at \notin {"none", "created"}
  BY DEF Simple, Saving
<1>4. FlagsEarned'
  <2> SUFFICES ASSUME NEW w \in AuditWorkers, scanFlag[w]
               PROVE  \E r \in Scans : Underway(r)' /\ WorkerOf(r)' = w
    BY DEF FlagsEarned
  <2>1. PICK r \in Scans : Underway(r) /\ WorkerOf(r) = w
    BY DEF AuditInvariant, FlagsEarned
  <2>2. Underway(r)' /\ WorkerOf(r)' = w
    BY <1>2, <1>3, <2>1 DEF Underway, WorkerOf
  <2> QED BY <2>2
<1>5. TasksHaveScans'
  <2>1. audit[s] # NoTask
    BY DEF NoTask
  <2> QED BY <1>2, <2>1 DEF AuditInvariant, TasksHaveScans
<1> QED BY <1>1, <1>2, <1>4, <1>5

(* The look at a key finds the row of that key, if there is one.           *)
LEMMA LooksParts ==
  ASSUME AuditInvariant, NEW s \in Scans, NEW pass \in {"ports", "patches"}, NEW seen \in SUBSET AuditKeys,
         Looks(s, pass, seen)
  PROVE  \E t \in Saving :
           /\ audit' = [audit EXCEPT ![s] = t] /\ t.first \in t.seen
           /\ t.row # NoId => /\ findings[t.row].status \in Statuses /\ findings[t.row].key = t.first
<1>1. PICK k \in seen :
        audit' = [audit EXCEPT ![s] =
          [at |-> "saving", pass |-> pass, seen |-> seen, first |-> k, row |-> LastRow(k),
           was |-> IF LastRow(k) = NoId THEN "pendiente" ELSE findings[LastRow(k)].status, kept |-> TRUE]]
  BY DEF Looks
<1> DEFINE row == LastRow(k)
           was == IF row = NoId THEN "pendiente" ELSE findings[row].status
           t   == [at |-> "saving", pass |-> pass, seen |-> seen, first |-> k, row |-> row,
                   was |-> was, kept |-> TRUE]
<1>2. row \in {NoId} \cup Ids /\ (row # NoId => findings[row].status \in Statuses /\ findings[row].key = k)
  BY LastRowParts DEF AuditInvariant
<1>3. was \in Statuses
  BY <1>2 DEF Statuses
<1>4. audit' = [audit EXCEPT ![s] = t]
  BY <1>1
<1> HIDE DEF row, was
<1>5. t \in Saving /\ t.first \in t.seen /\ t.row = row /\ t.first = k
  BY <1>2, <1>3 DEF Saving
<1> QED BY <1>2, <1>4, <1>5

LEMMA ChangeCounted ==
  ASSUME AuditTypes, Change
  PROVE  changes' \in 0..MaxChanges
BY KeysFinite DEF AuditTypes, Change

(* The rows stay: so do their order and what was looked up in them, for    *)
(* every task that had looked already.                                     *)
LEMMA LooksStay ==
  ASSUME AuditInvariant, findings' = findings,
         \A s \in Scans : audit'[s].at = "saving" => audit'[s] = audit[s]
  PROVE  IdsInOrder' /\ LooksHold'
BY DEF AuditInvariant, IdsInOrder, LooksHold

LEMMA ScanKeeps ==
  ASSUME AuditInvariant, NEW w \in AuditWorkers, StartScan(w) \/ WorkerRestarts(w)
  PROVE  AuditInvariant'
<1>1. /\ scans \in [Scans -> {NoScan} \cup ScanRows] /\ audit \in [Scans -> {NoTask} \cup Simple \cup Saving]
      /\ scanFlag \in [AuditWorkers -> BOOLEAN]
  BY DEF AuditInvariant, AuditTypes
<1>2. CASE StartScan(w)
  <2>1. PICK s \in Scans :
           /\ scans[s] = NoScan
           /\ scans' = [scans EXCEPT ![s] = [status |-> "running", worker |-> w]]
           /\ audit' = [audit EXCEPT ![s] = [at |-> "created"]]
    BY <1>2 DEF StartScan
  <2>2. UNCHANGED <<scanFlag, findings, exposed, changes>>
    BY <1>2 DEF StartScan
  <2>3. [status |-> "running", worker |-> w] \in ScanRows /\ [at |-> "created"] \in Simple
          /\ [status |-> "running", worker |-> w] # NoScan
    <3>1. [status |-> "running", worker |-> w].status # NoScan.status
      BY DEF NoScan
    <3> QED BY <3>1 DEF ScanRows, Simple
  <2>4. AuditTypes'
    BY <1>1, <2>1, <2>2, <2>3 DEF AuditInvariant, AuditTypes
  <2>5. \A r \in Scans : /\ r # s => audit'[r] = audit[r] /\ scans'[r] = scans[r]
                         /\ r = s => audit'[r].at = "created" /\ scans'[r] # NoScan
    BY <1>1, <2>1, <2>3
  <2>6. ~Underway(s)
    BY <2>1 DEF AuditInvariant, TasksHaveScans, Underway, NoTask
  <2>7. FlagsEarned'
    <3> SUFFICES ASSUME NEW v \in AuditWorkers, scanFlag[v]
                 PROVE  \E r \in Scans : Underway(r)' /\ WorkerOf(r)' = v
      BY <2>2 DEF FlagsEarned
    <3>1. PICK r \in Scans : Underway(r) /\ WorkerOf(r) = v
      BY DEF AuditInvariant, FlagsEarned
    <3>2. Underway(r)' /\ WorkerOf(r)' = v
      BY <2>5, <2>6, <3>1 DEF Underway, WorkerOf
    <3> QED BY <3>2
  <2>8. TasksHaveScans'
    BY <2>5 DEF AuditInvariant, TasksHaveScans
  <2>9. IdsInOrder' /\ LooksHold'
    BY <2>2, <2>5, LooksStay
  <2> QED BY <2>4, <2>7, <2>8, <2>9 DEF AuditInvariant
<1>3. CASE WorkerRestarts(w)
  <2>1. /\ scanFlag' = [scanFlag EXCEPT ![w] = FALSE]
        /\ audit' = [s \in Scans |-> IF scans[s] # NoScan /\ WorkerOf(s) = w THEN NoTask ELSE audit[s]]
        /\ UNCHANGED <<scans, findings, exposed>> /\ Change
    BY <1>3 DEF WorkerRestarts
  <2>2. changes' \in 0..MaxChanges
    BY <2>1, ChangeCounted DEF AuditInvariant
  <2>3. AuditTypes'
    BY <1>1, <2>1, <2>2 DEF AuditInvariant, AuditTypes
  <2>4. FlagsEarned'
    <3> SUFFICES ASSUME NEW v \in AuditWorkers, scanFlag'[v]
                 PROVE  \E r \in Scans : Underway(r)' /\ WorkerOf(r)' = v
      BY DEF FlagsEarned
    <3>1. v # w /\ scanFlag[v]
      BY <1>1, <2>1
    <3>2. PICK r \in Scans : Underway(r) /\ WorkerOf(r) = v
      BY <3>1 DEF AuditInvariant, FlagsEarned
    <3>3. Underway(r)' /\ WorkerOf(r)' = v
      BY <2>1, <3>1, <3>2 DEF Underway, WorkerOf
    <3> QED BY <3>3
  <2>5. TasksHaveScans'
    BY <2>1 DEF AuditInvariant, TasksHaveScans
  <2>6. \A s \in Scans : audit'[s].at = "saving" => audit'[s] = audit[s]
    BY <2>1 DEF NoTask
  <2> QED BY <2>1, <2>3, <2>4, <2>5, <2>6, LooksStay DEF AuditInvariant
<1> QED BY <1>2, <1>3

LEMMA TaskKeeps ==
  ASSUME AuditInvariant, NEW s \in Scans, Task(s) \/ NothingToScan(s) \/ ScanFails(s)
  PROVE  AuditInvariant'
<1>1. /\ scans \in [Scans -> {NoScan} \cup ScanRows] /\ audit \in [Scans -> {NoTask} \cup Simple \cup Saving]
      /\ scanFlag \in [AuditWorkers -> BOOLEAN] /\ exposed \subseteq AuditKeys
  BY DEF AuditInvariant, AuditTypes
<1>2. \A a \in {"created", "nmap", "patches"} : [at |-> a] \in Simple
  BY DEF Simple
<1>3. ASSUME NEW word \in {"completed", "failed"}, AuditEnds(s, word), audit[s].at # "none",
             changes' \in 0..MaxChanges, UNCHANGED <<findings, exposed>>
      PROVE  AuditInvariant'
  <2>1. /\ scans' \in [Scans -> {NoScan} \cup ScanRows]
        /\ audit' \in [Scans -> {NoTask} \cup Simple \cup Saving]
        /\ scanFlag' \in [AuditWorkers -> BOOLEAN]
        /\ FlagsEarned' /\ TasksHaveScans'
        /\ \A r \in Scans : audit'[r].at = "saving" => audit'[r] = audit[r]
    BY <1>3, EndsKeep
  <2> QED BY <1>3, <2>1, LooksStay DEF AuditInvariant, AuditTypes
<1>4. CASE TaskBegins(s)
  <2>1. /\ audit[s].at = "created" /\ scanFlag' = [scanFlag EXCEPT ![WorkerOf(s)] = TRUE]
        /\ audit' = [audit EXCEPT ![s] = [at |-> "nmap"]] /\ UNCHANGED <<scans, findings, exposed, changes>>
    BY <1>4 DEF TaskBegins
  <2>2. AuditTypes'
    BY <1>1, <1>2, <2>1 DEF AuditInvariant, AuditTypes
  <2>3. audit'[s].at = "nmap" /\ \A r \in Scans \ {s} : audit'[r] = audit[r]
    BY <1>1, <2>1
  <2>4. FlagsEarned'
    <3> SUFFICES ASSUME NEW v \in AuditWorkers, scanFlag'[v]
                 PROVE  \E r \in Scans : Underway(r)' /\ WorkerOf(r)' = v
      BY DEF FlagsEarned
    <3>1. CASE v = WorkerOf(s)
      BY <2>1, <2>3, <3>1 DEF Underway, WorkerOf
    <3>2. CASE v # WorkerOf(s)
      <4>1. scanFlag[v]
        BY <1>1, <2>1, <3>2
      <4>2. PICK r \in Scans : Underway(r) /\ WorkerOf(r) = v
        BY <4>1 DEF AuditInvariant, FlagsEarned
      <4>3. Underway(r)' /\ WorkerOf(r)' = v
        BY <2>1, <2>3, <4>2 DEF Underway, WorkerOf
      <4> QED BY <4>3
    <3> QED BY <3>1, <3>2
  <2>5. TasksHaveScans'
    <3>1. audit[s] # NoTask
      BY <2>1 DEF NoTask
    <3> QED BY <2>1, <2>3, <3>1 DEF AuditInvariant, TasksHaveScans
  <2>6. \A r \in Scans : audit'[r].at = "saving" => audit'[r] = audit[r]
    BY <2>3
  <2> QED BY <2>1, <2>2, <2>4, <2>5, <2>6, LooksStay DEF AuditInvariant
<1>5. ASSUME NEW pass \in {"ports", "patches"}, NEW seen \in SUBSET AuditKeys, Looks(s, pass, seen),
             audit[s].at # "none", UNCHANGED <<scans, scanFlag, findings, exposed, changes>>
      PROVE  AuditInvariant'
  <2>1. PICK t \in Saving :
           /\ audit' = [audit EXCEPT ![s] = t] /\ t.first \in t.seen
           /\ t.row # NoId => findings[t.row].status \in Statuses /\ findings[t.row].key = t.first
    BY <1>5, LooksParts
  <2>2. t.at # "created"
    BY DEF Saving
  <2>3. /\ audit' \in [Scans -> {NoTask} \cup Simple \cup Saving]
        /\ FlagsEarned' /\ TasksHaveScans'
        /\ \A r \in Scans : audit'[r] = IF r = s THEN t ELSE audit[r]
    BY <1>5, <2>1, <2>2, MovesKeep
  <2>4. AuditTypes'
    BY <1>5, <2>3 DEF AuditInvariant, AuditTypes
  <2>5. LooksHold'
    BY <1>5, <2>1, <2>3 DEF AuditInvariant, LooksHold, Statuses
  <2>6. IdsInOrder'
    BY <1>5 DEF AuditInvariant, IdsInOrder
  <2> QED BY <2>3, <2>4, <2>5, <2>6 DEF AuditInvariant
<1>6. ASSUME audit' = [audit EXCEPT ![s] = [at |-> "patches"]], audit[s].at # "none",
             UNCHANGED <<scans, scanFlag>>
      PROVE  /\ audit' \in [Scans -> {NoTask} \cup Simple \cup Saving]
             /\ FlagsEarned' /\ TasksHaveScans'
             /\ \A r \in Scans : audit'[r] = IF r = s THEN [at |-> "patches"] ELSE audit[r]
  BY <1>2, <1>6, MovesKeep
<1>7. CASE NmapEnds(s)
  <2>1. audit[s].at = "nmap" /\ UNCHANGED <<scanFlag, scans, findings, exposed, changes>>
    BY <1>7 DEF NmapEnds
  <2>2. CASE exposed \cap PortKeys # {}
    <3>1. Looks(s, "ports", exposed \cap PortKeys)
      BY <1>7, <2>2 DEF NmapEnds
    <3> QED BY <1>1, <1>5, <2>1, <3>1
  <2>3. CASE exposed \cap PortKeys = {}
    <3>1. audit' = [audit EXCEPT ![s] = [at |-> "patches"]]
      BY <1>7, <2>3 DEF NmapEnds
    <3>2. \A r \in Scans : audit'[r].at = "saving" => audit'[r] = audit[r]
      BY <1>6, <2>1, <3>1
    <3> QED BY <1>6, <2>1, <3>1, <3>2, LooksStay DEF AuditInvariant, AuditTypes
  <2> QED BY <2>2, <2>3
<1>8. CASE PatchesAsked(s)
  <2>1. audit[s].at = "patches" /\ UNCHANGED <<findings, exposed, changes>>
    BY <1>8 DEF PatchesAsked
  <2>2. CASE AuditEnds(s, "completed")
    <3>1. changes' \in 0..MaxChanges
      BY <2>1 DEF AuditInvariant, AuditTypes
    <3> QED BY <1>3, <2>1, <2>2, <3>1
  <2>3. ASSUME NEW seen \in SUBSET AuditKeys, Looks(s, "patches", seen), UNCHANGED <<scans, scanFlag>>
        PROVE  AuditInvariant'
    BY <1>5, <2>1, <2>3
  <2>4. PatchAnswers \subseteq SUBSET AuditKeys
    BY <1>1 DEF PatchAnswers
  <2> QED BY <1>8, <2>2, <2>3, <2>4 DEF PatchesAsked
<1>9. CASE Saves(s)
  <2>1. /\ findings' \in [Ids -> {NoFinding} \cup FindingRows]
        /\ IdsInOrder'
        /\ \A i \in Ids : findings[i].status # "none" =>
             /\ findings'[i].key = findings[i].key /\ findings'[i].status # "none"
             /\ findings[i].status # "deleted" => findings'[i].status # "deleted"
    BY <1>9, SavedParts
  <2>2. audit[s].at = "saving" /\ UNCHANGED <<exposed, changes>>
    BY <1>9 DEF Saves
  <2>3. /\ scans' \in [Scans -> {NoScan} \cup ScanRows]
        /\ audit' \in [Scans -> {NoTask} \cup Simple \cup Saving]
        /\ scanFlag' \in [AuditWorkers -> BOOLEAN]
        /\ FlagsEarned' /\ TasksHaveScans'
        /\ \A r \in Scans : audit'[r].at = "saving" => audit'[r] = audit[r]
    <3>1. CASE AuditEnds(s, "completed")
      BY <2>2, <3>1, EndsKeep
    <3>2. CASE audit' = [audit EXCEPT ![s] = [at |-> "patches"]] /\ UNCHANGED <<scans, scanFlag>>
      BY <1>1, <1>6, <2>2, <3>2
    <3> QED BY <1>9, <3>1, <3>2 DEF Saves
  <2>4. AuditTypes'
    BY <2>1, <2>2, <2>3 DEF AuditInvariant, AuditTypes
  <2>5. LooksHold'
    <3> SUFFICES ASSUME NEW r \in Scans, audit'[r].at = "saving"
                 PROVE  /\ audit[r].first \in audit[r].seen
                        /\ audit[r].row # NoId =>
                             /\ findings'[audit[r].row].status # "none"
                             /\ findings'[audit[r].row].key = audit[r].first
                             /\ audit[r].kept => findings'[audit[r].row].status # "deleted"
      BY <2>3 DEF LooksHold
    <3>1. audit[r].at = "saving"
      BY <2>3
    <3>2. audit[r] \in Saving
      BY <1>1, <3>1, RowsTold
    <3>3. audit[r].row \in {NoId} \cup Ids
      BY <3>2 DEF Saving
    <3> QED BY <2>1, <3>1, <3>3 DEF AuditInvariant, LooksHold
  <2> QED BY <2>1, <2>3, <2>4, <2>5 DEF AuditInvariant
<1>10. CASE NothingToScan(s) \/ ScanFails(s)
  <2>1. /\ audit[s].at # "none" /\ Change /\ UNCHANGED <<findings, exposed>>
        /\ AuditEnds(s, "completed") \/ AuditEnds(s, "failed")
    BY <1>10 DEF NothingToScan, ScanFails
  <2>2. changes' \in 0..MaxChanges
    BY <2>1, ChangeCounted DEF AuditInvariant
  <2> QED BY <1>3, <2>1, <2>2
<1> QED BY <1>4, <1>7, <1>8, <1>9, <1>10 DEF Task

(* What an operator's call does to a row, and to the tasks that wait.      *)
Marks(i, x) ==
  /\ findings[i].status \notin {"none", "deleted"}
  /\ findings' = [findings EXCEPT ![i].status = x]
  /\ exposed' = exposed
  /\ \A s \in Scans : /\ audit'[s].at = audit[s].at
                      /\ audit[s].at = "saving" =>
                           /\ audit'[s] = audit[s] \/ audit'[s] = [audit[s] EXCEPT !.kept = FALSE]
                           /\ x = "deleted" /\ audit[s].row = i => ~audit'[s].kept
                      /\ audit[s].at # "saving" => audit'[s] = audit[s]
  /\ audit' = [s \in Scans |-> audit'[s]]

LEMMA OperatorKeeps ==
  ASSUME AuditInvariant, UpdateFinding \/ DeleteFinding \/ ExposureChanges
  PROVE  AuditInvariant'
<1>1. /\ findings \in [Ids -> {NoFinding} \cup FindingRows] /\ audit \in [Scans -> {NoTask} \cup Simple \cup Saving]
  BY DEF AuditInvariant, AuditTypes
<1>2. Change /\ UNCHANGED <<scanFlag, scans>>
  BY DEF UpdateFinding, DeleteFinding, ExposureChanges
<1>3. changes' \in 0..MaxChanges
  BY <1>2, ChangeCounted DEF AuditInvariant
<1>4. ASSUME NEW i \in Ids, NEW x \in Statuses \cup {"deleted"}, Marks(i, x)
      PROVE  AuditInvariant'
  <2>a. /\ findings[i].status \notin {"none", "deleted"} /\ exposed' = exposed
        /\ findings' = [findings EXCEPT ![i].status = x]
    BY <1>4 DEF Marks
  <2>b. \A s \in Scans : /\ audit'[s].at = audit[s].at
                         /\ audit[s].at = "saving" =>
                              /\ audit'[s] = audit[s] \/ audit'[s] = [audit[s] EXCEPT !.kept = FALSE]
                              /\ x = "deleted" /\ audit[s].row = i => ~audit'[s].kept
                         /\ audit[s].at # "saving" => audit'[s] = audit[s]
    BY <1>4 DEF Marks
  <2>c. audit' = [s \in Scans |-> audit'[s]]
    BY <1>4 DEF Marks
  <2>1. findings[i] \in FindingRows
    BY <1>1, <2>a, <2>b, RowsTold
  <2>2. /\ [findings[i] EXCEPT !.status = x] \in FindingRows /\ [findings[i] EXCEPT !.status = x].status = x
        /\ [findings[i] EXCEPT !.status = x].key = findings[i].key
    BY <2>1 DEF FindingRows
  <2>3. /\ findings' \in [Ids -> {NoFinding} \cup FindingRows]
        /\ findings'[i].status = x /\ findings'[i].key = findings[i].key
        /\ \A j \in Ids \ {i} : findings'[j] = findings[j]
    BY <1>1, <2>a, <2>b, <2>2
  <2>4. x # "none"
    BY DEF Statuses
  <2>5. IdsInOrder'
    BY <2>a, <2>b, <2>3, <2>4 DEF AuditInvariant, IdsInOrder
  <2>6. ASSUME NEW s \in Scans, audit[s].at = "saving"
        PROVE  /\ audit[s] \in Saving /\ audit'[s] \in Saving
               /\ audit'[s].seen = audit[s].seen /\ audit'[s].first = audit[s].first
               /\ audit'[s].row = audit[s].row /\ (audit'[s].kept => audit[s].kept)
               /\ x = "deleted" /\ audit[s].row = i => ~audit'[s].kept
    <3>1. audit[s] \in Saving
      BY <1>1, <2>6, RowsTold
    <3>2. audit'[s] = audit[s] \/ audit'[s] = [audit[s] EXCEPT !.kept = FALSE]
      BY <2>a, <2>b, <2>6
    <3>3. x = "deleted" /\ audit[s].row = i => ~audit'[s].kept
      BY <2>a, <2>b, <2>6
    <3> QED BY <3>1, <3>2, <3>3 DEF Saving
  <2>7. audit' \in [Scans -> {NoTask} \cup Simple \cup Saving]
    BY <1>1, <2>b, <2>c, <2>6
  <2>8. AuditTypes'
    BY <1>2, <1>3, <2>a, <2>b, <2>3, <2>7 DEF AuditInvariant, AuditTypes
  <2>9. FlagsEarned' /\ TasksHaveScans'
    <3>1. \A s \in Scans : Underway(s)' = Underway(s) /\ WorkerOf(s)' = WorkerOf(s)
      BY <1>2, <2>a, <2>b DEF Underway, WorkerOf
    <3>2. \A s \in Scans : audit[s] = NoTask => audit'[s] = NoTask
      BY <2>a, <2>b DEF NoTask
    <3> QED BY <1>2, <3>1, <3>2 DEF AuditInvariant, FlagsEarned, TasksHaveScans
  <2>10. LooksHold'
    <3> SUFFICES ASSUME NEW s \in Scans, audit[s].at = "saving"
                 PROVE  /\ audit'[s].first \in audit'[s].seen
                        /\ audit'[s].row # NoId =>
                             /\ findings'[audit'[s].row].status # "none"
                             /\ findings'[audit'[s].row].key = audit'[s].first
                             /\ audit'[s].kept => findings'[audit'[s].row].status # "deleted"
      BY <2>a, <2>b DEF LooksHold
    <3>1. audit[s].row \in {NoId} \cup Ids
      BY <2>6 DEF Saving
    <3>2. /\ audit[s].first \in audit[s].seen
          /\ audit[s].row # NoId =>
               /\ findings[audit[s].row].status # "none" /\ findings[audit[s].row].key = audit[s].first
               /\ audit[s].kept => findings[audit[s].row].status # "deleted"
      BY DEF AuditInvariant, LooksHold
    <3> QED BY <2>3, <2>4, <2>6, <3>1, <3>2
  <2> QED BY <2>5, <2>8, <2>9, <2>10 DEF AuditInvariant
<1>5. CASE UpdateFinding
  <2>1. PICK i \in Ids, x \in Statuses :
           findings[i].status \notin {"none", "deleted", x} /\ findings' = [findings EXCEPT ![i].status = x]
    BY <1>5 DEF UpdateFinding
  <2>2. UNCHANGED <<audit, exposed>> /\ x # "deleted"
    BY <1>5 DEF UpdateFinding, Statuses
  <2>3. audit' = [s \in Scans |-> audit'[s]]
    BY <1>1, <2>2
  <2>4. Marks(i, x)
    BY <2>1, <2>2, <2>3 DEF Marks
  <2> QED BY <1>4, <2>4
<1>6. CASE DeleteFinding
  <2>1. PICK i \in Ids : /\ findings[i].status \notin {"none", "deleted"}
                         /\ findings' = [findings EXCEPT ![i].status = "deleted"]
                         /\ audit' = [s \in Scans |-> IF audit[s].at = "saving" /\ audit[s].row = i
                                                        THEN [audit[s] EXCEPT !.kept = FALSE] ELSE audit[s]]
    BY <1>6 DEF DeleteFinding
  <2>2. exposed' = exposed
    BY <1>6 DEF DeleteFinding
  <2>3. ASSUME NEW s \in Scans
        PROVE  /\ audit'[s].at = audit[s].at
               /\ audit[s].at = "saving" =>
                    /\ audit'[s] = audit[s] \/ audit'[s] = [audit[s] EXCEPT !.kept = FALSE]
                    /\ audit[s].row = i => ~audit'[s].kept
               /\ audit[s].at # "saving" => audit'[s] = audit[s]
    <3>1. CASE audit[s].at = "saving" /\ audit[s].row = i
      <4>1. audit[s] \in Saving /\ audit'[s] = [audit[s] EXCEPT !.kept = FALSE]
        BY <1>1, <2>1, <3>1, RowsTold
      <4> QED BY <3>1, <4>1 DEF Saving
    <3>2. CASE ~(audit[s].at = "saving" /\ audit[s].row = i)
      BY <2>1, <3>2
    <3> QED BY <3>1, <3>2
  <2>4. audit' = [s \in Scans |-> audit'[s]]
    BY <2>1
  <2>5. Marks(i, "deleted")
    BY <2>1, <2>2, <2>3, <2>4 DEF Marks
  <2> QED BY <1>4, <2>5
<1>7. CASE ExposureChanges
  <2>1. exposed' \subseteq AuditKeys /\ UNCHANGED <<scanFlag, scans, audit, findings>>
    BY <1>7 DEF ExposureChanges, AuditInvariant, AuditTypes
  <2>2. AuditTypes'
    BY <1>3, <2>1 DEF AuditInvariant, AuditTypes
  <2> QED BY <2>1, <2>2 DEF AuditInvariant, FlagsEarned, TasksHaveScans, IdsInOrder, LooksHold, Underway, WorkerOf
<1> QED BY <1>5, <1>6, <1>7

LEMMA AuditStep ==
  ASSUME AuditInvariant, AuditNext
  PROVE  AuditInvariant'
BY ScanKeeps, TaskKeeps, OperatorKeeps DEF AuditNext

LEMMA AuditRests ==
  ASSUME AuditInvariant, UNCHANGED auditVars
  PROVE  AuditInvariant'
BY DEF AuditInvariant, AuditTypes, FlagsEarned, TasksHaveScans, IdsInOrder, LooksHold, Underway, WorkerOf,
   auditVars

-----------------------------------------------------------------------------
(* The backups and the drills (ProtectorBackups, ProtectorDrill).          *)
USE DeviceAssumption, TimeAssumption, KindAssumption, DrillAssumption

(* The forms of what the parts keep: a snapshot, a run, a drill.           *)
Snapshots == [no : 1 .. MaxMade, dev : Devices, day : 0 .. Days - 1, whole : BOOLEAN]
Runs == [at : {"copy", "copied", "mount", "mounted", "restic", "cloud"}, dev : Devices,
         w : Workers, todo : SUBSET Devices, toCloud : BOOLEAN,
         snap : {NoSnapshot} \cup Snapshots]
Syncs == [at : {"idle", "copy", "prune", "pruneCloud"}, taken : SUBSET Snapshots, prunes : BOOLEAN]
Drills == [at : {"asked", "list"}, w : Workers]
Samples == [at : {"restore", "verify"}, w : Workers, snap : Snapshots]

ClockTypes == /\ day \in 0 .. Days - 1 /\ minute \in 0 .. Minutes - 1 /\ polled \in BOOLEAN
              /\ happened \in 0 .. MaxHappens
SiteTypes == /\ rows \subseteq Devices /\ on \in [Devices -> BOOLEAN]
             /\ at \in [Devices -> 0 .. Minutes - 1] /\ toCloud \subseteq Devices
             /\ cloudPath \in BOOLEAN
StatusTypes == /\ status \in [Devices -> {"none", "ok", "error"}]
               /\ last \in [Devices -> {NoSnapshot} \cup Snapshots]
RunTypes == /\ task \in [Slots -> {Idle} \cup Runs]
            /\ stage \in [Devices -> SUBSET Files] /\ mounts \in [Devices -> Nat]
            /\ overlapped \subseteq Devices
RepoTypes == /\ local \subseteq Snapshots /\ cloud \subseteq Snapshots
             /\ made \in 0 .. MaxMade /\ sync \in Syncs
DrillTypes == /\ flag \in [Workers -> BOOLEAN] /\ restored \subseteq 1 .. MaxMade
              /\ drill \in [DrillSlots -> {NoDrill} \cup Drills \cup Samples]
              /\ lastDrill \in 0 .. Days /\ result \in {"none", "ok", "failed"}

(* A device that no two runs had at once has one run at most, and what the *)
(* run of it has done so far is there.                                     *)
Alone == \A s, z \in Slots :
           s # z /\ task[s].at # "idle" /\ task[z].at # "idle" /\ task[s].dev = task[z].dev =>
             task[s].dev \in overlapped
TheWay(s) == /\ task[s].at \in {"copy", "copied", "restic"} => task[s].dev \in Ssh
             /\ task[s].at \in {"mount", "mounted"} => task[s].dev \notin Ssh
Done(s) == task[s].at # "idle" /\ task[s].dev \notin overlapped =>
             /\ task[s].at = "copied" => 1 \in stage[task[s].dev]
             /\ task[s].at = "restic" => stage[task[s].dev] = Files
             /\ task[s].at = "mounted" => mounts[task[s].dev] > 0
RunsSound == Alone /\ \A s \in Slots : TheWay(s) /\ Done(s)

(* What a synchronisation took is older than what is made from then on,    *)
(* and is in the cloud before it prunes here.                              *)
TakenIsOlder == \A x \in local \cup sync.taken : x.no <= made
CopiedFirst == sync.at = "prune" => sync.taken \cap local \subseteq cloud

(* The loop remembers what it fired today, but for a restart, and fires    *)
(* nothing that it does not run.                                           *)
RanBefore == \A k \in ran : /\ k[2] \in Nat /\ k[3] \in Nat
                            /\ k[3] < day \/ (k[3] = day /\ k[2] <= minute)
Remembered == \A k \in ran : k[2] = minute /\ k[3] = day => k \in fired \/ <<minute, day>> \in restarts
FiredRan == \A k \in fired : k[1] = "b2" \/ k \in ran

DrillOnce == begun \in 0 .. 1 /\ (begun = 1 => lastDrill = DrillDay)

BackupInvariant ==
  /\ ClockTypes /\ SiteTypes /\ StatusTypes /\ RunTypes /\ RepoTypes /\ DrillTypes
  /\ RunsSound /\ OkIsWhole /\ TakenIsOlder /\ CopiedFirst
  /\ RanBefore /\ Remembered /\ FiredRan /\ OnceADay /\ DrillOnce

LEMMA BackupGives == BackupInvariant => TypeOK /\ BackupsSound
<1> SUFFICES ASSUME BackupInvariant PROVE TypeOK /\ BackupsSound
  OBVIOUS
<1>1. \A d \in Devices : last[d].no \in 0 .. MaxMade
  BY DEF BackupInvariant, StatusTypes, NoSnapshot, Snapshots
<1>2. \A s \in Slots : task[s].at \in {"idle", "copy", "copied", "mount", "mounted", "restic", "cloud"}
  BY DEF BackupInvariant, RunTypes, Idle, Runs
<1>3. sync.at \in {"idle", "copy", "prune", "pruneCloud"}
  BY DEF BackupInvariant, RepoTypes, Syncs
<1>4. \A x \in DrillSlots : drill[x].at \in {"idle", "asked", "list", "restore", "verify"}
  BY DEF BackupInvariant, DrillTypes, NoDrill, Drills, Samples
<1>5. BackupTypeOK
  BY <1>1, <1>2, <1>3 DEF BackupInvariant, ClockTypes, SiteTypes, StatusTypes, RunTypes, RepoTypes, BackupTypeOK
<1>6. TypeOK
  BY <1>4, <1>5 DEF BackupInvariant, DrillTypes, TypeOK
<1>7. OneMonthlyDrill
  BY DEF BackupInvariant, DrillOnce, OneMonthlyDrill
<1> QED BY <1>6, <1>7 DEF BackupInvariant, BackupsSound

LEMMA BackupStarts == Init => BackupInvariant
<1> SUFFICES ASSUME Init PROVE BackupInvariant
  OBVIOUS
<1>1. ClockTypes /\ SiteTypes
  <2>1. 0 \in 0 .. Days - 1 /\ 0 \in 0 .. Minutes - 1 /\ 0 \in 0 .. MaxHappens
    OBVIOUS
  <2>2. ClockTypes
    BY <2>1 DEF Init, BackupInit, ClockTypes
  <2>3. on \in [Devices -> BOOLEAN] /\ at \in [Devices -> 0 .. Minutes - 1]
    BY <2>1 DEF Init, BackupInit
  <2> QED BY <2>2, <2>3 DEF Init, BackupInit, SiteTypes
<1>2. StatusTypes /\ RunTypes
  BY DEF Init, BackupInit, StatusTypes, RunTypes
<1>3. SyncIdle \in Syncs
  BY DEF SyncIdle, Syncs
<1>4. RepoTypes
  BY <1>3 DEF Init, BackupInit, RepoTypes
<1>5. DrillTypes
  BY DEF Init, DrillTypes
<1>6. RunsSound
  BY DEF Init, BackupInit, RunsSound, Alone, TheWay, Done, Idle
<1>7. OkIsWhole
  BY DEF Init, BackupInit, OkIsWhole
<1>8. TakenIsOlder /\ CopiedFirst
  BY DEF Init, BackupInit, TakenIsOlder, CopiedFirst, SyncIdle
<1>9. RanBefore /\ Remembered /\ FiredRan /\ OnceADay /\ DrillOnce
  BY DEF Init, BackupInit, RanBefore, Remembered, FiredRan, OnceADay, DrillOnce
<1> QED BY <1>1, <1>2, <1>4, <1>5, <1>6, <1>7, <1>8, <1>9 DEF BackupInvariant

(* What each part rests on.                                                *)
LEMMA PartsRest ==
  /\ ClockTypes /\ UNCHANGED <<clockVars, happened>> => ClockTypes'
  /\ SiteTypes /\ UNCHANGED siteVars => SiteTypes'
  /\ StatusTypes /\ UNCHANGED <<status, last>> => StatusTypes'
  /\ RunTypes /\ UNCHANGED <<task, stage, mounts, overlapped>> => RunTypes'
  /\ RepoTypes /\ UNCHANGED <<repoVars, sync>> => RepoTypes'
  /\ DrillTypes /\ UNCHANGED drillVars => DrillTypes'
  /\ RunsSound /\ UNCHANGED <<task, stage, mounts, overlapped>> => RunsSound'
  /\ OkIsWhole /\ UNCHANGED <<rows, status, last, overlapped>> => OkIsWhole'
  /\ TakenIsOlder /\ UNCHANGED <<repoVars, sync>> => TakenIsOlder'
  /\ CopiedFirst /\ UNCHANGED <<repoVars, sync>> => CopiedFirst'
  /\ OnceADay /\ UNCHANGED loopVars => OnceADay'
  /\ DrillOnce /\ UNCHANGED drillVars => DrillOnce'
  /\ FiredRan /\ UNCHANGED loopVars => FiredRan'
  /\ RanBefore /\ UNCHANGED <<day, minute, loopVars>> => RanBefore'
  /\ Remembered /\ UNCHANGED <<day, minute, loopVars>> => Remembered'
<1>1. /\ ClockTypes /\ UNCHANGED <<clockVars, happened>> => ClockTypes'
      /\ SiteTypes /\ UNCHANGED siteVars => SiteTypes'
      /\ StatusTypes /\ UNCHANGED <<status, last>> => StatusTypes'
  BY DEF ClockTypes, SiteTypes, StatusTypes, clockVars, siteVars
<1>2. /\ RunTypes /\ UNCHANGED <<task, stage, mounts, overlapped>> => RunTypes'
      /\ RepoTypes /\ UNCHANGED <<repoVars, sync>> => RepoTypes'
      /\ DrillTypes /\ UNCHANGED drillVars => DrillTypes'
  BY DEF RunTypes, RepoTypes, DrillTypes, repoVars, drillVars
<1>3. /\ RunsSound /\ UNCHANGED <<task, stage, mounts, overlapped>> => RunsSound'
      /\ OkIsWhole /\ UNCHANGED <<rows, status, last, overlapped>> => OkIsWhole'
  BY DEF RunsSound, Alone, TheWay, Done, OkIsWhole
<1>4. /\ TakenIsOlder /\ UNCHANGED <<repoVars, sync>> => TakenIsOlder'
      /\ CopiedFirst /\ UNCHANGED <<repoVars, sync>> => CopiedFirst'
  BY DEF TakenIsOlder, CopiedFirst, repoVars
<1>5. /\ OnceADay /\ UNCHANGED loopVars => OnceADay'
      /\ DrillOnce /\ UNCHANGED drillVars => DrillOnce'
      /\ FiredRan /\ UNCHANGED loopVars => FiredRan'
      /\ RanBefore /\ UNCHANGED <<day, minute, loopVars>> => RanBefore'
      /\ Remembered /\ UNCHANGED <<day, minute, loopVars>> => Remembered'
  BY DEF OnceADay, DrillOnce, FiredRan, RanBefore, Remembered, loopVars, drillVars
<1> QED BY <1>1, <1>2, <1>3, <1>4, <1>5

LEMMA HappenCounted ==
  ASSUME ClockTypes, UNCHANGED happened \/ \E kind \in Happens : Happen(kind)
  PROVE  happened' \in 0 .. MaxHappens
<1>1. happened \in 0 .. MaxHappens /\ MaxHappens \in Nat
  BY DEF ClockTypes
<1>2. CASE \E kind \in Happens : Happen(kind)
  <2>1. happened < MaxHappens /\ happened' = happened + 1
    BY <1>2 DEF Happen
  <2> QED BY <1>1, <2>1
<1> QED BY <1>1, <1>2

LEMMA MinuteComes ==
  ASSUME minute \in 0 .. Minutes - 1
  PROVE  (minute + 1) % Minutes = IF minute = Minutes - 1 THEN 0 ELSE minute + 1
<1>1. Minutes \in Nat \ {0}
  OBVIOUS
<1>2. CASE minute = Minutes - 1
  <2>1. Minutes % Minutes = 0
    BY <1>1
  <2>2. minute + 1 = Minutes
    BY <1>1, <1>2
  <2> QED BY <1>2, <2>1, <2>2
<1>3. CASE minute # Minutes - 1
  <2>1. minute + 1 \in 0 .. Minutes - 1
    BY <1>1, <1>3
  <2>2. \A n \in 0 .. Minutes - 1 : n % Minutes = n
    BY <1>1
  <2> QED BY <1>3, <2>1, <2>2
<1> QED BY <1>2, <1>3

(* The clock goes on: what the loop fired is of another minute.            *)
LEMMA TickKeeps ==
  ASSUME BackupInvariant, Tick, UNCHANGED drillVars
  PROVE  BackupInvariant'
<1>1. /\ day \in 0 .. Days - 1 /\ minute \in 0 .. Minutes - 1
      /\ {Days, Minutes} \subseteq Nat \ {0}
  BY DEF BackupInvariant, ClockTypes
<1>2. \/ day' = day /\ minute' = minute + 1 /\ minute < Minutes - 1
      \/ day' = day + 1 /\ minute' = 0 /\ day < Days - 1
  BY <1>1, MinuteComes DEF Tick
<1>3. happened' \in 0 .. MaxHappens
  <2>1. UNCHANGED happened \/ Happen("late")
    BY DEF Tick
  <2> QED BY <2>1, HappenCounted DEF BackupInvariant, Happen
<1>4. day' \in 0 .. Days - 1 /\ minute' \in 0 .. Minutes - 1
  BY <1>1, <1>2
<1>5. ClockTypes'
  BY <1>3, <1>4 DEF ClockTypes, Tick
<1>6. UNCHANGED <<siteVars, runVars, repoVars, loopVars, sync>>
  BY DEF Tick
<1>7. UNCHANGED <<ran, fired, again, restarts>>
  BY <1>6 DEF loopVars
<1>8. ASSUME NEW k \in ran
      PROVE  /\ k[2] \in Nat /\ k[3] \in Nat /\ (k[3] < day' \/ (k[3] = day' /\ k[2] <= minute'))
             /\ ~(k[2] = minute' /\ k[3] = day')
  <2>1. k[2] \in Nat /\ k[3] \in Nat /\ (k[3] < day \/ (k[3] = day /\ k[2] <= minute))
    BY <1>8 DEF BackupInvariant, RanBefore
  <2> QED BY <1>1, <1>2, <2>1
<1>9. RanBefore' /\ Remembered'
  BY <1>7, <1>8 DEF RanBefore, Remembered
<1> QED
  BY <1>5, <1>6, <1>9, PartsRest DEF BackupInvariant, runVars, siteVars

LEMMA ClockBackKeeps ==
  ASSUME BackupInvariant, ClockBack, UNCHANGED drillVars
  PROVE  BackupInvariant'
<1>1. /\ UNCHANGED <<day, minute, siteVars, runVars, repoVars, loopVars, sync>>
      /\ polled' = FALSE
  BY DEF ClockBack
<1>2. happened' \in 0 .. MaxHappens
  BY HappenCounted DEF BackupInvariant, Happen, ClockBack
<1>3. ClockTypes'
  BY <1>1, <1>2 DEF ClockTypes, BackupInvariant
<1> QED
  BY <1>1, <1>3, PartsRest DEF BackupInvariant, runVars, siteVars

(* A run moves in slot s; of another run it touches nothing, unless the    *)
(* two are of one device.                                                  *)
LEMMA SlotMoves ==
  ASSUME RunsSound, RunTypes, NEW s \in Slots,
         \A z \in Slots \ {s} : task'[z] = task[z],
         overlapped \subseteq overlapped',
         \A z \in Slots \ {s} : task[z].at # "idle" /\ task[z].dev \notin overlapped' =>
           /\ stage'[task[z].dev] = stage[task[z].dev] /\ mounts'[task[z].dev] = mounts[task[z].dev]
           /\ task'[s].at # "idle" => task'[s].dev # task[z].dev,
         TheWay(s)', Done(s)'
  PROVE  RunsSound'
<1>1. ASSUME NEW z \in Slots PROVE TheWay(z)' /\ Done(z)'
  <2>1. CASE z = s
    BY <2>1
  <2>2. CASE z # s
    <3>1. task'[z] = task[z] /\ TheWay(z) /\ Done(z)
      BY <2>2 DEF RunsSound
    <3>2. task[z].at # "idle" /\ task[z].dev \notin overlapped' =>
             stage'[task[z].dev] = stage[task[z].dev] /\ mounts'[task[z].dev] = mounts[task[z].dev]
      BY <2>2
    <3> QED BY <3>1, <3>2 DEF TheWay, Done
  <2> QED BY <2>1, <2>2
<1>2. ASSUME NEW y \in Slots, NEW z \in Slots, y # z,
             task'[y].at # "idle", task'[z].at # "idle", task'[y].dev = task'[z].dev
      PROVE  task'[y].dev \in overlapped'
  <2>1. CASE y # s /\ z # s
    BY <1>2, <2>1 DEF RunsSound, Alone
  <2>2. CASE y = s
    BY <1>2, <2>2
  <2>3. CASE z = s
    BY <1>2, <2>3
  <2> QED BY <2>1, <2>2, <2>3
<1> QED BY <1>1, <1>2 DEF RunsSound, Alone

(* What a run tells of its device.                                         *)
LEMMA ReportKeeps ==
  ASSUME StatusTypes, OkIsWhole, UNCHANGED rows, overlapped \subseteq overlapped',
         NEW d \in Devices, NEW st \in {"none", "ok", "error"}, NEW snap \in {NoSnapshot} \cup Snapshots,
         Report(d, st, snap), st = "ok" /\ d \notin overlapped' => snap.whole
  PROVE  StatusTypes' /\ OkIsWhole'
<1>1. CASE UNCHANGED <<status, last>>
  BY <1>1 DEF StatusTypes, OkIsWhole
<1>2. CASE status' = [status EXCEPT ![d] = st] /\ last' = [last EXCEPT ![d] = snap]
  BY <1>2 DEF StatusTypes, OkIsWhole
<1> QED BY <1>1, <1>2 DEF Report

LEMMA RunForm ==
  ASSUME NEW d \in Devices, NEW w \in Workers, NEW todo \in SUBSET Devices
  PROVE  /\ Run(d, w, todo) \in Runs
         /\ Run(d, w, todo).dev = d /\ Run(d, w, todo).todo = todo
         /\ Run(d, w, todo).at = IF d \in Ssh THEN "copy" ELSE "mount"
BY DEF Run, Runs

(* Runs begin in slots that change.                                        *)
LEMMA BeginKeeps ==
  ASSUME RunTypes, NEW devs, Begin(devs), devs \subseteq Devices
  PROVE  /\ stage' \in [Devices -> SUBSET Files]
         /\ overlapped \subseteq overlapped' /\ overlapped' \subseteq Devices
         /\ \A x \in Devices \ devs : stage'[x] = stage[x]
         /\ \A x \in devs, y \in Slots : task'[y] # task[y] /\ Others(y, x) => x \in overlapped'
BY DEF RunTypes, Begin

LEMMA UnmountedKeeps ==
  ASSUME mounts \in [Devices -> Nat], NEW d \in Devices
  PROVE  /\ Unmounted(d) \in [Devices -> Nat]
         /\ \A x \in Devices \ {d} : Unmounted(d)[x] = mounts[x]
BY DEF Unmounted

LEMMA OverKeeps ==
  ASSUME RunsSound, RunTypes, NEW s \in Slots, task[s].at # "idle", Over(s),
         mounts' = Unmounted(task[s].dev) \/ mounts' = mounts
  PROVE  RunsSound' /\ RunTypes' /\ overlapped \subseteq overlapped'
<1>1. task[s] \in Runs /\ task[s].dev \in Devices /\ task[s].w \in Workers /\ task[s].todo \in SUBSET Devices
  BY DEF RunTypes, Idle, Runs
<1>2. /\ mounts' \in [Devices -> Nat]
      /\ \A x \in Devices \ {task[s].dev} : mounts'[x] = mounts[x]
  BY <1>1, UnmountedKeeps DEF RunTypes
<1>3. \A z \in Slots \ {s} : task[z].at # "idle" => task[z].dev \in Devices
  BY DEF RunTypes, Idle, Runs
<1>4. ASSUME NEW z \in Slots \ {s}, task[z].at # "idle", task[z].dev \notin overlapped
      PROVE  mounts'[task[z].dev] = mounts[task[z].dev]
  <2>1. task[z].dev # task[s].dev
    BY <1>4 DEF RunsSound, Alone
  <2> QED BY <1>2, <1>3, <1>4, <2>1
<1>5. CASE task[s].todo = {} /\ task' = [task EXCEPT ![s] = Idle] /\ UNCHANGED <<stage, overlapped>>
  <2>1. task' \in [Slots -> {Idle} \cup Runs] /\ task'[s] = Idle /\ \A z \in Slots \ {s} : task'[z] = task[z]
    BY <1>5 DEF RunTypes
  <2>2. TheWay(s)' /\ Done(s)'
    BY <2>1 DEF TheWay, Done, Idle
  <2>3. task'[s].at = "idle"
    BY <2>1 DEF Idle
  <2>4. RunsSound'
    BY <1>4, <1>5, <2>1, <2>2, <2>3, SlotMoves
  <2> QED BY <1>2, <1>5, <2>1, <2>4 DEF RunTypes
<1>6. ASSUME NEW d \in task[s].todo, Begin({d}),
             task' = [task EXCEPT ![s] = Run(d, task[s].w, task[s].todo \ {d})]
      PROVE  RunsSound' /\ RunTypes' /\ overlapped \subseteq overlapped'
  <2>1. d \in Devices
    BY <1>1
  <2>2. /\ task'[s] \in Runs /\ task'[s].dev = d /\ task'[s].todo = task[s].todo \ {d}
        /\ task'[s].at = IF d \in Ssh THEN "copy" ELSE "mount"
    BY <1>1, <1>6, <2>1, RunForm DEF RunTypes
  <2>3. task' \in [Slots -> {Idle} \cup Runs] /\ \A z \in Slots \ {s} : task'[z] = task[z]
    BY <1>6, <2>2 DEF RunTypes
  <2>4. task'[s] # task[s]
    BY <2>2
  <2>5. /\ stage' \in [Devices -> SUBSET Files] /\ overlapped \subseteq overlapped' /\ overlapped' \subseteq Devices
        /\ \A x \in Devices \ {d} : stage'[x] = stage[x]
        /\ Others(s, d) => d \in overlapped'
    BY <1>6, <2>1, <2>4, BeginKeeps
  <2>6. TheWay(s)' /\ Done(s)'
    BY <2>2 DEF TheWay, Done
  <2>7. ASSUME NEW z \in Slots \ {s}, task[z].at # "idle", task[z].dev \notin overlapped'
        PROVE  /\ stage'[task[z].dev] = stage[task[z].dev] /\ mounts'[task[z].dev] = mounts[task[z].dev]
               /\ task'[s].dev # task[z].dev
    <3>1. task[z].dev # d
      BY <2>5, <2>7 DEF Others
    <3> QED BY <1>3, <1>4, <2>2, <2>5, <2>7, <3>1
  <2>8. RunsSound'
    BY <2>3, <2>5, <2>6, <2>7, SlotMoves
  <2> QED BY <1>2, <2>3, <2>5, <2>8 DEF RunTypes
<1> QED BY <1>5, <1>6 DEF Over

(* A run that fails, or ends ok, is over.                                  *)
LEMMA FailedKeeps ==
  ASSUME BackupInvariant, NEW s \in Slots, task[s].at # "idle", Failed(s), UNCHANGED siteVars
  PROVE  StatusTypes' /\ RunTypes' /\ RunsSound' /\ OkIsWhole'
<1>1. RunsSound' /\ RunTypes' /\ overlapped \subseteq overlapped'
  BY OverKeeps DEF BackupInvariant, Failed
<1>2. task[s].dev \in Devices
  BY DEF BackupInvariant, RunTypes, Idle, Runs
<1>3. UNCHANGED rows
  BY DEF siteVars
<1>4. "error" \in {"none", "ok", "error"} /\ NoSnapshot \in {NoSnapshot} \cup Snapshots
  OBVIOUS
<1>5. StatusTypes' /\ OkIsWhole'
  BY <1>1, <1>2, <1>3, <1>4, ReportKeeps DEF BackupInvariant, Failed
<1> QED BY <1>1, <1>5

(* A step of a run, of the snapshots or of a synchronisation.              *)
LEMMA WorkKeeps ==
  ASSUME BackupInvariant, UNCHANGED <<clockVars, siteVars, loopVars, drillVars>>,
         UNCHANGED happened \/ \E kind \in Happens : Happen(kind),
         StatusTypes', RunTypes', RunsSound', OkIsWhole', RepoTypes', TakenIsOlder', CopiedFirst'
  PROVE  BackupInvariant'
<1>1. happened' \in 0 .. MaxHappens
  BY HappenCounted DEF BackupInvariant
<1>2. ClockTypes'
  BY <1>1 DEF BackupInvariant, ClockTypes, clockVars
<1> QED BY <1>2, PartsRest DEF BackupInvariant, clockVars

(* The run of slot s advances on its device.                               *)
LEMMA RunAdvances ==
  ASSUME RunsSound, RunTypes, NEW s \in Slots, task[s].at # "idle",
         task' \in [Slots -> {Idle} \cup Runs], task'[s].dev = task[s].dev,
         \A z \in Slots \ {s} : task'[z] = task[z], UNCHANGED overlapped,
         stage' \in [Devices -> SUBSET Files], mounts' \in [Devices -> Nat],
         \A x \in Devices \ {task[s].dev} : stage'[x] = stage[x] /\ mounts'[x] = mounts[x],
         TheWay(s)', Done(s)'
  PROVE  RunsSound' /\ RunTypes'
<1>1. RunTypes'
  BY DEF RunTypes
<1>2. ASSUME NEW z \in Slots \ {s}, task[z].at # "idle", task[z].dev \notin overlapped'
      PROVE  /\ stage'[task[z].dev] = stage[task[z].dev] /\ mounts'[task[z].dev] = mounts[task[z].dev]
             /\ task'[s].dev # task[z].dev
  <2>1. task[z].dev \in Devices
    BY <1>2 DEF RunTypes, Idle, Runs
  <2>2. task[z].dev # task[s].dev
    BY <1>2 DEF RunsSound, Alone
  <2> QED BY <2>1, <2>2
<1>3. RunsSound'
  BY <1>2, SlotMoves
<1> QED BY <1>1, <1>3

LEMMA CopyKeeps ==
  ASSUME BackupInvariant, NEW s \in Slots, Copy(s), UNCHANGED drillVars
  PROVE  BackupInvariant'
<1>1. /\ task[s] \in Runs /\ task[s].dev \in Devices /\ task[s].at \in {"copy", "copied"}
      /\ task[s].dev \in Ssh /\ task[s].at # "idle" /\ stage[task[s].dev] \subseteq Files
      /\ task \in [Slots -> {Idle} \cup Runs] /\ stage \in [Devices -> SUBSET Files]
      /\ mounts \in [Devices -> Nat] /\ Done(s)
  <2>1. /\ task \in [Slots -> {Idle} \cup Runs] /\ stage \in [Devices -> SUBSET Files]
        /\ mounts \in [Devices -> Nat] /\ TheWay(s) /\ Done(s)
    BY DEF BackupInvariant, RunTypes, RunsSound
  <2>2. task[s].at \in {"copy", "copied"}
    BY DEF Copy
  <2>3. task[s] \in Runs
    BY <2>1, <2>2 DEF Idle
  <2>4. task[s].dev \in Devices
    BY <2>3 DEF Runs
  <2>5. task[s].dev \in Ssh
    <3>1. TheWay(s)
      BY <2>1
    <3> QED BY <2>2, <3>1 DEF TheWay
  <2>6. stage[task[s].dev] \subseteq Files
    BY <2>1, <2>4
  <2> QED BY <2>1, <2>2, <2>3, <2>4, <2>5, <2>6
<1>2. UNCHANGED <<clockVars, siteVars, repoVars, loopVars, sync>>
  BY DEF Copy
<1>3. ASSUME NEW a \in {"copied", "restic"}, NEW f \in Files,
             task' = [task EXCEPT ![s].at = a], stage' = [stage EXCEPT ![task[s].dev] = @ \cup {f}],
             UNCHANGED <<status, last, mounts, overlapped>>,
             a = "copied" => f = 1, a = "restic" => f = 2 /\ task[s].at = "copied"
      PROVE  StatusTypes' /\ RunTypes' /\ RunsSound' /\ OkIsWhole'
  <2>1. /\ [task[s] EXCEPT !.at = a] \in Runs
        /\ [task[s] EXCEPT !.at = a].at = a /\ [task[s] EXCEPT !.at = a].dev = task[s].dev
    BY <1>1 DEF Runs
  <2>2. /\ task' \in [Slots -> {Idle} \cup Runs] /\ task'[s].at = a /\ task'[s].dev = task[s].dev
        /\ \A z \in Slots \ {s} : task'[z] = task[z]
    BY <1>1, <1>3, <2>1
  <2>3. /\ stage' \in [Devices -> SUBSET Files] /\ stage'[task[s].dev] = stage[task[s].dev] \cup {f}
        /\ \A x \in Devices \ {task[s].dev} : stage'[x] = stage[x]
    BY <1>1, <1>3
  <2>4. TheWay(s)'
    BY <1>1, <2>2 DEF TheWay
  <2>5. Done(s)'
    <3>1. CASE a = "copied"
      BY <1>1, <1>3, <2>2, <2>3, <3>1 DEF Done
    <3>2. CASE a = "restic"
      <4>1. task[s].dev \notin overlapped => stage'[task[s].dev] = Files
        BY <1>1, <1>3, <2>3, <3>2 DEF Done, Files
      <4> QED BY <1>3, <2>2, <3>2, <4>1 DEF Done
    <3> QED BY <3>1, <3>2
  <2>6. \A x \in Devices \ {task[s].dev} : stage'[x] = stage[x] /\ mounts'[x] = mounts[x]
    BY <1>3, <2>3
  <2>7. mounts' \in [Devices -> Nat]
    BY <1>1, <1>3
  <2>8. RunsSound' /\ RunTypes'
    BY <1>1, <1>3, <2>2, <2>3, <2>4, <2>5, <2>6, <2>7, RunAdvances DEF BackupInvariant
  <2> QED BY <1>2, <1>3, <2>8, PartsRest DEF BackupInvariant, siteVars
<1>4. StatusTypes' /\ RunTypes' /\ RunsSound' /\ OkIsWhole'
  <2>1. CASE Failed(s)
    BY <1>1, <1>2, <2>1, FailedKeeps
  <2>2. CASE ~Failed(s)
    <3>1. \/ /\ task[s].at = "copy" /\ task' = [task EXCEPT ![s].at = "copied"]
             /\ stage' = [stage EXCEPT ![task[s].dev] = @ \cup {1}]
          \/ /\ task[s].at = "copied" /\ task' = [task EXCEPT ![s].at = "restic"]
             /\ stage' = [stage EXCEPT ![task[s].dev] = @ \cup {2}]
      BY <2>2 DEF Copy
    <3>2. UNCHANGED <<status, last, mounts, overlapped>>
      BY <2>2 DEF Copy
    <3> QED BY <1>3, <3>1, <3>2 DEF Files
  <2> QED BY <2>1, <2>2
<1>5. UNCHANGED happened \/ \E kind \in Happens : Happen(kind)
  BY DEF Copy, Happen
<1>6. RepoTypes' /\ TakenIsOlder' /\ CopiedFirst'
  BY <1>2, PartsRest DEF BackupInvariant
<1> QED BY <1>2, <1>4, <1>5, <1>6, WorkKeeps

LEMMA MountKeeps ==
  ASSUME BackupInvariant, NEW s \in Slots, Mount(s), UNCHANGED drillVars
  PROVE  BackupInvariant'
<1>1. /\ task[s] \in Runs /\ task[s].dev \in Devices /\ task[s].at = "mount"
      /\ task[s].dev \notin Ssh /\ task[s].at # "idle"
      /\ task \in [Slots -> {Idle} \cup Runs] /\ stage \in [Devices -> SUBSET Files]
      /\ mounts \in [Devices -> Nat]
  BY DEF BackupInvariant, RunTypes, Idle, Runs, RunsSound, TheWay, Mount
<1>2. UNCHANGED <<clockVars, siteVars, repoVars, loopVars, sync>>
  BY DEF Mount
<1>3. ASSUME task' = [task EXCEPT ![s].at = "mounted"],
             mounts' = [mounts EXCEPT ![task[s].dev] = @ + 1],
             UNCHANGED <<status, last, stage, overlapped>>
      PROVE  StatusTypes' /\ RunTypes' /\ RunsSound' /\ OkIsWhole'
  <2>1. /\ [task[s] EXCEPT !.at = "mounted"] \in Runs
        /\ [task[s] EXCEPT !.at = "mounted"].at = "mounted"
        /\ [task[s] EXCEPT !.at = "mounted"].dev = task[s].dev
    BY <1>1 DEF Runs
  <2>2. /\ task' \in [Slots -> {Idle} \cup Runs] /\ task'[s].at = "mounted" /\ task'[s].dev = task[s].dev
        /\ \A z \in Slots \ {s} : task'[z] = task[z]
    BY <1>1, <1>3, <2>1
  <2>3. /\ mounts' \in [Devices -> Nat] /\ mounts'[task[s].dev] > 0
        /\ \A x \in Devices \ {task[s].dev} : mounts'[x] = mounts[x]
    BY <1>1, <1>3
  <2>4. TheWay(s)' /\ Done(s)'
    BY <1>1, <2>2, <2>3 DEF TheWay, Done
  <2>5. RunsSound' /\ RunTypes'
    BY <1>1, <1>3, <2>2, <2>3, <2>4, RunAdvances DEF BackupInvariant
  <2> QED BY <1>2, <1>3, <2>5, PartsRest DEF BackupInvariant, siteVars
<1>4. StatusTypes' /\ RunTypes' /\ RunsSound' /\ OkIsWhole'
  <2>1. CASE Failed(s)
    BY <1>1, <1>2, <2>1, FailedKeeps
  <2>2. CASE ~Failed(s)
    BY <1>3, <2>2 DEF Mount
  <2> QED BY <2>1, <2>2
<1>5. UNCHANGED happened \/ \E kind \in Happens : Happen(kind)
  BY DEF Mount, Happen
<1>6. RepoTypes' /\ TakenIsOlder' /\ CopiedFirst'
  BY <1>2, PartsRest DEF BackupInvariant
<1> QED BY <1>2, <1>4, <1>5, <1>6, WorkKeeps

LEMMA ResticKeeps ==
  ASSUME BackupInvariant, NEW s \in Slots, Restic(s), UNCHANGED drillVars
  PROVE  BackupInvariant'
<1> DEFINE d == task[s].dev
<1>1. /\ task \in [Slots -> {Idle} \cup Runs] /\ stage \in [Devices -> SUBSET Files]
      /\ mounts \in [Devices -> Nat] /\ TheWay(s) /\ Done(s)
  BY DEF BackupInvariant, RunTypes, RunsSound
<1>2. task[s].at \in {"restic", "mounted"} /\ task[s].at # "idle"
  BY DEF Restic
<1>3. task[s] \in Runs /\ d \in Devices
  <2>1. task[s] \in Runs
    BY <1>1, <1>2 DEF Idle
  <2> QED BY <2>1 DEF Runs
<1>4. UNCHANGED <<clockVars, siteVars, cloud, root, loopVars, sync>>
  BY DEF Restic
<1>5. UNCHANGED happened \/ \E kind \in Happens : Happen(kind)
  BY DEF Restic, Happen
<1>6. ASSUME made < MaxMade, made' = made + 1, local' = local \cup {Taken(d)}, Report(d, "ok", Taken(d)),
             \/ /\ task' = [task EXCEPT ![s].at = "cloud", ![s].snap = Taken(d)]
                /\ UNCHANGED <<stage, mounts, overlapped>>
             \/ mounts' = Unmounted(d) /\ Over(s)
      PROVE  BackupInvariant'
  <2>1. Taken(d) \in Snapshots /\ Taken(d).no = made + 1 /\ Taken(d).whole = Whole(d)
    <3>1. made + 1 \in 1 .. MaxMade /\ day \in 0 .. Days - 1
      BY <1>6 DEF BackupInvariant, RepoTypes, ClockTypes
    <3>2. Whole(d) \in BOOLEAN
      <4>1. CASE d \in Ssh
        BY <4>1 DEF Whole
      <4>2. CASE d \notin Ssh
        BY <4>2 DEF Whole
      <4> QED BY <4>1, <4>2
    <3> QED BY <1>3, <3>1, <3>2 DEF Taken, Snapshots
  <2>2. RunsSound' /\ RunTypes' /\ overlapped \subseteq overlapped'
    <3>1. CASE mounts' = Unmounted(d) /\ Over(s)
      BY <1>2, <3>1, OverKeeps DEF BackupInvariant
    <3>2. CASE /\ task' = [task EXCEPT ![s].at = "cloud", ![s].snap = Taken(d)]
               /\ UNCHANGED <<stage, mounts, overlapped>>
      <4>1. [task[s] EXCEPT !.at = "cloud", !.snap = Taken(d)] \in Runs
        BY <1>3, <2>1 DEF Runs
      <4>2. task' = [task EXCEPT ![s] = [task[s] EXCEPT !.at = "cloud", !.snap = Taken(d)]]
        BY <3>2
      <4>3. [task[s] EXCEPT !.at = "cloud", !.snap = Taken(d)].at = "cloud"
            /\ [task[s] EXCEPT !.at = "cloud", !.snap = Taken(d)].dev = d
        BY <1>3 DEF Runs
      <4>4. /\ task' \in [Slots -> {Idle} \cup Runs] /\ task'[s].at = "cloud" /\ task'[s].dev = d
            /\ \A z \in Slots \ {s} : task'[z] = task[z]
        BY <1>1, <4>1, <4>2, <4>3
      <4>5. TheWay(s)' /\ Done(s)'
        BY <4>4 DEF TheWay, Done
      <4>6. RunsSound' /\ RunTypes'
        BY <1>1, <1>2, <3>2, <4>4, <4>5, RunAdvances DEF BackupInvariant
      <4> QED BY <3>2, <4>6
    <3> QED BY <1>6, <3>1, <3>2
  <2>3. d \notin overlapped' => Taken(d).whole
    <3>1. CASE task[s].at = "restic"
      <4>1. d \in Ssh /\ (d \notin overlapped => stage[d] = Files)
        <5>1. TheWay(s) /\ Done(s)
          BY <1>1
        <5>2. d \in Ssh
          BY <3>1, <5>1 DEF TheWay
        <5>3. ASSUME d \notin overlapped PROVE stage[d] = Files
          BY <1>2, <3>1, <5>1, <5>3 DEF Done
        <5> QED BY <5>2, <5>3
      <4>2. d \notin overlapped => Whole(d)
        BY <4>1 DEF Whole
      <4> QED BY <2>1, <2>2, <4>2
    <3>2. CASE task[s].at = "mounted"
      <4>1. d \notin Ssh /\ (d \notin overlapped => mounts[d] > 0)
        BY <1>1, <3>2 DEF TheWay, Done
      <4>2. d \notin overlapped => Whole(d)
        BY <4>1 DEF Whole
      <4> QED BY <2>1, <2>2, <4>2
    <3> QED BY <1>2, <3>1, <3>2
  <2>4. StatusTypes' /\ OkIsWhole'
    <3>1. UNCHANGED rows /\ "ok" \in {"none", "ok", "error"} /\ Taken(d) \in {NoSnapshot} \cup Snapshots
      BY <1>4, <2>1 DEF siteVars
    <3> HIDE DEF d
    <3> QED BY <1>3, <1>6, <2>2, <2>3, <3>1, ReportKeeps DEF BackupInvariant
  <2>5. RepoTypes'
    BY <1>4, <1>6, <2>1 DEF BackupInvariant, RepoTypes
  <2>6. /\ \A x \in local \cup sync.taken : x \in Snapshots /\ x.no <= made /\ x.no \in Nat
        /\ made \in Nat
    BY DEF BackupInvariant, TakenIsOlder, RepoTypes, Syncs, Snapshots
  <2>7. TakenIsOlder'
    <3> SUFFICES ASSUME NEW x \in local' \cup sync'.taken PROVE x.no <= made'
      BY DEF TakenIsOlder
    <3>1. x \in local \cup sync.taken \/ x = Taken(d)
      BY <1>4, <1>6
    <3>2. CASE x \in local \cup sync.taken
      BY <1>6, <2>6, <3>2
    <3>3. CASE x = Taken(d)
      BY <1>6, <2>1, <2>6, <3>3
    <3> QED BY <3>1, <3>2, <3>3
  <2>8. Taken(d) \notin sync.taken
    <3> SUFFICES ASSUME Taken(d) \in sync.taken PROVE FALSE
      OBVIOUS
    <3> QED BY <2>1, <2>6
  <2>9. CopiedFirst'
    BY <1>4, <1>6, <2>8 DEF BackupInvariant, CopiedFirst
  <2> QED BY <1>4, <1>5, <2>2, <2>4, <2>5, <2>7, <2>9, WorkKeeps
<1>7. ASSUME Failed(s), UNCHANGED <<made, local>>
      PROVE  BackupInvariant'
  <2>1. StatusTypes' /\ RunTypes' /\ RunsSound' /\ OkIsWhole'
    BY <1>2, <1>4, <1>7, FailedKeeps
  <2>2. RepoTypes' /\ TakenIsOlder' /\ CopiedFirst'
    BY <1>4, <1>7, PartsRest DEF BackupInvariant, repoVars
  <2> QED BY <1>4, <1>5, <2>1, <2>2, WorkKeeps
<1> QED BY <1>6, <1>7 DEF Restic

LEMMA CopyOneKeeps ==
  ASSUME BackupInvariant, NEW s \in Slots, CopyOne(s), UNCHANGED drillVars
  PROVE  BackupInvariant'
<1>1. /\ task[s].at # "idle" /\ mounts' = Unmounted(task[s].dev) /\ Over(s)
      /\ UNCHANGED <<clockVars, siteVars, status, last, local, made, loopVars, sync>>
  BY DEF CopyOne
<1>2. RunsSound' /\ RunTypes' /\ overlapped \subseteq overlapped'
  BY <1>1, OverKeeps DEF BackupInvariant
<1>3. OkIsWhole' /\ StatusTypes'
  BY <1>1, <1>2 DEF BackupInvariant, OkIsWhole, StatusTypes, siteVars
<1>4. cloud \subseteq cloud' /\ cloud' \subseteq cloud \cup local
  BY DEF CopyOne
<1>5. RepoTypes' /\ TakenIsOlder' /\ CopiedFirst'
  BY <1>1, <1>4 DEF BackupInvariant, RepoTypes, TakenIsOlder, CopiedFirst
<1>6. UNCHANGED happened \/ \E kind \in Happens : Happen(kind)
  BY DEF CopyOne, Happen
<1> QED BY <1>1, <1>2, <1>3, <1>5, <1>6, WorkKeeps

(* Retention and the synchronisations leave the runs alone.                *)
LEMMA SnapshotsKeep ==
  ASSUME BackupInvariant, AskSync \/ SyncCopies \/ SyncPrunes \/ PanelPrunes, UNCHANGED drillVars
  PROVE  BackupInvariant'
<1>1. /\ UNCHANGED <<clockVars, siteVars, runVars, root, made, loopVars>>
      /\ UNCHANGED happened \/ \E kind \in Happens : Happen(kind)
  BY DEF AskSync, SyncCopies, SyncPrunes, PanelPrunes, Happen, repoVars
<1>2. StatusTypes' /\ RunTypes' /\ RunsSound' /\ OkIsWhole'
  BY <1>1, PartsRest DEF BackupInvariant, runVars, siteVars
<1>3. /\ local \subseteq Snapshots /\ cloud \subseteq Snapshots /\ made \in 0 .. MaxMade
      /\ sync \in Syncs /\ sync.taken \subseteq Snapshots
  BY DEF BackupInvariant, RepoTypes, Syncs
<1>4. \A x \in local \cup sync.taken : x.no <= made
  BY DEF BackupInvariant, TakenIsOlder
<1>5. ASSUME NEW b \in BOOLEAN
      PROVE  /\ [at |-> "copy", taken |-> local, prunes |-> b] \in Syncs
             /\ [at |-> "copy", taken |-> local, prunes |-> b].taken = local
             /\ [at |-> "copy", taken |-> local, prunes |-> b].at = "copy"
  BY <1>3 DEF Syncs
<1>6. SyncIdle \in Syncs /\ SyncIdle.taken = {} /\ SyncIdle.at = "idle"
  BY DEF SyncIdle, Syncs
<1>7. \A snaps, days : Kept(snaps, days) \subseteq snaps
  BY DEF Kept
<1>8. ASSUME local' \subseteq local, cloud' \subseteq Snapshots, sync' \in Syncs,
             sync'.taken \subseteq local \cup sync.taken,
             sync'.at = "prune" => sync'.taken \cap local' \subseteq cloud'
      PROVE  BackupInvariant'
  <2>1. RepoTypes'
    BY <1>1, <1>3, <1>8 DEF RepoTypes
  <2>2. TakenIsOlder'
    BY <1>1, <1>4, <1>8 DEF TakenIsOlder
  <2>3. CopiedFirst'
    BY <1>8 DEF CopiedFirst
  <2> QED BY <1>1, <1>2, <2>1, <2>2, <2>3, WorkKeeps
<1>9. CASE AskSync
  BY <1>3, <1>5, <1>8, <1>9 DEF AskSync, repoVars
<1>10. CASE SyncCopies
  <2>1. local' = local
    BY <1>10 DEF SyncCopies
  <2>2. CASE sync' = SyncIdle
    <3>1. cloud' \subseteq Snapshots
      BY <1>3, <1>10 DEF SyncCopies, Copied
    <3> QED BY <1>6, <1>8, <2>1, <2>2, <3>1
  <2>3. CASE sync' # SyncIdle
    <3>1. Copied /\ sync' = [sync EXCEPT !.at = "prune"]
      BY <1>10, <2>3 DEF SyncCopies
    <3>2. cloud' = cloud \cup (sync.taken \cap local)
      BY <3>1 DEF Copied
    <3>3. sync' \in Syncs /\ sync'.taken = sync.taken
      BY <1>3, <3>1 DEF Syncs
    <3> QED BY <1>3, <1>8, <2>1, <3>2, <3>3
  <2> QED BY <2>2, <2>3
<1>11. CASE SyncPrunes
  <2>1. CASE sync' = SyncIdle
    <3>1. local' \subseteq local /\ cloud' \subseteq cloud
      BY <1>7, <1>11 DEF SyncPrunes
    <3> QED BY <1>3, <1>6, <1>8, <2>1, <3>1
  <2>2. CASE sync' = [sync EXCEPT !.at = "pruneCloud"] /\ UNCHANGED cloud
    <3>1. local' \subseteq local
      BY <1>7, <1>11 DEF SyncPrunes
    <3>2. sync' \in Syncs /\ sync'.taken = sync.taken /\ sync'.at = "pruneCloud"
      BY <1>3, <2>2 DEF Syncs
    <3> QED BY <1>3, <1>8, <2>2, <3>1, <3>2
  <2> QED BY <1>11, <2>1, <2>2 DEF SyncPrunes
<1>12. CASE PanelPrunes
  <2>1. local' \subseteq local /\ UNCHANGED <<cloud, sync>>
    BY <1>7, <1>12 DEF PanelPrunes
  <2>2. sync.at = "prune" => sync.taken \cap local' \subseteq cloud
    BY <2>1 DEF BackupInvariant, CopiedFirst
  <2> QED BY <1>3, <1>8, <2>1, <2>2
<1> QED BY <1>9, <1>10, <1>11, <1>12

LEMMA EditKeeps ==
  ASSUME BackupInvariant, Edit \/ Delete, UNCHANGED drillVars
  PROVE  BackupInvariant'
<1>1. /\ UNCHANGED <<clockVars, cloudPath, task, stage, mounts, overlapped, repoVars, loopVars, sync>>
      /\ \E kind \in Happens : Happen(kind)
  BY DEF Edit, Delete, runVars, Happen
<1>2. happened' \in 0 .. MaxHappens
  BY <1>1, HappenCounted DEF BackupInvariant
<1>3. ClockTypes'
  BY <1>1, <1>2 DEF BackupInvariant, ClockTypes, clockVars
<1>4. CASE Delete
  <2>1. rows' \subseteq rows /\ UNCHANGED <<on, at, toCloud, status, last>>
    BY <1>4 DEF Delete, runVars
  <2>2. SiteTypes' /\ StatusTypes' /\ OkIsWhole'
    BY <1>1, <2>1 DEF BackupInvariant, SiteTypes, StatusTypes, OkIsWhole
  <2> QED BY <1>1, <1>3, <2>2, PartsRest DEF BackupInvariant, clockVars
<1>5. CASE Edit
  <2>1. PICK d \in Devices :
          /\ rows' = rows \cup {d}
          /\ \/ on' = [on EXCEPT ![d] = ~@] /\ UNCHANGED <<at, toCloud>>
             \/ \E m \in 0 .. Minutes - 1 : at' = [at EXCEPT ![d] = m] /\ UNCHANGED <<on, toCloud>>
             \/ toCloud' = (toCloud \ {d}) \cup ({d} \ toCloud) /\ UNCHANGED <<on, at>>
          /\ IF d \in rows THEN UNCHANGED <<status, last>>
             ELSE status' = [status EXCEPT ![d] = "none"] /\ last' = [last EXCEPT ![d] = NoSnapshot]
    BY <1>5 DEF Edit
  <2>2. rows \subseteq Devices /\ on \in [Devices -> BOOLEAN] /\ at \in [Devices -> 0 .. Minutes - 1]
        /\ toCloud \subseteq Devices /\ cloudPath \in BOOLEAN
    BY DEF BackupInvariant, SiteTypes
  <2>3. on' \in [Devices -> BOOLEAN]
    BY <2>1, <2>2
  <2>4. at' \in [Devices -> 0 .. Minutes - 1]
    BY <2>1, <2>2
  <2>5. SiteTypes'
    BY <1>1, <2>1, <2>2, <2>3, <2>4 DEF SiteTypes
  <2>6. StatusTypes'
    BY <2>1 DEF BackupInvariant, StatusTypes
  <2>7. OkIsWhole'
    <3>1. CASE d \in rows
      BY <1>1, <2>1, <3>1 DEF BackupInvariant, OkIsWhole
    <3>2. CASE d \notin rows
      <4>1. status'[d] = "none" /\ \A x \in Devices \ {d} : status'[x] = status[x] /\ last'[x] = last[x]
        BY <2>1, <3>2 DEF BackupInvariant, StatusTypes
      <4> QED BY <1>1, <2>1, <2>2, <4>1 DEF BackupInvariant, OkIsWhole
    <3> QED BY <3>1, <3>2
  <2> QED BY <1>1, <1>3, <2>5, <2>6, <2>7, PartsRest DEF BackupInvariant, clockVars
<1> QED BY <1>4, <1>5

LEMMA RestartKeeps ==
  ASSUME BackupInvariant, ServiceRestarts
  PROVE  BackupInvariant'
<1>1. /\ UNCHANGED <<day, minute, siteVars, status, last, stage, mounts, overlapped, repoVars, ran, again>>
      /\ UNCHANGED <<restored, lastDrill, result, begun>>
      /\ task' = [s \in Slots |-> Idle] /\ fired' = {} /\ sync' = SyncIdle /\ polled' = FALSE
      /\ drill' = [x \in DrillSlots |-> NoDrill] /\ flag' = [w \in Workers |-> FALSE]
      /\ restarts' = restarts \cup {<<minute, day>>} /\ Happen("restart")
  BY DEF ServiceRestarts, Restart
<1>2. happened' \in 0 .. MaxHappens
  BY <1>1, HappenCounted DEF BackupInvariant, Happen
<1>3. ClockTypes'
  BY <1>1, <1>2 DEF BackupInvariant, ClockTypes
<1>4. SiteTypes' /\ StatusTypes' /\ OkIsWhole'
  BY <1>1, PartsRest DEF BackupInvariant, siteVars
<1>5. RunTypes' /\ RunsSound'
  BY <1>1 DEF BackupInvariant, RunTypes, RunsSound, Alone, TheWay, Done, Idle
<1>6. SyncIdle \in Syncs /\ SyncIdle.taken = {} /\ SyncIdle.at = "idle"
  BY DEF SyncIdle, Syncs
<1>7. RepoTypes' /\ TakenIsOlder' /\ CopiedFirst'
  BY <1>1, <1>6 DEF BackupInvariant, RepoTypes, TakenIsOlder, CopiedFirst, repoVars
<1>8. DrillTypes' /\ DrillOnce'
  BY <1>1 DEF BackupInvariant, DrillTypes, DrillOnce
<1>9. RanBefore' /\ Remembered' /\ FiredRan' /\ OnceADay'
  BY <1>1 DEF BackupInvariant, RanBefore, Remembered, FiredRan, OnceADay
<1> QED BY <1>3, <1>4, <1>5, <1>7, <1>8, <1>9 DEF BackupInvariant

(* The loop comes round: the runs it creates, and what it remembers.       *)
LEMMA PollRuns ==
  ASSUME BackupInvariant, Poll
  PROVE  RunTypes' /\ RunsSound' /\ overlapped \subseteq overlapped'
<1> DEFINE free == {s \in Slots : task[s].at = "idle"}
<1>1. PICK slot \in Injection(Due, free) :
        task' = [s \in Slots |-> IF s \in Range(slot)
                                   THEN Run(CHOOSE d \in Due : slot[d] = s, Leader, {}) ELSE task[s]]
  BY DEF Poll
<1>2. slot \in [Due -> free] /\ \A d, e \in Due : slot[d] = slot[e] => d = e
  BY <1>1 DEF Injection, IsInjective
<1>3. Due \subseteq Devices
  BY DEF Due, Scheduled, BackupInvariant, SiteTypes
<1>4. Begin(Due) /\ UNCHANGED mounts
  BY DEF Poll
<1>5. /\ task \in [Slots -> {Idle} \cup Runs] /\ stage \in [Devices -> SUBSET Files]
      /\ mounts \in [Devices -> Nat] /\ overlapped \subseteq Devices /\ RunTypes
  BY DEF BackupInvariant, RunTypes
<1>6. ASSUME NEW s \in Slots, s \in Range(slot)
      PROVE  \E d \in Due : slot[d] = s /\ task'[s] = Run(d, Leader, {})
  <2>1. PICK d \in Due : slot[d] = s
    BY <1>2, <1>6 DEF Range
  <2>2. \E e \in Due : slot[e] = s
    BY <2>1
  <2> DEFINE e == CHOOSE x \in Due : slot[x] = s
  <2>3. e \in Due /\ slot[e] = s
    BY <2>2
  <2>4. task'[s] = Run(e, Leader, {})
    BY <1>1, <1>6
  <2> QED BY <2>3, <2>4
<1>7. \A s \in Slots : s \notin Range(slot) => task'[s] = task[s]
  BY <1>1
<1>8. ASSUME NEW s \in Slots
      PROVE  task'[s] = task[s] \/ \E d \in Due :
               /\ slot[d] = s /\ task[s].at = "idle" /\ task'[s] \in Runs /\ task'[s].dev = d
               /\ task'[s].at = IF d \in Ssh THEN "copy" ELSE "mount"
  <2>1. CASE s \notin Range(slot)
    BY <1>7, <2>1
  <2>2. CASE s \in Range(slot)
    <3>1. PICK d \in Due : slot[d] = s /\ task'[s] = Run(d, Leader, {})
      BY <1>6, <2>2
    <3>2. d \in Devices /\ Leader \in Workers /\ {} \in SUBSET Devices
      BY <1>3
    <3> QED BY <1>2, <3>1, <3>2, RunForm
  <2> QED BY <2>1, <2>2
<1>9. ASSUME NEW d \in Due
      PROVE  slot[d] \in Slots /\ task[slot[d]].at = "idle" /\ task'[slot[d]] # task[slot[d]]
  <2>1. slot[d] \in Slots /\ task[slot[d]].at = "idle" /\ slot[d] \in Range(slot)
    BY <1>2 DEF Range
  <2>2. PICK e \in Due : task'[slot[d]] = Run(e, Leader, {})
    BY <1>6, <2>1
  <2>3. task'[slot[d]].at # "idle"
    BY <2>2 DEF Run
  <2> QED BY <2>1, <2>3
<1>10. /\ stage' \in [Devices -> SUBSET Files]
       /\ overlapped \subseteq overlapped' /\ overlapped' \subseteq Devices
       /\ \A x \in Devices \ Due : stage'[x] = stage[x]
       /\ \A x \in Due, y \in Slots : task'[y] # task[y] /\ Others(y, x) => x \in overlapped'
  BY <1>3, <1>4, <1>5, BeginKeeps
<1>11. RunTypes'
  <2>1. \A s \in Slots : task'[s] \in {Idle} \cup Runs
    BY <1>5, <1>8
  <2>2. task' \in [Slots -> {Idle} \cup Runs]
    BY <1>1, <2>1
  <2> QED BY <1>4, <1>5, <1>10, <2>2 DEF RunTypes
<1>12. ASSUME NEW d \in Due, NEW z \in Slots, task[z].at # "idle", task[z].dev = d
       PROVE  d \in overlapped'
  <2>1. z # slot[d]
    BY <1>9, <1>12
  <2>2. Others(slot[d], d)
    BY <1>12, <2>1 DEF Others
  <2> QED BY <1>9, <1>10, <2>2
<1>13. ASSUME NEW s \in Slots PROVE TheWay(s)' /\ Done(s)'
  <2>1. CASE task'[s] = task[s]
    <3>1. TheWay(s) /\ Done(s)
      BY DEF BackupInvariant, RunsSound
    <3>2. TheWay(s)'
      BY <2>1, <3>1 DEF TheWay
    <3>3. ASSUME task[s].at # "idle", task[s].dev \notin overlapped'
          PROVE  stage'[task[s].dev] = stage[task[s].dev]
      <4>1. task[s].dev \in Devices
        BY <1>5, <3>3 DEF Idle, Runs
      <4>2. task[s].dev \notin Due
        BY <1>12, <3>3
      <4> QED BY <1>10, <4>1, <4>2
    <3>4. Done(s)'
      BY <1>4, <1>10, <2>1, <3>1, <3>3 DEF Done
    <3> QED BY <3>2, <3>4
  <2>2. CASE task'[s] # task[s]
    <3>1. PICK d \in Due : task'[s].dev = d /\ task'[s].at = IF d \in Ssh THEN "copy" ELSE "mount"
      BY <1>8, <2>2
    <3> QED BY <3>1 DEF TheWay, Done
  <2> QED BY <2>1, <2>2
<1>14. ASSUME NEW y \in Slots, NEW z \in Slots, y # z,
              task'[y].at # "idle", task'[z].at # "idle", task'[y].dev = task'[z].dev
       PROVE  task'[y].dev \in overlapped'
  <2>1. CASE task'[y] = task[y] /\ task'[z] = task[z]
    BY <1>10, <1>14, <2>1 DEF BackupInvariant, RunsSound, Alone
  <2>2. CASE task'[y] # task[y] /\ task'[z] = task[z]
    <3>1. PICK d \in Due : task'[y].dev = d
      BY <1>8, <2>2
    <3> QED BY <1>12, <1>14, <2>2, <3>1
  <2>3. CASE task'[y] = task[y] /\ task'[z] # task[z]
    <3>1. PICK d \in Due : task'[z].dev = d
      BY <1>8, <2>3
    <3> QED BY <1>12, <1>14, <2>3, <3>1
  <2>4. CASE task'[y] # task[y] /\ task'[z] # task[z]
    <3>1. PICK d \in Due : slot[d] = y /\ task'[y].dev = d
      BY <1>8, <2>4
    <3>2. PICK e \in Due : slot[e] = z /\ task'[z].dev = e
      BY <1>8, <2>4
    <3> QED BY <1>14, <3>1, <3>2
  <2> QED BY <2>1, <2>2, <2>3, <2>4
<1>15. RunsSound'
  BY <1>13, <1>14 DEF RunsSound, Alone
<1> QED BY <1>10, <1>11, <1>15

LEMMA PollRemembers ==
  ASSUME BackupInvariant, Poll
  PROVE  RanBefore' /\ Remembered' /\ FiredRan' /\ OnceADay'
<1> DEFINE new == Due \X {minute} \X {day}
<1>1. /\ ran' = ran \cup new /\ again' = again \cup (new \cap ran)
      /\ fired' = {k \in fired \cup {Key(d) : d \in Due}
                           \cup (IF SyncDue THEN {<<"b2", minute, day>>} ELSE {}) : k[3] = day}
      /\ UNCHANGED <<day, minute, restarts>>
  BY DEF Poll
<1>2. day \in Nat /\ minute \in Nat
  BY DEF BackupInvariant, ClockTypes
<1>3. ASSUME NEW k \in new
      PROVE  /\ k[2] = minute /\ k[3] = day
             /\ \E d \in Due : k = Key(d) /\ k = <<d, minute, day>>
  BY <1>3 DEF Key
<1>4. \A d \in Due : Key(d) \notin fired /\ Key(d) \in new /\ Key(d)[3] = day
  BY DEF Due, Key
<1>5. \A d \in Due : Key(d) \in fired'
  BY <1>1, <1>4
<1> HIDE DEF new
<1>6. RanBefore'
  BY <1>1, <1>2, <1>3 DEF BackupInvariant, RanBefore
<1>7. Remembered'
  <2> SUFFICES ASSUME NEW k \in ran', k[2] = minute, k[3] = day
               PROVE  k \in fired' \/ <<minute, day>> \in restarts
    BY <1>1 DEF Remembered
  <2>1. CASE k \in ran
    <3>1. k \in fired \/ <<minute, day>> \in restarts
      BY <2>1 DEF BackupInvariant, Remembered
    <3> QED BY <1>1, <3>1
  <2>2. CASE k \in new
    BY <1>3, <1>5, <2>2
  <2> QED BY <1>1, <2>1, <2>2
<1>8. FiredRan'
  <2> SUFFICES ASSUME NEW k \in fired' PROVE k[1] = "b2" \/ k \in ran'
    BY DEF FiredRan
  <2>1. CASE k \in fired
    BY <1>1, <2>1 DEF BackupInvariant, FiredRan
  <2>2. CASE k \in {Key(d) : d \in Due}
    BY <1>1, <1>4, <2>2
  <2>3. CASE k = <<"b2", minute, day>>
    BY <2>3
  <2> QED BY <1>1, <2>1, <2>2, <2>3
<1>9. OnceADay'
  <2> SUFFICES ASSUME NEW k \in again' PROVE <<k[2], k[3]>> \in restarts
    BY <1>1 DEF OnceADay
  <2>1. CASE k \in again
    BY <2>1 DEF BackupInvariant, OnceADay
  <2>2. CASE k \in new \cap ran
    <3>1. k[2] = minute /\ k[3] = day /\ k \notin fired
      BY <1>3, <1>4, <2>2
    <3> QED BY <2>2, <3>1 DEF BackupInvariant, Remembered
  <2> QED BY <1>1, <2>1, <2>2
<1> QED BY <1>6, <1>7, <1>8, <1>9

LEMMA PollKeeps ==
  ASSUME BackupInvariant, Poll, UNCHANGED drillVars
  PROVE  BackupInvariant'
<1>1. /\ UNCHANGED <<day, minute, siteVars, status, last, mounts, repoVars, restarts, happened>>
      /\ polled' = TRUE
      /\ sync' = IF SyncDue /\ sync.at = "idle" THEN [at |-> "copy", taken |-> local, prunes |-> TRUE]
                 ELSE sync
  BY DEF Poll
<1>2. ClockTypes'
  BY <1>1 DEF BackupInvariant, ClockTypes
<1>3. SiteTypes' /\ StatusTypes'
  BY <1>1, PartsRest DEF BackupInvariant
<1>4. RunTypes' /\ RunsSound' /\ overlapped \subseteq overlapped'
  BY PollRuns
<1>5. OkIsWhole'
  BY <1>1, <1>4 DEF BackupInvariant, OkIsWhole, siteVars
<1>6. RepoTypes' /\ TakenIsOlder' /\ CopiedFirst'
  <2>1. CASE sync' = sync
    BY <1>1, <2>1, PartsRest DEF BackupInvariant
  <2>2. CASE sync' = [at |-> "copy", taken |-> local, prunes |-> TRUE]
    <3>1. local \subseteq Snapshots
      BY DEF BackupInvariant, RepoTypes
    <3>2. sync' \in Syncs /\ sync'.taken = local /\ sync'.at = "copy"
      BY <2>2, <3>1 DEF Syncs
    <3> QED BY <1>1, <3>2 DEF BackupInvariant, RepoTypes, TakenIsOlder, CopiedFirst, repoVars
  <2> QED BY <1>1, <2>1, <2>2
<1>7. DrillTypes' /\ DrillOnce'
  BY PartsRest DEF BackupInvariant
<1> QED BY <1>2, <1>3, <1>4, <1>5, <1>6, <1>7, PollRemembers DEF BackupInvariant

LEMMA BackupNowKeeps ==
  ASSUME BackupInvariant, BackupNow, UNCHANGED drillVars
  PROVE  BackupInvariant'
<1>1. PICK s \in Slots, w \in Workers, d \in rows :
        /\ task[s].at = "idle"
        /\ \/ Happen("now") /\ task' = [task EXCEPT ![s] = Run(d, w, {})]
           \/ Happen("all") /\ task' = [task EXCEPT ![s] = Run(d, w, rows \ {d})]
        /\ Begin({d})
        /\ UNCHANGED <<clockVars, siteVars, status, last, mounts, repoVars, loopVars, sync>>
  BY DEF BackupNow
<1>2. d \in Devices /\ rows \subseteq Devices /\ RunTypes
  BY DEF BackupInvariant, SiteTypes
<1>3. PICK todo \in SUBSET Devices : task' = [task EXCEPT ![s] = Run(d, w, todo)]
  BY <1>1, <1>2
<1>4. /\ Run(d, w, todo) \in Runs /\ Run(d, w, todo).dev = d
      /\ Run(d, w, todo).at = IF d \in Ssh THEN "copy" ELSE "mount"
  BY <1>2, RunForm
<1>5. /\ task' \in [Slots -> {Idle} \cup Runs] /\ task'[s] = Run(d, w, todo)
      /\ \A z \in Slots \ {s} : task'[z] = task[z]
  BY <1>2, <1>3, <1>4 DEF RunTypes
<1>6. task'[s] # task[s]
  BY <1>1, <1>4, <1>5
<1>7. /\ stage' \in [Devices -> SUBSET Files]
      /\ overlapped \subseteq overlapped' /\ overlapped' \subseteq Devices
      /\ \A x \in Devices \ {d} : stage'[x] = stage[x]
      /\ Others(s, d) => d \in overlapped'
  BY <1>1, <1>2, <1>6, BeginKeeps
<1>8. TheWay(s)' /\ Done(s)'
  BY <1>4, <1>5 DEF TheWay, Done
<1>9. ASSUME NEW z \in Slots \ {s}, task[z].at # "idle", task[z].dev \notin overlapped'
      PROVE  /\ stage'[task[z].dev] = stage[task[z].dev] /\ mounts'[task[z].dev] = mounts[task[z].dev]
             /\ task'[s].dev # task[z].dev
  <2>1. task[z].dev \in Devices
    BY <1>2, <1>9 DEF RunTypes, Idle, Runs
  <2>2. task[z].dev # d
    BY <1>7, <1>9 DEF Others
  <2> QED BY <1>1, <1>4, <1>5, <1>7, <2>1, <2>2
<1>10. RunsSound'
  BY <1>2, <1>5, <1>7, <1>8, <1>9, SlotMoves DEF BackupInvariant
<1>11. RunTypes'
  BY <1>1, <1>2, <1>5, <1>7 DEF RunTypes
<1>12. StatusTypes' /\ OkIsWhole'
  BY <1>1, <1>7 DEF BackupInvariant, StatusTypes, OkIsWhole, siteVars
<1>13. RepoTypes' /\ TakenIsOlder' /\ CopiedFirst'
  BY <1>1, PartsRest DEF BackupInvariant
<1>14. UNCHANGED happened \/ \E kind \in Happens : Happen(kind)
  BY <1>1 DEF Happen
<1> QED BY <1>1, <1>10, <1>11, <1>12, <1>13, <1>14, WorkKeeps

(* The drills read the cloud and write nothing of the backups.             *)
LEMMA DrillKeeps ==
  ASSUME BackupInvariant, NEW x \in DrillSlots,
         \/ \E w \in Workers : AskDrill(x, w)
         \/ DrillBegins(x) \/ DrillLoop(x) \/ DrillLists(x) \/ DrillRestores(x) \/ DrillVerifies(x)
  PROVE  BackupInvariant'
<1>1. /\ UNCHANGED <<clockVars, siteVars, runVars, repoVars, loopVars, sync>>
      /\ UNCHANGED happened \/ \E kind \in Happens : Happen(kind)
  BY DEF AskDrill, DrillBegins, DrillLoop, DrillLists, DrillRestores, DrillVerifies, backupVars, Happen
<1>2. /\ flag \in [Workers -> BOOLEAN] /\ restored \subseteq 1 .. MaxMade
      /\ drill \in [DrillSlots -> {NoDrill} \cup Drills \cup Samples]
      /\ lastDrill \in 0 .. Days /\ result \in {"none", "ok", "failed"}
      /\ cloud \subseteq Snapshots /\ day \in 0 .. Days
  <2>1. /\ flag \in [Workers -> BOOLEAN] /\ restored \subseteq 1 .. MaxMade
        /\ drill \in [DrillSlots -> {NoDrill} \cup Drills \cup Samples]
        /\ lastDrill \in 0 .. Days /\ result \in {"none", "ok", "failed"}
    BY DEF BackupInvariant, DrillTypes
  <2>2. cloud \subseteq Snapshots
    BY DEF BackupInvariant, RepoTypes
  <2>3. day \in 0 .. Days
    BY DEF BackupInvariant, ClockTypes
  <2> QED BY <2>1, <2>2, <2>3
<1>3. ASSUME DrillTypes', DrillOnce'
      PROVE  BackupInvariant'
  <2>1. happened' \in 0 .. MaxHappens
    BY <1>1, HappenCounted DEF BackupInvariant
  <2>2. ClockTypes'
    BY <1>1, <2>1 DEF BackupInvariant, ClockTypes, clockVars
  <2> QED BY <1>1, <1>3, <2>2, PartsRest DEF BackupInvariant, clockVars, runVars, siteVars
<1>4. /\ drill[x].at \in {"asked", "list"} => drill[x] \in Drills /\ drill[x].w \in Workers
      /\ drill[x].at \in {"restore", "verify"} =>
           drill[x] \in Samples /\ drill[x].w \in Workers /\ drill[x].snap \in Snapshots
  BY <1>2 DEF NoDrill, Drills, Samples
<1>5. ASSUME UNCHANGED <<lastDrill, begun>> PROVE DrillOnce'
  BY <1>5 DEF BackupInvariant, DrillOnce
<1>6. ASSUME NEW r \in {"ok", "failed"}, Ends(x, r), drill[x].w \in Workers,
             restored' \subseteq restored, UNCHANGED <<lastDrill, begun>>
      PROVE  BackupInvariant'
  <2>1. DrillTypes'
    BY <1>2, <1>6 DEF Ends, DrillTypes
  <2> QED BY <1>3, <1>5, <1>6, <2>1
<1>7. CASE \E w \in Workers : AskDrill(x, w)
  <2>1. PICK w \in Workers : AskDrill(x, w)
    BY <1>7
  <2>2. [at |-> "asked", w |-> w] \in Drills
    BY DEF Drills
  <2>3. DrillTypes'
    BY <1>2, <2>1, <2>2 DEF AskDrill, DrillTypes
  <2> QED BY <1>3, <1>5, <2>1, <2>3 DEF AskDrill
<1>8. CASE DrillBegins(x)
  <2>1. [drill[x] EXCEPT !.at = "list"] \in Drills
    BY <1>4, <1>8 DEF DrillBegins, Drills
  <2>2. drill' = [drill EXCEPT ![x] = [drill[x] EXCEPT !.at = "list"]]
        /\ flag' = [flag EXCEPT ![drill[x].w] = TRUE] /\ UNCHANGED <<restored, lastDrill, result, begun>>
    BY <1>8 DEF DrillBegins
  <2>3. DrillTypes'
    BY <1>2, <2>1, <2>2 DEF DrillTypes
  <2> QED BY <1>3, <1>5, <2>2, <2>3
<1>9. CASE DrillLoop(x)
  <2>1. [at |-> "list", w |-> DrillLeader] \in Drills
    BY DEF Drills
  <2>2. /\ day = DrillDay /\ lastDrill # day /\ lastDrill' = day /\ begun' = begun + 1
        /\ flag' = [flag EXCEPT ![DrillLeader] = TRUE]
        /\ drill' = [drill EXCEPT ![x] = [at |-> "list", w |-> DrillLeader]]
        /\ UNCHANGED <<restored, result>>
    BY <1>9 DEF DrillLoop, Mark
  <2>3. DrillTypes'
    BY <1>2, <2>1, <2>2 DEF DrillTypes
  <2>4. DrillOnce'
    BY <2>2 DEF BackupInvariant, DrillOnce
  <2> QED BY <1>3, <2>3, <2>4
<1>10. CASE DrillLists(x)
  <2>1. drill[x] \in Drills /\ drill[x].w \in Workers /\ UNCHANGED <<restored, lastDrill, begun>>
    BY <1>4, <1>10 DEF DrillLists
  <2>2. CASE Ends(x, "failed")
    BY <1>6, <2>1, <2>2
  <2>3. ASSUME NEW snap \in cloud, UNCHANGED <<flag, result>>,
               drill' = [drill EXCEPT ![x] = [at |-> "restore", w |-> drill[x].w, snap |-> snap]]
        PROVE  BackupInvariant'
    <3>1. [at |-> "restore", w |-> drill[x].w, snap |-> snap] \in Samples
      BY <1>2, <2>1 DEF Samples
    <3>2. DrillTypes'
      BY <1>2, <2>1, <2>3, <3>1 DEF DrillTypes
    <3> QED BY <1>3, <1>5, <2>1, <3>2
  <2> QED BY <1>10, <2>2, <2>3 DEF DrillLists
<1>11. CASE DrillRestores(x)
  <2>1. drill[x] \in Samples /\ drill[x].w \in Workers /\ drill[x].snap \in Snapshots
        /\ UNCHANGED <<lastDrill, begun>>
    BY <1>4, <1>11 DEF DrillRestores
  <2>2. CASE Ends(x, "failed") /\ Clean(x)
    BY <1>6, <2>1, <2>2 DEF Clean
  <2>3. CASE restored' = restored \cup {drill[x].snap.no} /\ drill' = [drill EXCEPT ![x].at = "verify"]
             /\ UNCHANGED <<flag, result>>
    <3>1. [drill[x] EXCEPT !.at = "verify"] \in Samples /\ drill[x].snap.no \in 1 .. MaxMade
      BY <2>1 DEF Samples, Snapshots
    <3>2. DrillTypes'
      BY <1>2, <2>1, <2>3, <3>1 DEF DrillTypes
    <3> QED BY <1>3, <1>5, <2>1, <3>2
  <2> QED BY <1>11, <2>2, <2>3 DEF DrillRestores
<1>12. CASE DrillVerifies(x)
  <2>1. drill[x].w \in Workers /\ UNCHANGED <<lastDrill, begun>> /\ restored' \subseteq restored
    BY <1>4, <1>12 DEF DrillVerifies, Clean
  <2>2. Ends(x, "ok") \/ Ends(x, "failed")
    BY <1>12 DEF DrillVerifies
  <2> QED BY <1>6, <2>1, <2>2
<1> QED BY <1>7, <1>8, <1>9, <1>10, <1>11, <1>12

LEMMA BackupStep ==
  ASSUME BackupInvariant, Next
  PROVE  BackupInvariant'
<1>1. CASE BackupNext /\ UNCHANGED drillVars
  BY <1>1, TickKeeps, ClockBackKeeps, PollKeeps, BackupNowKeeps, SnapshotsKeep, EditKeeps, CopyKeeps,
     MountKeeps, ResticKeeps, CopyOneKeeps DEF BackupNext
<1> QED BY <1>1, RestartKeeps, DrillKeeps DEF Next

LEMMA BackupRests ==
  ASSUME BackupInvariant, UNCHANGED vars
  PROVE  BackupInvariant'
BY PartsRest DEF BackupInvariant, vars, backupVars, clockVars, runVars, siteVars

(* What the loop's round and the retention of a synchronisation may not do *)
StartsDue == polled' /\ ~polled => \A d \in Scheduled : <<d, minute, day>> \in ran'
PruneSpares == sync.at = "prune" /\ sync'.at = "pruneCloud" =>
                 (local \ local') \cap sync.taken \subseteq cloud

LEMMA RoundStarts ==
  ASSUME BackupInvariant, Next \/ UNCHANGED vars
  PROVE  StartsDue
<1> SUFFICES ASSUME polled' # polled, polled' = TRUE, NEW d \in Scheduled PROVE <<d, minute, day>> \in ran'
  BY DEF StartsDue, BackupInvariant, ClockTypes
<1>1. Poll
  <2>1. polled' # polled
    OBVIOUS
  <2>2. ~ UNCHANGED vars /\ ~ServiceRestarts
    BY DEF vars, backupVars, clockVars, ServiceRestarts, Restart
  <2>3. BackupNext
    BY <2>1, <2>2 DEF Next, AskDrill, DrillBegins, DrillLoop, DrillLists, DrillRestores, DrillVerifies,
       backupVars, clockVars
  <2> QED BY <2>1, <2>3 DEF BackupNext, Tick, ClockBack, BackupNow, AskSync, SyncCopies, SyncPrunes, PanelPrunes,
     Edit, Delete, Copy, Mount, Restic, CopyOne, clockVars
<1>2. CASE Key(d) \notin fired
  BY <1>1, <1>2 DEF Poll, Due, Key
<1>3. CASE Key(d) \in fired
  <2>1. d \in Devices
    BY DEF Scheduled, BackupInvariant, SiteTypes
  <2>2. Key(d) = <<d, minute, day>> /\ Key(d)[1] = d /\ d # "b2"
    BY <2>1 DEF Key
  <2>3. Key(d) \in ran
    BY <1>3, <2>2 DEF BackupInvariant, FiredRan
  <2> QED BY <1>1, <2>2, <2>3 DEF Poll
<1> QED BY <1>2, <1>3

LEMMA PruneKeeps ==
  ASSUME BackupInvariant
  PROVE  PruneSpares
BY DEF PruneSpares, BackupInvariant, CopiedFirst

-----------------------------------------------------------------------------
(* The jobs together.                                                      *)
JobsInvariant ==
  /\ BackupInvariant /\ ProcessInvariant /\ AuditInvariant /\ ProbeInvariant
  /\ RebootInvariant /\ PanelInvariant /\ PolicyInvariant

LEMMA JobsStart == JobsInit => JobsInvariant
BY BackupStarts, ProcessStarts, AuditStarts, ProbeStarts, RebootStarts, PanelStarts, PolicyStarts
   DEF JobsInit, JobsInvariant

(* A step is one of a component, and the others rest.                      *)
LEMMA JobsStep ==
  ASSUME JobsInvariant, JobsNext \/ UNCHANGED jobVars
  PROVE  JobsInvariant'
<1>1. BackupInvariant'
  <2>1. Next \/ UNCHANGED vars
    BY DEF JobsNext, Backup, Process, Audit, Probe, Reboot, Panel, Policy, jobVars
  <2> QED BY <2>1, BackupStep, BackupRests DEF JobsInvariant
<1>2. ProcessInvariant'
  <2>1. ProcessNext \/ UNCHANGED processVars
    BY DEF JobsNext, Backup, Process, Audit, Probe, Reboot, Panel, Policy, jobVars
  <2> QED BY <2>1, ProcessStep, ProcessRests DEF JobsInvariant
<1>3. AuditInvariant'
  <2>1. AuditNext \/ UNCHANGED auditVars
    BY DEF JobsNext, Backup, Process, Audit, Probe, Reboot, Panel, Policy, jobVars
  <2> QED BY <2>1, AuditStep, AuditRests DEF JobsInvariant
<1>4. ProbeInvariant'
  <2>1. ProbeNext \/ UNCHANGED probeVars
    BY DEF JobsNext, Backup, Process, Audit, Probe, Reboot, Panel, Policy, jobVars
  <2> QED BY <2>1, ProbeStep, ProbeRests DEF JobsInvariant
<1>5. RebootInvariant'
  <2>1. RebootNext \/ UNCHANGED rebootVars
    BY DEF JobsNext, Backup, Process, Audit, Probe, Reboot, Panel, Policy, jobVars
  <2> QED BY <2>1, RebootStep, RebootRests DEF JobsInvariant
<1>6. PanelInvariant'
  <2>1. PanelNext \/ UNCHANGED panelVars
    BY DEF JobsNext, Backup, Process, Audit, Probe, Reboot, Panel, Policy, jobVars
  <2> QED BY <2>1, PanelStep, PanelRests DEF JobsInvariant
<1>7. PolicyInvariant'
  <2>1. PolicyNext \/ UNCHANGED policyVars
    BY DEF JobsNext, Backup, Process, Audit, Probe, Reboot, Panel, Policy, jobVars
  <2> QED BY <2>1, PolicyStep, PolicyRests DEF JobsInvariant
<1> QED BY <1>1, <1>2, <1>3, <1>4, <1>5, <1>6, <1>7 DEF JobsInvariant

(* The invariants of the components hold in every behaviour.               *)
THEOREM JobsInvariantCorrect == JobsSpec => []JobsInvariant
<1>1. JobsInvariant /\ [JobsNext]_jobVars => JobsInvariant'
  BY JobsStep
<1> QED BY JobsStart, <1>1, PTL DEF JobsSpec

(* Every variable of the jobs keeps its type.                              *)
THEOREM JobsTypeCorrect == JobsSpec => []JobsTypeOK
<1>1. JobsInvariant => JobsTypeOK
  BY BackupGives, AuditTypesGiveTypeOK DEF JobsInvariant, JobsTypeOK, ProcessInvariant, AuditInvariant,
     ProbeInvariant, RebootInvariant, PanelInvariant, PolicyInvariant
<1> QED BY <1>1, JobsInvariantCorrect, PTL

(* A device reported ok has all its files in its last snapshot unless two  *)
(* runs of it overlapped, the loop starts each backup once a day but for a *)
(* restart in its minute, and the drill of the month begins at most once   *)
(* (_backup_linux, _backup_windows, _scheduler_loop of backups.py;         *)
(* _drill_scheduler_loop of shomer_drill.py).                              *)
THEOREM BackupsSoundCorrect == JobsSpec => []BackupsSound
<1>1. JobsInvariant => BackupsSound
  BY BackupGives DEF JobsInvariant
<1> QED BY <1>1, JobsInvariantCorrect, PTL

(* A node is told to be down, or without an access point, only for what    *)
(* its probe heard; its reboot failed only when every way was tried; a     *)
(* block is ordered only when the policy in force allows it.               *)
THEOREM ActsEarnedCorrect == JobsSpec => []ActsEarned
<1>1. JobsInvariant => ActsEarned
  BY DEF JobsInvariant, ProbeInvariant, RebootInvariant, PolicyInvariant, ActsEarned
<1> QED BY <1>1, JobsInvariantCorrect, PTL

(* Whenever the loop of the backups comes round, each device whose minute  *)
(* it is has its backup started that day (_scheduler_loop).                *)
THEOREM EveryDayCorrect == JobsSpec => EveryDay
<1>1. JobsInvariant /\ [JobsNext]_jobVars => [StartsDue]_backupVars
  <2> SUFFICES ASSUME JobsInvariant, [JobsNext]_jobVars PROVE StartsDue
    OBVIOUS
  <2>1. Next \/ UNCHANGED vars
    BY DEF JobsNext, Backup, Process, Audit, Probe, Reboot, Panel, Policy, jobVars
  <2> QED BY <2>1, RoundStarts DEF JobsInvariant
<1> QED BY <1>1, JobsInvariantCorrect, PTL DEF JobsSpec, EveryDay, StartsDue

(* What the retention of a synchronisation removes here is in the cloud,   *)
(* unless it was made while the synchronisation ran (_b2_sync_blocking,    *)
(* _prune_local).                                                          *)
THEOREM PruneKeepsACopyCorrect == JobsSpec => PruneKeepsACopy
<1>1. JobsInvariant /\ [JobsNext]_jobVars => [PruneSpares]_backupVars
  BY PruneKeeps DEF JobsInvariant
<1> QED BY <1>1, JobsInvariantCorrect, PTL DEF JobsSpec, PruneKeepsACopy, PruneSpares

(* Processing takes no column of a host away, gives no type less evidence  *)
(* and proposes a remedy for a protocol that failed.                       *)
THEOREM EvidenceGrowsCorrect == JobsSpec => EvidenceGrows
<1>1. JobsInvariant /\ [JobsNext]_jobVars => [KeepsEvidence]_processVars
  <2> SUFFICES ASSUME JobsInvariant, [JobsNext]_jobVars, ~ UNCHANGED processVars PROVE KeepsEvidence
    OBVIOUS
  <2>1. ProcessNext
    BY DEF JobsNext, Backup, Process, Audit, Probe, Reboot, Panel, Policy, jobVars
  <2> QED BY <2>1, ProcessStep DEF JobsInvariant
<1> QED BY <1>1, JobsInvariantCorrect, PTL DEF JobsSpec, EvidenceGrows, KeepsEvidence

(* When a scan saves, each finding it saw is open, whatever an operator    *)
(* had done with it, but for one deleted between its look and the write    *)
(* (_save_findings of shomer_audit_network.py).                            *)
SavesPending ==
  \A s \in Scans : Saves(s) =>
    \A k \in audit[s].seen : k # audit[s].first \/ audit[s].kept =>
      \E i \in Ids : findings'[i].status \in {"pendiente", "en_revision"} /\ findings'[i].key = k

THEOREM SeenIsPendingCorrect == JobsSpec => SeenIsPending
<1>1. JobsInvariant /\ [JobsNext]_jobVars => [SavesPending]_auditVars
  BY SavedParts DEF JobsInvariant, SavesPending
<1> QED BY <1>1, JobsInvariantCorrect, PTL DEF JobsSpec, SeenIsPending, SavesPending
=============================================================================
