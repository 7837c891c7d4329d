--------------------------- MODULE HostProcessing ---------------------------
(***************************************************************************)
(* What a deep scan does with one host (_process_one_host, scanner.py, and *)
(* app/scripts/tracker/): it starts from what nmap, the vendor of the MAC  *)
(* and LLDP tell, looks at the ports, asks by SNMP, WMI, SSH and the web   *)
(* page, in this order, and merges each answer into one record; then it    *)
(* names the host, looks up a remedy and fills the outcomes left empty.    *)
(*                                                                         *)
(* A column has here the source of its value, not the value.  "hardware"   *)
(* stands for cpu and ram, "lists" for the programs, screens, printers and *)
(* USB devices; the other columns are merged in the same way.              *)
(*                                                                         *)
(* External: what the host, its neighbours and the operator's credentials  *)
(* answer; remedies.json.                                                  *)
(***************************************************************************)
EXTENDS Naturals, FiniteSets, Sequences

VARIABLES
  phase,    \* what comes next
  ports,    \* ports_list
  base,     \* the record: the source of each column
  osName,   \* os_name, by its source
  outcome,  \* wmi_status, ssh_status, snmp_status
  titled,   \* web_title is not empty
  remedy    \* the protocol it_remedy is about

processVars == <<phase, ports, base, osName, outcome, titled, remedy>>

Columns   == {"type", "os", "hardware", "lists"}
Ports     == {"snmp", "rpc", "ssh", "http", "https"}   \* rpc: 135 or 445
Protocols == {"wmi", "ssh", "snmp"}
Unknown   == ""
Sources   == {Unknown, "nmap", "guess", "lldp", "snmp", "wmi", "ssh", "router", "device", "web"}
Outcomes  == {Unknown, "OK", "ERROR", "TIMEOUT", "AUTH_FAILED", "FAILED", "NOT_ATTEMPTED"}
NoColumns == [c \in Columns |-> Unknown]

(* An answer: its outcome and the columns it fills.                        *)
Filled(source, cols) == [c \in Columns |-> IF c \in cols THEN source ELSE Unknown]
NoAnswer == [outcome |-> Unknown, cols |-> {}]
Error    == [outcome |-> "ERROR", cols |-> {}]
-----------------------------------------------------------------------------
(* Mutant of Merge: what is empty is merged too.                           *)
Merge_Blanks(b, new) == [c \in Columns |-> IF new[c] # Unknown THEN new[c] ELSE Unknown]

(* merge_asset: only a value that is not empty replaces another.           *)
Merge(b, new) == [c \in Columns |-> IF new[c] # Unknown THEN new[c] ELSE b[c]]

(* _filter_software, of any list: nothing may be left of it.               *)
Software == {{}, {"lists"}}

(* phase2_snmp: sysDescr tells the system and, of an embedded one, the     *)
(* type; sysObjectID the type, and of a printer its toner; no answer to    *)
(* any is an error, but not where the library is missing.                  *)
SnmpAnswers ==
  {NoAnswer, Error} \cup
  {[outcome |-> "OK", cols |-> cols] :
     cols \in {S \in SUBSET {"type", "os", "lists"} : S # {} /\ ("lists" \in S => "type" \in S)}}

(* _parse_wmi_powershell_strict: each part may be missing.                 *)
WmiParsed == {hw \cup os \cup lists : hw \in {{}, {"hardware"}}, os \in {{}, {"os"}}, lists \in Software}

(* phase3_wmi: not without a port and credentials.  The connection fails,  *)
(* or its queries do not end in time, or all were asked.                   *)
WmiEnds == {Error} \cup {[outcome |-> "OK", cols |-> cols] : cols \in WmiParsed}
WmiAnswers(login) == {NoAnswer} \cup IF login THEN WmiEnds ELSE {}

(* The list of programs of opkg, macOS, dpkg or rpm; the session of the    *)
(* user, but not on an embedded system.                                    *)
SshSoftware == Software
SshSession(embedded) == IF embedded THEN {{}} ELSE {{}, {"lists"}}

(* phase4_ssh: it cannot connect, and says why; or it asks, and a session  *)
(* in which nothing was answered has no outcome.                           *)
SshRead ==
  UNION {{os \cup hw \cup soft \cup session :
            os \in {{}, {"os"}}, hw \in {{}, {"hardware"}}, soft \in SshSoftware, session \in SshSession(e)}
         : e \in BOOLEAN}
SshAnswers ==
  {NoAnswer, Error} \cup {[outcome |-> why, cols |-> {}] : why \in {"TIMEOUT", "AUTH_FAILED"}}
    \cup {[outcome |-> IF cols = {} THEN Unknown ELSE "OK", cols |-> cols] : cols \in SshRead}

(* get_web_banner: a title, or none; a firewall, camera or printer is      *)
(* known by it, or else a router: the type it looks for first is that of   *)
(* its own answer, which has none.                                         *)
Banners ==
  [titled : BOOLEAN, type : {Unknown, "device", "router"}]
-----------------------------------------------------------------------------
(* discovery_nmap and os_detection_aggressive tell the system or not; the  *)
(* vendor suggests a type where there is none.                             *)
NmapTold == {{}, {"os"}}
HostListed ==
  /\ phase = "next" /\ phase' = "lldp"
  /\ \E os \in NmapTold, type \in {{}, {"type"}} :
       /\ base' = Merge(Filled("nmap", os), Filled("guess", type))
       /\ osName' = IF os = {} THEN Unknown ELSE "nmap"     \* os_aggressive[ip]
  /\ ports' = {} /\ outcome' = [p \in Protocols |-> Unknown]
  /\ titled' = FALSE /\ remedy' = Unknown

(* LLDPIndex.lookup and to_merge_dict: its type replaces the guess, its    *)
(* description fills the system only where nmap told none.                 *)
LldpTold ==
  /\ phase = "lldp" /\ phase' = "ports"
  /\ \E type \in {{}, {"type"}}, os \in {{}, {"os"}} :
       base' = Merge(base, Filled("lldp", type \cup {c \in os : base[c] = Unknown}))
  /\ UNCHANGED <<ports, osName, outcome, titled, remedy>>

(* scan_ports_per_host; each port by itself when nmap tells none.          *)
PortsScanned ==
  /\ phase = "ports" /\ phase' = "snmp"
  /\ \E found, connected \in SUBSET Ports : ports' = IF found # {} THEN found ELSE connected
  /\ UNCHANGED <<base, osName, outcome, titled, remedy>>

(* What an answer of a protocol adds.                                      *)
Answered(protocol, answer) ==
  /\ base' = Merge(base, Filled(protocol, answer.cols))
  /\ outcome' = [outcome EXCEPT ![protocol] = answer.outcome]

(* A host that looks like Windows is asked by SNMP only when its type is   *)
(* that of a printer, a switch or an AP.                                   *)
IsWindows(named) == "rpc" \in ports \/ (named /\ base["os"] # Unknown)
SnmpCandidate(named, managed) == ~IsWindows(named) \/ (managed /\ base["type"] # Unknown)
AsksSnmp ==
  /\ phase = "snmp" /\ phase' = "wmi"
  /\ \E named, managed \in BOOLEAN :
       IF SnmpCandidate(named, managed) THEN \E answer \in SnmpAnswers : Answered("snmp", answer)
       ELSE UNCHANGED <<base, outcome>>
  /\ UNCHANGED <<ports, osName, titled, remedy>>

(* The credentials of the row or of the Tracker; then those of .env, where *)
(* they are others, if the first gave neither cpu nor ram: their answer    *)
(* takes the place of the first.                                           *)
NeedFallback(answer) == answer.outcome # "OK" \/ "hardware" \notin answer.cols
AsksWmi ==
  /\ phase = "wmi" /\ phase' = "ssh"
  /\ IF "rpc" \in ports
     THEN \E login, env \in BOOLEAN : \E first \in WmiAnswers(login) :
            IF NeedFallback(first) /\ env
            THEN \E second \in WmiAnswers(TRUE) : Answered("wmi", second)
            ELSE Answered("wmi", first)
     ELSE UNCHANGED <<base, outcome>>
  /\ UNCHANGED <<ports, osName, titled, remedy>>

AsksSsh ==
  /\ phase = "ssh" /\ phase' = "http"
  /\ IF "ssh" \in ports THEN \E answer \in SshAnswers : Answered("ssh", answer)
     ELSE UNCHANGED <<base, outcome>>
  /\ UNCHANGED <<ports, osName, titled, remedy>>

(* The page on 80; the one on 443 when the first had no title.             *)
Web(port) ==
  IF port \in ports /\ ~titled
  THEN \E banner \in Banners :
         /\ base' = Merge(base, [NoColumns EXCEPT !["type"] = banner.type])
         /\ titled' = banner.titled
  ELSE UNCHANGED <<base, titled>>
Http  == phase = "http"  /\ phase' = "https"    /\ Web("http")  /\ UNCHANGED <<ports, osName, outcome, remedy>>
Https == phase = "https" /\ phase' = "finish" /\ Web("https") /\ UNCHANGED <<ports, osName, outcome, remedy>>

(* consolidate_identity: nmap, then the last protocol that told the        *)
(* system, then the web server, which has a title or says its name.        *)
Identities ==
  IF osName # Unknown THEN {osName} ELSE IF base["os"] # Unknown THEN {base["os"]}
  ELSE IF titled THEN {"web"} ELSE IF {"http", "https"} \cap ports # {} THEN {"web", Unknown}
  ELSE {Unknown}

(* get_it_remedy, of the first protocol in error for which remedies.json   *)
(* has a rule; or of a web port without a title.                           *)
Advice(p) == IF outcome[p] = "ERROR" THEN {p, Unknown} ELSE {Unknown}
WebAdvice == IF {"http", "https"} \cap ports # {} /\ ~titled THEN {"http", Unknown} ELSE {Unknown}
FirstAdvice(a) == IF \E i \in DOMAIN a : a[i] # Unknown
                  THEN a[CHOOSE i \in DOMAIN a : a[i] # Unknown /\ \A j \in 1..(i - 1) : a[j] = Unknown]
                  ELSE Unknown
Remedies ==
  {FirstAdvice(advice) : advice \in Advice("wmi") \X Advice("ssh") \X Advice("snmp") \X WebAdvice}

(* What has no outcome failed if its port is open.                         *)
PortOf(p) == IF p = "wmi" THEN "rpc" ELSE p
OutcomeOf(p) ==
  IF outcome[p] # Unknown THEN outcome[p]
  ELSE IF PortOf(p) \in ports THEN "FAILED" ELSE "NOT_ATTEMPTED"

(* The record is complete: its columns are saved (TrackerInventory).       *)
Finished ==
  /\ phase = "finish" /\ phase' = "next"
  /\ osName' \in Identities /\ remedy' \in Remedies
  /\ outcome' = [p \in Protocols |-> OutcomeOf(p)]
  /\ base' = NoColumns /\ ports' = {} /\ titled' = FALSE
-----------------------------------------------------------------------------
ProcessInit ==
  /\ phase = "next" /\ ports = {} /\ base = NoColumns /\ osName = Unknown
  /\ outcome = [p \in Protocols |-> Unknown] /\ titled = FALSE /\ remedy = Unknown

ProcessNext ==
  \/ HostListed \/ LldpTold \/ PortsScanned \/ AsksSnmp \/ AsksWmi \/ AsksSsh \/ Http \/ Https
  \/ Finished

ProcessSpec == ProcessInit /\ [][ProcessNext]_processVars
-----------------------------------------------------------------------------
ProcessTypeOK ==
  /\ phase \in {"next", "lldp", "ports", "snmp", "wmi", "ssh", "http", "https", "finish"}
  /\ ports \subseteq Ports /\ base \in [Columns -> Sources] /\ osName \in Sources
  /\ outcome \in [Protocols -> Outcomes] /\ titled \in BOOLEAN
  /\ remedy \in Protocols \cup {"http", Unknown}

Worth(source) ==
  CASE source = Unknown -> 0 [] source = "guess" -> 1 [] source = "lldp" -> 2
    [] source = "snmp" -> 3 [] OTHER -> 4

(* Of one host, no phase takes away what an earlier one learnt: a column   *)
(* that was filled stays filled, and a type is replaced only by better     *)
(* evidence, the vendor's guess being the weakest (discovery.py:195-197);  *)
(* and a remedy is about a protocol whose outcome still says it failed.    *)
EvidenceGrows ==
  [][/\ phase # "finish" =>
          /\ \A c \in Columns : base[c] # Unknown => base'[c] # Unknown
          /\ Worth(base'["type"]) >= Worth(base["type"])
     /\ phase = "finish" =>
          /\ base["os"] # Unknown => osName' # Unknown
          /\ remedy' \in Protocols => outcome'[remedy'] = "ERROR"]_processVars

=============================================================================
