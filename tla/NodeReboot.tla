------------------------------ MODULE NodeReboot ------------------------------
(***************************************************************************)
(* How Guardian reboots a node (_run_ssh_reboot and _run_snmp_reboot,      *)
(* shomer_guardian_lib.py): by SNMP when that is its method; or over SSH   *)
(* with the login of its row, the key of the host and the global password, *)
(* one after the other until one answers yes, and by SNMP in the end if it *)
(* has a community to write with.  The answer is what GuardianNodes        *)
(* announces, counts and waits for.                                        *)
(*                                                                         *)
(* A node that takes the command is gone at once: its answer may be lost,  *)
(* and what is tried after finds nobody.                                   *)
(*                                                                         *)
(* External: the node; ssh, sshpass, ping and snmpset; the key file.       *)
(***************************************************************************)
EXTENDS Naturals, FiniteSets

VARIABLES
  next,     \* the way that is tried next, "idle" or "told"
  ways,     \* those there is a login, key, password or community for
  direct,   \* reboot_method is snmp
  tried,    \* those that were tried
  reach,    \* the node: "up", "deaf" (answers only the ping), "away"
  taken,    \* the node took a command: it reboots
  answer    \* the success told, and by which way

rebootVars == <<next, ways, direct, tried, reach, taken, answer>>

Ways    == {"login", "key", "global", "snmp"}
NoReply == [success |-> FALSE, way |-> "none"]
Yes(w)  == [success |-> TRUE, way |-> w]
-----------------------------------------------------------------------------
(* Mutant of After: the global password is the last way.                   *)
After_GlobalLast(w) == CASE w = "login" -> "key" [] w = "key" -> "global" [] OTHER -> "told"

After(w) ==
  CASE w = "login" -> "key" [] w = "key" -> "global" [] w = "global" -> "snmp" [] OTHER -> "told"

(* The row is read for the method and community, then for the login: one   *)
(* that cannot be read has none.  An address that is not allowed has no    *)
(* way at all.                                                             *)
RebootAsked ==
  /\ next = "idle"
  /\ ways' \in SUBSET Ways /\ reach' \in {"up", "deaf", "away"} /\ direct' \in BOOLEAN
  /\ next' = IF ways' = {} THEN "told" ELSE IF direct' /\ "snmp" \in ways' THEN "snmp" ELSE "login"
  /\ tried' = {} /\ taken' = FALSE /\ answer' = NoReply

NotThere(w) ==
  /\ next = w /\ w \notin ways /\ next' = After(w)
  /\ UNCHANGED <<ways, direct, tried, reach, taken, answer>>

Tries(w) == next = w /\ w \in ways /\ tried' = tried \cup {w} /\ UNCHANGED <<ways, direct>>
Says(w, success) ==
  IF success THEN answer' = Yes(w) /\ next' = "told" ELSE UNCHANGED answer /\ next' = After(w)

(* Over SSH: the command ended well; it did not, or not in time, though    *)
(* the node took it; or it never came to it.                               *)
SshRan(w) ==
  /\ w # "snmp" /\ Tries(w) /\ reach = "up"
  /\ taken' = TRUE /\ reach' = "away" /\ \E success \in BOOLEAN : Says(w, success)
SshRefused(w) ==
  /\ w # "snmp" /\ Tries(w) /\ Says(w, FALSE) /\ UNCHANGED <<reach, taken>>

(* By SNMP: not without an answer to the ping, nor without snmpset.        *)
NoPing ==
  /\ Tries("snmp") /\ Says("snmp", FALSE) /\ UNCHANGED <<reach, taken>>
SnmpRan ==
  /\ Tries("snmp") /\ reach = "up" /\ taken' = TRUE /\ reach' = "away" /\ Says("snmp", TRUE)
SnmpRefused ==
  /\ Tries("snmp") /\ reach = "up" /\ Says("snmp", FALSE) /\ UNCHANGED <<reach, taken>>
(* snmpset waits for two answers longer than it is let: silence is a yes.  *)
SnmpSilent ==
  /\ Tries("snmp") /\ reach \in {"up", "deaf"} /\ Says("snmp", TRUE) /\ UNCHANGED <<reach, taken>>

RebootTold ==
  /\ next = "told" /\ next' = "idle" /\ ways' = {} /\ tried' = {} /\ taken' = FALSE
  /\ reach' = "up" /\ direct' = FALSE /\ answer' = NoReply

RebootInit ==
  /\ next = "idle" /\ ways = {} /\ tried = {} /\ reach = "up" /\ taken = FALSE
  /\ direct = FALSE /\ answer = NoReply

RebootNext ==
  \/ RebootAsked \/ RebootTold \/ NoPing \/ SnmpRan \/ SnmpRefused \/ SnmpSilent
  \/ \E w \in Ways : NotThere(w) \/ SshRan(w) \/ SshRefused(w)

RebootSpec == RebootInit /\ [][RebootNext]_rebootVars
-----------------------------------------------------------------------------
RebootTypeOK ==
  /\ next \in {"idle", "told"} \cup Ways /\ ways \subseteq Ways /\ tried \subseteq ways
  /\ direct \in BOOLEAN /\ reach \in {"up", "deaf", "away"} /\ taken \in BOOLEAN
  /\ answer \in {NoReply} \cup {Yes(w) : w \in Ways}

(* A node is reported as one that cannot be rebooted only after every way  *)
(* there is was tried, SNMP too ("el paso 4 (SNMP) nunca se alcanzaba en   *)
(* produccion", shomer_guardian_lib.py:338-339), but for one whose method  *)
(* is SNMP; and after a yes over SSH, which the node took, none is tried.  *)
EveryWayTried ==
  next = "told" =>
    /\ ~answer.success => tried = ways \/ (direct /\ tried = {"snmp"})
    /\ answer.success /\ answer.way # "snmp" =>
         taken /\ "snmp" \notin tried /\ ("global" \in tried => answer.way = "global")

(* "Device respondio al ping pero corto la conexion SNMP -> empezo a       *)
(* reiniciarse antes de responder al SET. Exito confirmado."               *)
(* (shomer_guardian_lib.py:222-223): a node reported as rebooted took the  *)
(* command.                                                                *)
RebootConfirmed == next = "told" /\ answer.success => taken
=============================================================================
