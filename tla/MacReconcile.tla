----------------------------- MODULE MacReconcile -----------------------------
(***************************************************************************)
(* Equipment that changes its address (shomer_mac_reconcile.py): a pass    *)
(* every half hour looks for the MAC of each device that is offline in the *)
(* neighbour table of the kernel, and moves its row to the address found.  *)
(*                                                                         *)
(* The rows of Guardian know their MAC.  A row of Inframonitor knows the   *)
(* MAC its status row holds, which is whatever answered last at its        *)
(* address; and the table of rows lets no two share one, so that a move to *)
(* the address of another row fails, with the whole pass.                  *)
(*                                                                         *)
(* Abstracted: a poll of a device is one step, confirmed at once; a pass   *)
(* is a sweep and a transaction, one step; the log of the moves; the       *)
(* subnet, which holds all addresses.                                      *)
(***************************************************************************)
EXTENDS Integers, FiniteSets

CONSTANTS
  GuardianRows, \* rows of devices, named by the equipment they are for
  InfraRows,    \* active rows of infra_devices, idem, in the order of their id
  IdleRows,     \* rows of infra_devices with active=0
  Addresses,
  Nowhere,      \* switched off, or no address
  NoMac,
  HomeOf,       \* the address each row was entered with
  MaxMoves      \* bound: moves of a behaviour

Rows      == GuardianRows \cup InfraRows \cup IdleRows
Equipment == Rows

ASSUME RowAssumption  == InfraRows \cup IdleRows \subseteq Int /\ GuardianRows \cap InfraRows = {}
ASSUME MoveAssumption == MaxMoves \in Nat
ASSUME HomeAssumption == HomeOf \in [Rows -> Addresses] /\ Nowhere \notin Addresses

VARIABLES
  place,       \* where each piece of equipment is
  gone,        \* who left each address and may still be in the neighbour table
  rowIp,       \* ip_address of devices, ip of infra_devices
  offline,     \* rows of Guardian the panel shows as offline
  infraStatus, \* infra_status, by address: what the last poll found
  passFailed,  \* the last pass was rolled back
  moves        \* moves so far

macVars == <<place, gone, rowIp, offline, infraStatus, passFailed, moves>>

Missing == [found |-> FALSE, online |-> FALSE, mac |-> NoMac]
At(a)   == {e \in Equipment : place[e] = a}
Answers(a) == At(a) # {}
MacAt(a)   == IF Answers(a) THEN CHOOSE e \in At(a) : TRUE ELSE NoMac

-----------------------------------------------------------------------------
(* Equipment goes to a free address, or off.                               *)
Moves(e) == \E a \in (Addresses \cup {Nowhere}) \ {place[e]} :
  /\ moves < MaxMoves /\ moves' = moves + 1
  /\ a = Nowhere \/ ~Answers(a)
  /\ place' = [place EXCEPT ![e] = a]
  /\ gone' = IF place[e] = Nowhere THEN gone ELSE [gone EXCEPT ![place[e]] = e]
  /\ UNCHANGED <<rowIp, offline, infraStatus, passFailed>>

(* The poller of Guardian.                                                 *)
GuardianPolls(g) ==
  /\ offline' = IF Answers(rowIp[g]) THEN offline \ {g} ELSE offline \cup {g}
  /\ UNCHANGED <<place, gone, rowIp, infraStatus, passFailed, moves>>

(* The poller of Inframonitor: the status row of the address takes the MAC *)
(* of whoever answers there, and keeps it when no one does.                *)
InfraPolls(i) ==
  LET a == rowIp[i] IN
  /\ infraStatus' = [infraStatus EXCEPT ![a] =
       [found |-> TRUE, online |-> Answers(a), mac |-> IF Answers(a) THEN MacAt(a) ELSE @.mac]]
  /\ UNCHANGED <<place, gone, rowIp, offline, passFailed, moves>>

(* _scan_mac_ip: the neighbour table after the sweep.  One that just left  *)
(* an address may still be seen there, before or after where it is.        *)
Sightings(e) ==
  {a \in Addresses : place[e] = a \/ (gone[a] = e /\ ~Answers(a))}

Scans == {s \in [Equipment -> Addresses \cup {Nowhere}] :
            \A e \in Equipment : s[e] \in Sightings(e) \/ (s[e] = Nowhere /\ place[e] = Nowhere)}

(* Mutant of GuardianMoves: devices that answer are moved.                 *)
GuardianMoves_Online(scan) ==
  {g \in GuardianRows \ offline : scan[g] \notin {Nowhere, rowIp[g]}}

GuardianMoves(scan) ==
  {g \in offline : scan[g] \notin {Nowhere, rowIp[g]}}

StatusMac(i) == infraStatus[rowIp[i]].mac

InfraMoves(scan) ==
  {i \in InfraRows :
     /\ infraStatus[rowIp[i]].found /\ ~infraStatus[rowIp[i]].online
     /\ StatusMac(i) # NoMac /\ scan[StatusMac(i)] \notin {Nowhere, rowIp[i]}}

Target(scan, i) == IF i \in InfraMoves(scan) THEN scan[StatusMac(i)] ELSE rowIp[i]

(* ip is UNIQUE, among the rows that are not active too: one row is moved  *)
(* at a time, in the order of their ids.                                   *)
Collides(scan) ==
  \E i \in InfraMoves(scan), j \in InfraRows \cup IdleRows :
    /\ j # i
    /\ Target(scan, i) = IF j < i THEN Target(scan, j) ELSE rowIp[j]

(* cleanup_orphaned_infra_status.                                          *)
WithoutOrphans(ips) ==
  [a \in Addresses |-> IF \E i \in InfraRows : ips[i] = a THEN infraStatus[a] ELSE Missing]

(* reconcile_once and the cleanup, which a failed pass does not reach.     *)
Pass == \E scan \in Scans :
  /\ passFailed' = Collides(scan)
  /\ gone' = [a \in Addresses |-> NoMac]
  /\ IF Collides(scan) THEN UNCHANGED <<rowIp, infraStatus>>
       ELSE /\ rowIp' = [r \in Rows |-> IF r \in GuardianMoves(scan) THEN scan[r]
                                        ELSE IF r \in InfraRows THEN Target(scan, r) ELSE rowIp[r]]
            /\ infraStatus' = WithoutOrphans(rowIp')
  /\ UNCHANGED <<place, offline, moves>>
-----------------------------------------------------------------------------
MacInit ==
  /\ place = HomeOf /\ gone = [a \in Addresses |-> NoMac] /\ rowIp = HomeOf
  /\ offline = {} /\ infraStatus = [a \in Addresses |-> Missing]
  /\ passFailed = FALSE /\ moves = 0

MacNext ==
  \/ \E e \in Equipment : Moves(e)
  \/ \E g \in GuardianRows : GuardianPolls(g)
  \/ \E i \in InfraRows : InfraPolls(i)
  \/ Pass

MacSpec == MacInit /\ [][MacNext]_macVars
-----------------------------------------------------------------------------
MacTypeOK ==
  /\ place \in [Equipment -> Addresses \cup {Nowhere}]
  /\ gone \in [Addresses -> Equipment \cup {NoMac}]
  /\ rowIp \in [Rows -> Addresses] /\ offline \subseteq GuardianRows
  /\ infraStatus \in [Addresses -> [found: BOOLEAN, online: BOOLEAN, mac: Equipment \cup {NoMac}]]
  /\ passFailed \in BOOLEAN /\ moves \in 0..MaxMoves

(* Equipment that settles at another address is found again ("se queda     *)
(* pingueando la IP vieja para siempre", shomer_mac_reconcile.py:4) unless *)
(* another answers at its old one, the passes fail for a row in the way,   *)
(* or, in Inframonitor, the status row no longer holds its MAC.            *)
FoundAgain ==
  /\ \A g \in GuardianRows :
       []<>(place[g] = Nowhere \/ Answers(rowIp[g]) \/ passFailed)
  /\ \A i \in InfraRows :
       []<>(place[i] = Nowhere \/ Answers(rowIp[i]) \/ passFailed \/ StatusMac(i) # i)
=============================================================================
