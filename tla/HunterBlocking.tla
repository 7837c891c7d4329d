--------------------------- MODULE HunterBlocking ---------------------------
(***************************************************************************)
(* Hunter's list of blocked addresses and the firewall it is applied to    *)
(* (casador_blocking.py, casador_support_firewall.py,                      *)
(* casador_support_redis_cb.py, shomer_incidents.py).                      *)
(*                                                                         *)
(* A block runs a command on the firewall over SSH, then writes the row of *)
(* the address, then opens an incident; an unblock removes the rule, then  *)
(* closes the row and the incidents; a sync reads the active rows once and *)
(* applies them one by one.  A circuit breaker in Redis stops all of them  *)
(* after CbThreshold failures.  Nothing locks an address: the requests of  *)
(* the panel, of Wazuh and of the autoblock poller interleave at every     *)
(* await, which are the SSH session and the thread that writes the row.    *)
(*                                                                         *)
(* Abstracted: who asks and the policy of automatic blocks (they decide    *)
(* whether BlockStart happens), signatures, Telegram, the number of        *)
(* incidents of an address, copies of one rule (the OpenWrt command tests  *)
(* before it inserts and the unblock removes every copy).                  *)
(***************************************************************************)
EXTENDS Naturals, FiniteSets

CONSTANTS
  IPs,          \* addresses that can be blocked
  Requests,     \* requests that can be under way at the same time
  CbThreshold,  \* _CB_THRESHOLD, failures that open the circuit
  MaxCycles,    \* bound: a block starts only below this many archived rows
  Faults,       \* what may go wrong, a subset of FaultNames
  None          \* no address

FaultNames == {"ssh", "answer", "database", "redis", "router_reboot", "restart"}

ASSUME ThresholdAssumption == CbThreshold \in Nat \ {0}
ASSUME FaultsAssumption    == Faults \subseteq FaultNames
ASSUME NoneAssumption      == None \notin IPs

VARIABLES
  configured,   \* hunter.firewall_ip and hunter.firewall_user are set
  row,          \* blocked_ips: absent, active (unblocked_at IS NULL) or closed
  flag,         \* blocked_ips.firewall_blocked
  archived,     \* rows of blocked_ips_history per address
  incidents,    \* addresses with an open or acknowledged incident
  rules,        \* addresses the firewall drops
  failCount,    \* hunter:firewall:fail_count, saturated at CbThreshold
  unreachable,  \* hunter:firewall:unreachable, the open circuit
  req,          \* what each request is doing
  (* History variables, used by properties only. *)
  ended,        \* times the row of an address was closed
  tainted,      \* addresses whose row and rule a fault or an overlap set apart
  solo          \* addresses a request has had for itself since it took them

listVars    == <<row, flag, archived, incidents, ended>>
breakerVars == <<failCount, unreachable>>
ghostVars   == <<tainted, solo>>
vars == <<configured, listVars, rules, breakerVars, req, ghostVars>>

-----------------------------------------------------------------------------
Idle == [at |-> "idle", ip |-> None, todo |-> {}, result |-> "none"]

(* A request is before its SSH command, before it takes the answer, before *)
(* its write, or before what follows the write.                            *)
OneAddress == {"block", "block_answer", "block_write", "block_finish",
               "unblock", "unblock_answer", "refused"}
Syncing    == {"sync", "sync_answer"}
Results    == {"none", "ok", "error", "exception"}

RequestStates ==
  {Idle} \cup [at: OneAddress, ip: IPs, todo: {{}}, result: Results]
         \cup [at: Syncing, ip: IPs, todo: SUBSET IPs, result: Results]

At(r, place)   == req[r].at = place
Ip(r)          == req[r].ip
Goto(r, state) == req' = [req EXCEPT ![r] = state]
Step(r, place) == Goto(r, [req[r] EXCEPT !.at = place])
End(r)         == Goto(r, Idle)

Held(r)     == IF At(r, "idle") THEN {} ELSE {Ip(r)} \cup req[r].todo
HeldElse(r) == UNION {Held(q) : q \in Requests \ {r}}
Busy        == UNION {Held(r) : r \in Requests}
Active      == {ip \in IPs : row[ip] = "active"}

(* History: a request takes its addresses; it shares those that another    *)
(* one is working on.                                                      *)
Take(r, S) ==
  /\ solo' = [q \in Requests |-> IF q = r THEN S \ HeldElse(r) ELSE solo[q] \ S]
  /\ tainted' = tainted \cup (S \cap HeldElse(r))
Drop(r, S) == solo' = [solo EXCEPT ![r] = @ \ S]

(* History: a request that had its address for itself and did all of its   *)
(* work leaves row and rule in agreement.                                  *)
Clean(r)  == tainted' = tainted \ (solo[r] \cap {Ip(r)})
Settle(r) == Drop(r, Held(r)) /\ Clean(r)
(* A request ends without having changed what it took.                     *)
GiveUp(r) == Drop(r, Held(r)) /\ UNCHANGED tainted
(* A request ends with half of its work done.                              *)
Taint(r)  == Drop(r, Held(r)) /\ tainted' = tainted \cup {Ip(r)}

-----------------------------------------------------------------------------
(* The circuit breaker.  Every call of it is skipped when Redis is down.   *)
RedisDown  == "redis" \in Faults
CbMayPass  == ~unreachable \/ RedisDown                      \* ~_cb_is_open()
CbOpens    == failCount + 1 >= CbThreshold

CbRecordSuccess ==
  \/ failCount' = 0 /\ unreachable' = FALSE
  \/ RedisDown /\ UNCHANGED breakerVars

CbCountFailure ==
  /\ failCount' = IF CbOpens THEN CbThreshold ELSE failCount + 1
  /\ unreachable' = (unreachable \/ CbOpens)

CbRecordFailure == CbCountFailure \/ (RedisDown /\ UNCHANGED breakerVars)

(* The circuit stays open for _CB_TTL seconds; the count lives longer, and *)
(* is renewed by every failure.                                            *)
UnreachableExpires ==
  /\ unreachable /\ unreachable' = FALSE
  /\ UNCHANGED <<configured, listVars, rules, failCount, req, ghostVars>>

FailCountExpires ==
  /\ ~unreachable /\ failCount > 0 /\ failCount' = 0
  /\ UNCHANGED <<configured, listVars, rules, unreachable, req, ghostVars>>

(* POST /remedies/firewall/reset                                           *)
ResetCircuit ==
  /\ CbRecordSuccess
  /\ UNCHANGED <<configured, listVars, rules, req, ghostVars>>

-----------------------------------------------------------------------------
(***************************************************************************)
(* The SSH command on the firewall: "error" is an exit code, "exception" a *)
(* failed connection or a timeout.  With the fault "answer" the command    *)
(* may have run although the caller is told it did not.                    *)
(***************************************************************************)
Apply(r)   == IF At(r, "unblock") THEN rules \ {Ip(r)} ELSE rules \cup {Ip(r)}
AnswerTo   == [block |-> "block_answer", unblock |-> "unblock_answer", sync |-> "sync_answer"]
Commanding(r) == \E place \in {"block", "unblock", "sync"} : At(r, place)
Answer(r, result) ==
  Goto(r, [at |-> AnswerTo[req[r].at], ip |-> Ip(r), todo |-> req[r].todo, result |-> result])

SshOk(r) ==
  /\ Commanding(r)
  /\ rules' = Apply(r)
  /\ Answer(r, "ok")
  /\ UNCHANGED <<configured, listVars, breakerVars, ghostVars>>

SshFails(r) ==
  /\ Commanding(r) /\ "ssh" \in Faults
  /\ \E result \in {"error", "exception"} : Answer(r, result)
  /\ \/ UNCHANGED <<rules, tainted>>
     \/ /\ "answer" \in Faults
        /\ rules' = Apply(r) /\ tainted' = tainted \cup {Ip(r)}
  /\ UNCHANGED <<configured, listVars, breakerVars, solo>>

-----------------------------------------------------------------------------
(***************************************************************************)
(* execute_hunter_block.  An address on the list is refused at once (the   *)
(* read answers no when the database fails); without a firewall the row is *)
(* written with no command run.  An open circuit ends the request with     *)
(* nothing done.                                                           *)
(***************************************************************************)
DatabaseDown == "database" \in Faults
MayFail      == IF DatabaseDown THEN BOOLEAN ELSE {FALSE}

BlockStart(r, ip) ==
  /\ At(r, "idle") /\ archived[ip] < MaxCycles
  /\ row[ip] # "active" \/ DatabaseDown
  /\ configured => CbMayPass
  /\ Goto(r, [at |-> IF configured THEN "block" ELSE "block_write",
              ip |-> ip, todo |-> {}, result |-> "none"])
  /\ Take(r, {ip})
  /\ UNCHANGED <<configured, listVars, rules, breakerVars>>

(* What follows the await of the SSH session.                              *)
BlockAnswer(r) ==
  /\ At(r, "block_answer")
  /\ \/ /\ req[r].result = "ok"
        /\ CbRecordSuccess /\ Step(r, "block_write") /\ UNCHANGED ghostVars
     \/ /\ req[r].result # "ok"
        /\ CbRecordFailure /\ End(r) /\ GiveUp(r)
  /\ UNCHANGED <<configured, listVars, rules>>

(* _write_block_row, in a thread: a closed row moves to the history, the   *)
(* new one replaces it.                                                    *)
Archived(ip) == IF row[ip] = "closed" THEN [archived EXCEPT ![ip] = @ + 1] ELSE archived

BlockWrite_NoArchive(r) ==
  /\ At(r, "block_write")
  /\ archived' = archived
  /\ row'  = [row EXCEPT ![Ip(r)] = "active"]
  /\ flag' = [flag EXCEPT ![Ip(r)] = (req[r].result = "ok")]
  /\ Step(r, "block_finish")
  /\ UNCHANGED <<configured, incidents, ended, rules, breakerVars, ghostVars>>

BlockWrite(r) ==
  /\ At(r, "block_write")
  /\ archived' = Archived(Ip(r))
  /\ row'  = [row EXCEPT ![Ip(r)] = "active"]
  /\ flag' = [flag EXCEPT ![Ip(r)] = (req[r].result = "ok")]
  /\ Step(r, "block_finish")
  /\ UNCHANGED <<configured, incidents, ended, rules, breakerVars, ghostVars>>

(* The write fails: HTTP 500, and the rule stays on the firewall.          *)
BlockWriteFails(r) ==
  /\ At(r, "block_write") /\ DatabaseDown
  /\ End(r)
  /\ IF req[r].result = "ok" THEN Taint(r) ELSE GiveUp(r)
  /\ UNCHANGED <<configured, listVars, rules, breakerVars>>

(* create_incident; its failure is only logged.                            *)
BlockFinish(r) ==
  /\ At(r, "block_finish")
  /\ incidents' \in {incidents \cup {Ip(r)}} \cup IF DatabaseDown THEN {incidents} ELSE {}
  /\ End(r) /\ Settle(r)
  /\ UNCHANGED <<configured, row, flag, archived, ended, rules, breakerVars>>

-----------------------------------------------------------------------------
(***************************************************************************)
(* unblock_ip.  No firewall, or an open circuit, and it is refused before  *)
(* any command.                                                            *)
(***************************************************************************)
UnblockStart(r, ip) ==
  /\ At(r, "idle")
  /\ \E place \in {"unblock", "refused"} :
       /\ place = "unblock" => configured /\ CbMayPass
       /\ place = "refused" => ~configured \/ unreachable
       /\ Goto(r, [at |-> place, ip |-> ip, todo |-> {}, result |-> "none"])
  /\ Take(r, {ip})
  /\ UNCHANGED <<configured, listVars, rules, breakerVars>>

(* The firewall obeyed: close the active row and, unless the request names *)
(* one incident, every incident of the address.                            *)
CloseRow(ip) ==
  /\ row'   = [row EXCEPT ![ip] = IF @ = "active" THEN "closed" ELSE @]
  /\ ended' = [ended EXCEPT ![ip] = IF row[ip] = "active" THEN @ + 1 ELSE @]

UnblockOk(r, closesAll) ==
  /\ At(r, "unblock_answer") /\ req[r].result = "ok"
  /\ CbRecordSuccess
  /\ CloseRow(Ip(r))
  /\ incidents' = IF closesAll THEN incidents \ {Ip(r)} ELSE incidents
  /\ IF closesAll THEN Settle(r) ELSE Taint(r)
  /\ End(r)
  /\ UNCHANGED <<configured, flag, archived, rules>>

(* The rule is gone and the row cannot be closed: HTTP 500.                *)
UnblockWriteFails(r) ==
  /\ At(r, "unblock_answer") /\ req[r].result = "ok" /\ DatabaseDown
  /\ CbRecordSuccess
  /\ End(r) /\ Taint(r)
  /\ UNCHANGED <<configured, listVars, rules>>

(* HTTP 502; only an exception counts for the circuit.                     *)
UnblockRefused_ClosesRow(r) ==
  /\ At(r, "unblock_answer") /\ req[r].result # "ok"
  /\ IF req[r].result = "exception" THEN CbRecordFailure ELSE UNCHANGED breakerVars
  /\ CloseRow(Ip(r))
  /\ Step(r, "refused")
  /\ UNCHANGED <<configured, flag, archived, incidents, rules, ghostVars>>

UnblockRefused(r) ==
  /\ At(r, "unblock_answer") /\ req[r].result # "ok"
  /\ IF req[r].result = "exception" THEN CbRecordFailure ELSE UNCHANGED breakerVars
  /\ Step(r, "refused")
  /\ UNCHANGED <<configured, listVars, rules, ghostVars>>

ReturnRefusal(r) ==
  /\ At(r, "refused")
  /\ End(r) /\ GiveUp(r)
  /\ UNCHANGED <<configured, listVars, rules, breakerVars>>

-----------------------------------------------------------------------------
(***************************************************************************)
(* firewall_sync.  Between the answer for one address and the command for  *)
(* the next there is no await.  Without a firewall it changes nothing: the *)
(* flags it would clear are clear.                                         *)
(***************************************************************************)
SyncAt(ip, S) == [at |-> "sync", ip |-> ip, todo |-> S \ {ip}, result |-> "none"]

(* The loop goes on to one of S, or ends: nothing left, or an open circuit. *)
SyncOn(r, S) ==
  \/ (S = {} \/ unreachable') /\ End(r) /\ Drop(r, Held(r))
  \/ (unreachable' => RedisDown) /\ (\E ip \in S : Goto(r, SyncAt(ip, S))) /\ Drop(r, {Ip(r)})

SyncStart(r) ==
  /\ At(r, "idle") /\ configured /\ CbMayPass
  /\ \E ip \in Active : Goto(r, SyncAt(ip, Active))
  /\ Take(r, Active)
  /\ UNCHANGED <<configured, listVars, rules, breakerVars>>

(* UPDATE ... WHERE ip = ? AND unblocked_at IS NULL                        *)
SetFlag(ip, ok) == flag' = [flag EXCEPT ![ip] = IF row[ip] = "active" THEN ok ELSE @]

SyncOk(r, unsaved) ==
  /\ At(r, "sync_answer") /\ req[r].result = "ok"
  /\ CbRecordSuccess
  /\ IF unsaved THEN UNCHANGED flag ELSE SetFlag(Ip(r), TRUE)
  /\ SyncOn(r, req[r].todo)
  /\ IF row[Ip(r)] = "active" THEN Clean(r) ELSE UNCHANGED tainted
  /\ UNCHANGED <<configured, row, archived, incidents, ended, rules>>

SyncFails_FlagSet(r, unsaved) ==
  /\ At(r, "sync_answer") /\ req[r].result # "ok"
  /\ ~CbOpens
  /\ CbRecordFailure
  /\ IF unsaved THEN UNCHANGED flag ELSE SetFlag(Ip(r), TRUE)
  /\ SyncOn(r, req[r].todo)
  /\ UNCHANGED <<configured, row, archived, incidents, ended, rules, tainted>>

SyncFails(r, unsaved) ==
  /\ At(r, "sync_answer") /\ req[r].result # "ok"
  /\ ~CbOpens
  /\ CbRecordFailure
  /\ IF unsaved THEN UNCHANGED flag ELSE SetFlag(Ip(r), FALSE)
  /\ SyncOn(r, req[r].todo)
  /\ UNCHANGED <<configured, row, archived, incidents, ended, rules, tainted>>

(* The failure opens the circuit, or its message says "unreachable": the   *)
(* loop ends before it writes the flag of this address.                    *)
SyncBreaks(r) ==
  /\ At(r, "sync_answer") /\ req[r].result # "ok"
  /\ CbOpens \/ req[r].result = "exception"
  /\ CbRecordFailure
  /\ End(r) /\ GiveUp(r)
  /\ UNCHANGED <<configured, listVars, rules>>

-----------------------------------------------------------------------------
(* POST /incidents/{id}/close                                              *)
CloseIncident(ip) ==
  /\ ip \in incidents /\ incidents' = incidents \ {ip}
  /\ UNCHANGED <<configured, row, flag, archived, ended, rules, breakerVars, req, ghostVars>>

(* The site gets a firewall; unsetting it is not modelled.                 *)
Configure ==
  /\ ~configured /\ configured' = TRUE
  /\ UNCHANGED <<listVars, rules, breakerVars, req, ghostVars>>

(* The router loses its rules, which are volatile (iptables).              *)
RouterReboot ==
  /\ "router_reboot" \in Faults /\ rules # {}
  /\ rules' = {}
  /\ tainted' = IPs /\ solo' = [r \in Requests |-> {}]
  /\ UNCHANGED <<configured, listVars, breakerVars, req>>

(* The service restarts with requests under way.                           *)
Restart ==
  /\ "restart" \in Faults /\ Busy # {}
  /\ req' = [r \in Requests |-> Idle]
  /\ tainted' = tainted \cup Busy /\ solo' = [r \in Requests |-> {}]
  /\ UNCHANGED <<configured, listVars, rules, breakerVars>>

-----------------------------------------------------------------------------
Init ==
  /\ configured \in BOOLEAN
  /\ row = [ip \in IPs |-> "absent"] /\ flag = [ip \in IPs |-> FALSE]
  /\ archived = [ip \in IPs |-> 0] /\ ended = [ip \in IPs |-> 0]
  /\ incidents = {} /\ rules = {}
  /\ failCount = 0 /\ unreachable = FALSE
  /\ req = [r \in Requests |-> Idle]
  /\ tainted = {} /\ solo = [r \in Requests |-> {}]

RequestStep(r) ==
  \/ SshOk(r) \/ SshFails(r)
  \/ \E ip \in IPs : BlockStart(r, ip) \/ UnblockStart(r, ip)
  \/ BlockAnswer(r) \/ BlockWrite(r) \/ BlockWriteFails(r) \/ BlockFinish(r)
  \/ \E all \in BOOLEAN : UnblockOk(r, all)
  \/ UnblockWriteFails(r) \/ UnblockRefused(r) \/ ReturnRefusal(r)
  \/ SyncStart(r) \/ SyncBreaks(r)
  \/ \E unsaved \in MayFail : SyncOk(r, unsaved) \/ SyncFails(r, unsaved)

Environment ==
  \/ UnreachableExpires \/ FailCountExpires \/ ResetCircuit
  \/ \E ip \in IPs : CloseIncident(ip)
  \/ Configure \/ RouterReboot \/ Restart

Next == (\E r \in Requests : RequestStep(r)) \/ Environment

Spec == Init /\ [][Next]_vars

-----------------------------------------------------------------------------
TypeOK ==
  /\ configured \in BOOLEAN
  /\ row \in [IPs -> {"absent", "active", "closed"}]
  /\ flag \in [IPs -> BOOLEAN]
  /\ archived \in [IPs -> Nat] /\ ended \in [IPs -> Nat]
  /\ incidents \subseteq IPs /\ rules \subseteq IPs
  /\ failCount \in 0..CbThreshold /\ unreachable \in BOOLEAN
  /\ req \in [Requests -> RequestStates]
  /\ tainted \subseteq IPs /\ solo \in [Requests -> SUBSET IPs]

(* The list and the firewall say the same of an address.                   *)
Agrees(ip) ==
  /\ row[ip] = "active" /\ flag[ip] => ip \in rules
  /\ row[ip] # "active" => ip \notin rules /\ ip \notin incidents

(* Requests that did not overlap on an address and met no half-done fault  *)
(* leave its row, its rule and its incidents in agreement, and a request   *)
(* that has the address for itself and succeeds restores it                *)
(* (casador_blocking.py:555-564).                                          *)
ListMatchesFirewall == \A ip \in IPs \ (tainted \cup Busy) : Agrees(ip)

(* No block that ended is lost when the address is blocked again: each is  *)
(* in the history table or is the closed row (casador_blocking.py:414-417). *)
HistoryKept ==
  \A ip \in IPs : ended[ip] = archived[ip] + IF row[ip] = "closed" THEN 1 ELSE 0
-----------------------------------------------------------------------------
(***************************************************************************)
(* The inductive invariant.                                                *)
(***************************************************************************)
(* What a request has not shared is its own, and nothing else is clean.    *)
SoloIsHeld ==
  \A r \in Requests :
    /\ Ip(r) \notin req[r].todo
    /\ solo[r] \subseteq Held(r) /\ Held(r) \subseteq solo[r] \cup tainted
    /\ \A q \in Requests \ {r} : solo[r] \cap Held(q) = {}

(* What a request did to the addresses that are its own still stands.      *)
WorkStands ==
  \A r \in Requests : \A ip \in solo[r] :
    /\ req[r].at \in Syncing => row[ip] = "active"
    /\ ip = Ip(r) /\ req[r].result = "ok" =>
         /\ req[r].at \in {"block_answer", "block_write", "sync_answer"} => ip \in rules
         /\ At(r, "unblock_answer") => ip \notin rules
    /\ ip = Ip(r) /\ At(r, "block_finish") =>
         row[ip] = "active" /\ (flag[ip] => ip \in rules)

(* Row and rule differ only between the command of a request and its row.  *)
HalfDone(ip) ==
  \E r \in Requests :
    /\ Ip(r) = ip /\ req[r].result = "ok"
    /\ req[r].at \in {"block_answer", "block_write", "unblock_answer"}

AgreeOrHalfDone == \A ip \in IPs \ tainted : Agrees(ip) \/ HalfDone(ip)

(* The four facts above ListMatchesFirewall rests on, together: they hold  *)
(* between any two turns of the event loop.                                *)
ListInvariant == TypeOK /\ SoloIsHeld /\ WorkStands /\ AgreeOrHalfDone
=============================================================================
