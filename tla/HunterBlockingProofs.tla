------------------------ MODULE HunterBlockingProofs ------------------------
(***************************************************************************)
(* Proofs about HunterBlocking: type correctness, that the list and the    *)
(* firewall agree where no fault and no overlap set them apart, and that   *)
(* no ended block is lost.                                                 *)
(***************************************************************************)
EXTENDS HunterBlocking, TLAPS

LEMMA IdleIsState == Idle \in RequestStates /\ Idle.at = "idle" /\ Idle.result = "none" /\ Idle.todo = {} /\ Idle.ip = None
BY DEF Idle, RequestStates

(* A request that is not idle works on an address.                         *)
LEMMA StateShape ==
  ASSUME TypeOK, NEW r \in Requests, req[r].at # "idle"
  PROVE  /\ Ip(r) \in IPs /\ req[r].todo \subseteq IPs
         /\ req[r].at \in OneAddress \cup Syncing
         /\ req[r].at \in OneAddress => req[r].todo = {}
         /\ Held(r) = {Ip(r)} \cup req[r].todo
         /\ req[r].result \in Results
<1>1. req[r] \in RequestStates /\ req[r] # Idle
  BY DEF TypeOK, Idle
<1>2. CASE req[r] \in [at: OneAddress, ip: IPs, todo: {{}}, result: Results]
  BY <1>2 DEF Held, At, Ip
<1>3. CASE req[r] \in [at: Syncing, ip: IPs, todo: SUBSET IPs, result: Results]
  BY <1>3 DEF Held, At, Ip, OneAddress, Syncing
<1> QED BY <1>1, <1>2, <1>3 DEF RequestStates

(* A state of a request may be put together from its parts.                *)
LEMMA MakeState ==
  ASSUME NEW at, NEW ip \in IPs, NEW todo \in SUBSET IPs, NEW result \in Results,
         at \in Syncing \/ (at \in OneAddress /\ todo = {})
  PROVE  [at |-> at, ip |-> ip, todo |-> todo, result |-> result] \in RequestStates
BY DEF RequestStates

LEMMA Answered ==
  ASSUME TypeOK, NEW r \in Requests, Commanding(r), NEW result \in Results, Answer(r, result)
  PROVE  /\ req' \in [Requests -> RequestStates]
         /\ Ip(r) \in IPs
<1>1. req[r].at \in {"block", "unblock", "sync"}
  BY DEF Commanding, At
<1>2. Ip(r) \in IPs /\ req[r].todo \subseteq IPs /\ (req[r].at \in OneAddress => req[r].todo = {})
  BY <1>1, StateShape
<1>5. AnswerTo[req[r].at] \in Syncing \/ (AnswerTo[req[r].at] \in OneAddress /\ req[r].todo = {})
  BY <1>1, <1>2 DEF AnswerTo, OneAddress, Syncing
<1>6. [at |-> AnswerTo[req[r].at], ip |-> Ip(r), todo |-> req[r].todo, result |-> result]
        \in RequestStates
  BY <1>2, <1>5, MakeState
<1> QED BY <1>2, <1>6 DEF TypeOK, Answer, Goto

(* The circuit breaker keeps its type whatever Redis does.                 *)
LEMMA BreakerType ==
  ASSUME TypeOK, CbRecordSuccess \/ CbRecordFailure \/ UNCHANGED breakerVars
  PROVE  failCount' \in 0..CbThreshold /\ unreachable' \in BOOLEAN
<1> USE ThresholdAssumption
<1>1. failCount \in 0..CbThreshold /\ unreachable \in BOOLEAN
  BY DEF TypeOK
<1>2. ASSUME CbRecordSuccess
      PROVE  failCount' \in 0..CbThreshold /\ unreachable' \in BOOLEAN
  <2>0. 0 \in 0..CbThreshold
    OBVIOUS
  <2>1. CASE failCount' = 0 /\ unreachable' = FALSE
    BY <2>0, <2>1, Zenon
  <2>2. CASE UNCHANGED breakerVars
    <3>1. failCount' = failCount /\ unreachable' = unreachable
      BY <2>2, Zenon DEF breakerVars
    <3>2. failCount' \in 0..CbThreshold
      BY <1>1, <3>1
    <3>3. unreachable' \in BOOLEAN
      BY <1>1, <3>1, Zenon
    <3> QED BY <3>2, <3>3
  <2> QED BY <1>2, <2>1, <2>2 DEF CbRecordSuccess
<1>3. ASSUME CbCountFailure
      PROVE  failCount' \in 0..CbThreshold /\ unreachable' \in BOOLEAN
  BY <1>1, <1>3 DEF CbCountFailure, CbOpens
<1> QED BY <1>1, <1>2, <1>3 DEF CbRecordFailure, breakerVars

(* The history variables keep their type.                                  *)
LEMMA TakeType ==
  ASSUME TypeOK, NEW r \in Requests, NEW S \in SUBSET IPs, Take(r, S)
  PROVE  tainted' \subseteq IPs /\ solo' \in [Requests -> SUBSET IPs]
BY DEF TypeOK, Take

LEMMA DropType ==
  ASSUME TypeOK, NEW r \in Requests, NEW S, Drop(r, S)
  PROVE  solo' \in [Requests -> SUBSET IPs]
BY DEF TypeOK, Drop

LEMMA EndingType ==
  ASSUME TypeOK, NEW r \in Requests, Ip(r) \in IPs, Settle(r) \/ GiveUp(r) \/ Taint(r)
  PROVE  tainted' \subseteq IPs /\ solo' \in [Requests -> SUBSET IPs]
BY DropType DEF TypeOK, Settle, Clean, GiveUp, Taint

LEMMA InitType == Init => TypeOK
<1> SUFFICES ASSUME Init PROVE TypeOK
  OBVIOUS
<1>1. failCount \in 0..CbThreshold
  BY ThresholdAssumption DEF Init
<1>2. req \in [Requests -> RequestStates]
  BY IdleIsState DEF Init
<1> QED BY <1>1, <1>2 DEF Init, TypeOK

LEMMA TypeStep == TypeOK /\ [Next]_vars => TypeOK'
<1> SUFFICES ASSUME TypeOK, [Next]_vars PROVE TypeOK'
  OBVIOUS
<1> USE DEF listVars, breakerVars, ghostVars
<1>0. ASSUME NEW r \in Requests, NEW state \in RequestStates, Goto(r, state)
      PROVE  req' \in [Requests -> RequestStates]
  BY <1>0 DEF TypeOK, Goto
<1>e. ASSUME NEW r \in Requests, End(r) PROVE req' \in [Requests -> RequestStates]
  BY <1>e, <1>0, IdleIsState DEF End
<1>1. ASSUME NEW r \in Requests, SshOk(r) PROVE TypeOK'
  <2>1. req' \in [Requests -> RequestStates] /\ Ip(r) \in IPs
    BY <1>1, Answered DEF SshOk, Results
  <2>2. rules' \subseteq IPs
    BY <1>1, <2>1 DEF TypeOK, SshOk, Apply
  <2> QED BY <1>1, <2>1, <2>2 DEF TypeOK, SshOk
<1>2. ASSUME NEW r \in Requests, SshFails(r) PROVE TypeOK'
  <2>1. req' \in [Requests -> RequestStates] /\ Ip(r) \in IPs
    BY <1>2, Answered DEF SshFails, Results
  <2>2. rules' \subseteq IPs /\ tainted' \subseteq IPs
    BY <1>2, <2>1 DEF TypeOK, SshFails, Apply
  <2> QED BY <1>2, <2>1, <2>2 DEF TypeOK, SshFails
<1>3. ASSUME NEW r \in Requests, NEW ip \in IPs, BlockStart(r, ip) PROVE TypeOK'
  <2>1. [at |-> IF configured THEN "block" ELSE "block_write",
         ip |-> ip, todo |-> {}, result |-> "none"] \in RequestStates
    BY DEF RequestStates, OneAddress, Results
  <2>2. req' \in [Requests -> RequestStates]
    BY <1>0, <1>3, <2>1 DEF BlockStart
  <2>3. tainted' \subseteq IPs /\ solo' \in [Requests -> SUBSET IPs]
    BY <1>3, TakeType DEF BlockStart
  <2> QED BY <1>3, <2>2, <2>3 DEF TypeOK, BlockStart
<1>4. ASSUME NEW r \in Requests, BlockAnswer(r) PROVE TypeOK'
  <2>1. Ip(r) \in IPs /\ At(r, "block_answer")
    BY <1>4, StateShape DEF BlockAnswer, At
  <2>2. [req[r] EXCEPT !.at = "block_write"] \in RequestStates
    BY <2>1 DEF TypeOK, RequestStates, OneAddress, Syncing, Idle, At
  <2>3. req' \in [Requests -> RequestStates]
    BY <1>0, <1>e, <1>4, <2>2 DEF BlockAnswer, Step
  <2>4. failCount' \in 0..CbThreshold /\ unreachable' \in BOOLEAN
    BY <1>4, BreakerType DEF BlockAnswer
  <2>5. tainted' \subseteq IPs /\ solo' \in [Requests -> SUBSET IPs]
    BY <1>4, <2>1, EndingType DEF TypeOK, BlockAnswer
  <2> QED BY <1>4, <2>3, <2>4, <2>5 DEF TypeOK, BlockAnswer
<1>5. ASSUME NEW r \in Requests, BlockWrite(r) PROVE TypeOK'
  <2>1. Ip(r) \in IPs /\ At(r, "block_write")
    BY <1>5, StateShape DEF BlockWrite, At
  <2>2. [req[r] EXCEPT !.at = "block_finish"] \in RequestStates
    BY <2>1 DEF TypeOK, RequestStates, OneAddress, Syncing, Idle, At
  <2>3. req' \in [Requests -> RequestStates]
    BY <1>0, <1>5, <2>2 DEF BlockWrite, Step
  <2>4. archived' \in [IPs -> Nat]
    BY <1>5, <2>1 DEF TypeOK, BlockWrite, Archived
  <2> QED BY <1>5, <2>1, <2>3, <2>4 DEF TypeOK, BlockWrite
<1>6. ASSUME NEW r \in Requests, BlockWriteFails(r) PROVE TypeOK'
  <2>1. Ip(r) \in IPs
    BY <1>6, StateShape DEF BlockWriteFails, At
  <2>2. req' \in [Requests -> RequestStates]
    BY <1>e, <1>6 DEF BlockWriteFails
  <2>3. tainted' \subseteq IPs /\ solo' \in [Requests -> SUBSET IPs]
    BY <1>6, <2>1, EndingType DEF BlockWriteFails
  <2> QED BY <1>6, <2>2, <2>3 DEF TypeOK, BlockWriteFails
<1>7. ASSUME NEW r \in Requests, BlockFinish(r) PROVE TypeOK'
  <2>1. Ip(r) \in IPs
    BY <1>7, StateShape DEF BlockFinish, At
  <2>2. req' \in [Requests -> RequestStates]
    BY <1>e, <1>7 DEF BlockFinish
  <2>3. tainted' \subseteq IPs /\ solo' \in [Requests -> SUBSET IPs]
    BY <1>7, <2>1, EndingType DEF BlockFinish
  <2> QED BY <1>7, <2>1, <2>2, <2>3 DEF TypeOK, BlockFinish
<1>8. ASSUME NEW r \in Requests, NEW ip \in IPs, UnblockStart(r, ip) PROVE TypeOK'
  <2>1. \A place \in {"unblock", "refused"} :
          [at |-> place, ip |-> ip, todo |-> {}, result |-> "none"] \in RequestStates
    BY DEF RequestStates, OneAddress, Results
  <2>2. req' \in [Requests -> RequestStates]
    BY <1>0, <1>8, <2>1 DEF UnblockStart
  <2>3. tainted' \subseteq IPs /\ solo' \in [Requests -> SUBSET IPs]
    BY <1>8, TakeType DEF UnblockStart
  <2> QED BY <1>8, <2>2, <2>3 DEF TypeOK, UnblockStart
<1>9. ASSUME NEW r \in Requests, NEW all \in BOOLEAN, UnblockOk(r, all) PROVE TypeOK'
  <2>1. Ip(r) \in IPs
    BY <1>9, StateShape DEF UnblockOk, At
  <2>2. req' \in [Requests -> RequestStates]
    BY <1>e, <1>9 DEF UnblockOk
  <2>3. tainted' \subseteq IPs /\ solo' \in [Requests -> SUBSET IPs]
    BY <1>9, <2>1, EndingType DEF UnblockOk
  <2>4. failCount' \in 0..CbThreshold /\ unreachable' \in BOOLEAN
    BY <1>9, BreakerType DEF UnblockOk
  <2>5. row' \in [IPs -> {"absent", "active", "closed"}] /\ ended' \in [IPs -> Nat]
    BY <1>9, <2>1 DEF TypeOK, UnblockOk, CloseRow
  <2> QED BY <1>9, <2>2, <2>3, <2>4, <2>5 DEF TypeOK, UnblockOk
<1>10. ASSUME NEW r \in Requests, UnblockWriteFails(r) PROVE TypeOK'
  <2>1. Ip(r) \in IPs
    BY <1>10, StateShape DEF UnblockWriteFails, At
  <2>2. req' \in [Requests -> RequestStates]
    BY <1>e, <1>10 DEF UnblockWriteFails
  <2>3. tainted' \subseteq IPs /\ solo' \in [Requests -> SUBSET IPs]
    BY <1>10, <2>1, EndingType DEF UnblockWriteFails
  <2>4. failCount' \in 0..CbThreshold /\ unreachable' \in BOOLEAN
    BY <1>10, BreakerType DEF UnblockWriteFails
  <2> QED BY <1>10, <2>2, <2>3, <2>4 DEF TypeOK, UnblockWriteFails
<1>11. ASSUME NEW r \in Requests, UnblockRefused(r) PROVE TypeOK'
  <2>1. At(r, "unblock_answer")
    BY <1>11 DEF UnblockRefused
  <2>2. [req[r] EXCEPT !.at = "refused"] \in RequestStates
    BY <2>1 DEF TypeOK, RequestStates, OneAddress, Syncing, Idle, At
  <2>3. req' \in [Requests -> RequestStates]
    BY <1>0, <1>11, <2>2 DEF UnblockRefused, Step
  <2>4. failCount' \in 0..CbThreshold /\ unreachable' \in BOOLEAN
    BY <1>11, BreakerType DEF UnblockRefused
  <2> QED BY <1>11, <2>3, <2>4 DEF TypeOK, UnblockRefused
<1>12. ASSUME NEW r \in Requests, ReturnRefusal(r) PROVE TypeOK'
  <2>1. Ip(r) \in IPs
    BY <1>12, StateShape DEF ReturnRefusal, At
  <2>2. req' \in [Requests -> RequestStates]
    BY <1>e, <1>12 DEF ReturnRefusal
  <2>3. tainted' \subseteq IPs /\ solo' \in [Requests -> SUBSET IPs]
    BY <1>12, <2>1, EndingType DEF ReturnRefusal
  <2> QED BY <1>12, <2>2, <2>3 DEF TypeOK, ReturnRefusal
<1>s. \A S \in SUBSET IPs : \A ip \in S : SyncAt(ip, S) \in RequestStates
  BY DEF SyncAt, RequestStates, Syncing, Results
<1>13. ASSUME NEW r \in Requests, SyncStart(r) PROVE TypeOK'
  <2>1. Active \in SUBSET IPs
    BY DEF Active
  <2>2. req' \in [Requests -> RequestStates]
    BY <1>0, <1>s, <1>13, <2>1 DEF SyncStart
  <2>3. tainted' \subseteq IPs /\ solo' \in [Requests -> SUBSET IPs]
    BY <1>13, <2>1, TakeType DEF SyncStart
  <2> QED BY <1>13, <2>2, <2>3 DEF TypeOK, SyncStart
<1>o. ASSUME NEW r \in Requests, NEW S \in SUBSET IPs, SyncOn(r, S)
      PROVE  req' \in [Requests -> RequestStates]
  BY <1>o, <1>0, <1>e, <1>s DEF SyncOn
<1>d. ASSUME NEW r \in Requests, NEW S \in SUBSET IPs, SyncOn(r, S)
      PROVE  solo' \in [Requests -> SUBSET IPs]
  BY <1>d, DropType DEF SyncOn
<1>14. ASSUME NEW r \in Requests, NEW unsaved \in MayFail, SyncOk(r, unsaved) PROVE TypeOK'
  <2>1. Ip(r) \in IPs /\ req[r].todo \in SUBSET IPs
    BY <1>14, StateShape DEF SyncOk, At
  <2>2. req' \in [Requests -> RequestStates]
    BY <1>o, <1>14, <2>1 DEF SyncOk
  <2>3. tainted' \subseteq IPs /\ solo' \in [Requests -> SUBSET IPs]
    BY <1>14, <1>d, <2>1 DEF TypeOK, SyncOk, Clean
  <2>4. failCount' \in 0..CbThreshold /\ unreachable' \in BOOLEAN
    BY <1>14, BreakerType DEF SyncOk
  <2>5. flag' \in [IPs -> BOOLEAN]
    BY <1>14, <2>1 DEF TypeOK, SyncOk, SetFlag
  <2> QED BY <1>14, <2>2, <2>3, <2>4, <2>5 DEF TypeOK, SyncOk
<1>15. ASSUME NEW r \in Requests, NEW unsaved \in MayFail, SyncFails(r, unsaved) PROVE TypeOK'
  <2>1. Ip(r) \in IPs /\ req[r].todo \in SUBSET IPs
    BY <1>15, StateShape DEF SyncFails, At
  <2>2. req' \in [Requests -> RequestStates]
    BY <1>o, <1>15, <2>1 DEF SyncFails
  <2>3. tainted' \subseteq IPs /\ solo' \in [Requests -> SUBSET IPs]
    BY <1>15, <1>d, <2>1 DEF TypeOK, SyncFails
  <2>4. failCount' \in 0..CbThreshold /\ unreachable' \in BOOLEAN
    BY <1>15, BreakerType DEF SyncFails
  <2>5. flag' \in [IPs -> BOOLEAN]
    BY <1>15, <2>1 DEF TypeOK, SyncFails, SetFlag
  <2> QED BY <1>15, <2>2, <2>3, <2>4, <2>5 DEF TypeOK, SyncFails
<1>16. ASSUME NEW r \in Requests, SyncBreaks(r) PROVE TypeOK'
  <2>1. Ip(r) \in IPs
    BY <1>16, StateShape DEF SyncBreaks, At
  <2>2. req' \in [Requests -> RequestStates]
    BY <1>e, <1>16 DEF SyncBreaks
  <2>3. tainted' \subseteq IPs /\ solo' \in [Requests -> SUBSET IPs]
    BY <1>16, <2>1, EndingType DEF SyncBreaks
  <2>4. failCount' \in 0..CbThreshold /\ unreachable' \in BOOLEAN
    BY <1>16, BreakerType DEF SyncBreaks
  <2> QED BY <1>16, <2>2, <2>3, <2>4 DEF TypeOK, SyncBreaks
<1>17. ASSUME UnreachableExpires \/ FailCountExpires \/ ResetCircuit PROVE TypeOK'
  <2>1. CASE UnreachableExpires
    BY <2>1 DEF TypeOK, UnreachableExpires
  <2>2. CASE FailCountExpires
    <3>1. failCount' \in 0..CbThreshold
      BY <2>2, ThresholdAssumption DEF FailCountExpires
    <3> QED BY <2>2, <3>1 DEF TypeOK, FailCountExpires
  <2>3. CASE ResetCircuit
    <3>1. failCount' \in 0..CbThreshold /\ unreachable' \in BOOLEAN
      BY <2>3, BreakerType DEF ResetCircuit
    <3> QED BY <2>3, <3>1 DEF TypeOK, ResetCircuit
  <2> QED BY <1>17, <2>1, <2>2, <2>3
<1>18. ASSUME NEW ip \in IPs, CloseIncident(ip) PROVE TypeOK'
  BY <1>18 DEF TypeOK, CloseIncident
<1>19. ASSUME Configure PROVE TypeOK'
  BY <1>19 DEF TypeOK, Configure
<1>20. ASSUME RouterReboot PROVE TypeOK'
  BY <1>20 DEF TypeOK, RouterReboot
<1>21. ASSUME Restart PROVE TypeOK'
  <2>1. Busy \subseteq IPs
    BY StateShape DEF Busy, Held, At
  <2> QED BY <1>21, <2>1, IdleIsState DEF TypeOK, Restart
<1>22. ASSUME UNCHANGED vars PROVE TypeOK'
  BY <1>22 DEF TypeOK, vars
<1> QED
  BY <1>1, <1>2, <1>3, <1>4, <1>5, <1>6, <1>7, <1>8, <1>9, <1>10, <1>11, <1>12, <1>13,
     <1>14, <1>15, <1>16, <1>17, <1>18, <1>19, <1>20, <1>21, <1>22
  DEF Next, RequestStep, Environment

(* Type correctness, for every set of addresses, requests and faults.      *)
THEOREM BlockingTypeCorrect == Spec => []TypeOK
BY InitType, TypeStep, PTL DEF Spec

-----------------------------------------------------------------------------
(***************************************************************************)
(* The list and the firewall.  Each action is shown to keep the three      *)
(* parts of ListInvariant above the types.                                 *)
(***************************************************************************)
ListFacts == SoloIsHeld /\ WorkStands /\ AgreeOrHalfDone

LEMMA ListInit == Init => ListFacts
BY IdleIsState DEF Init, ListFacts, SoloIsHeld, WorkStands, AgreeOrHalfDone, Agrees, Held, At, Ip, Syncing

(* A request takes an address, having done nothing to it.                  *)
LEMMA TakeKeeps ==
  ASSUME ListInvariant, NEW r \in Requests, At(r, "idle"),
         NEW state \in RequestStates, state.at \in OneAddress \ {"block_finish"},
         state.result = "none", Goto(r, state), Take(r, {state.ip}),
         UNCHANGED <<row, flag, incidents, rules>>
  PROVE  ListFacts'
<1> USE DEF ListInvariant, TypeOK
<1>1. /\ req'[r] = state /\ state.todo = {} /\ state.ip \in IPs
      /\ \A q \in Requests \ {r} : req'[q] = req[q]
  BY DEF Goto, RequestStates, Idle, OneAddress, Syncing
<1>2. /\ Held(r) = {} /\ Held(r)' = {state.ip}
      /\ \A q \in Requests \ {r} : Held(q)' = Held(q)
  BY <1>1 DEF Held, At, Ip, OneAddress
<1>3. SoloIsHeld'
  BY <1>1, <1>2 DEF SoloIsHeld, Take, HeldElse, Ip
<1>4. WorkStands'
  BY <1>1, <1>2 DEF WorkStands, Take, At, Ip, OneAddress, Syncing
<1>5. AgreeOrHalfDone'
  BY <1>1, <1>2 DEF AgreeOrHalfDone, HalfDone, Agrees, Take, At, Ip, Idle, RequestStates
<1> QED BY <1>3, <1>4, <1>5 DEF ListFacts

(* What the end of a request does to the addresses held.                   *)
LEMMA Ended ==
  ASSUME ListInvariant, NEW r \in Requests, End(r)
  PROVE  /\ req'[r] = Idle /\ Held(r)' = {}
         /\ \A q \in Requests \ {r} : req'[q] = req[q] /\ Held(q)' = Held(q)
BY DEF ListInvariant, TypeOK, End, Goto, Held, At, Ip, Idle

(* A request ends without a word to the list, the firewall unchanged: its  *)
(* address is tainted if its command was run.                              *)
LEMMA EndKeeps ==
  ASSUME ListInvariant, NEW r \in Requests, ~At(r, "idle"), End(r),
         \/ Taint(r)
         \/ GiveUp(r) /\ (req[r].result # "ok" \/ At(r, "refused")),
         UNCHANGED <<row, flag, incidents, rules>>
  PROVE  ListFacts'
<1> USE DEF ListInvariant, TypeOK
<1>1. /\ req'[r] = Idle /\ Held(r)' = {}
      /\ \A q \in Requests \ {r} : req'[q] = req[q] /\ Held(q)' = Held(q)
  BY Ended
<1>2. /\ solo' = [solo EXCEPT ![r] = @ \ Held(r)]
      /\ tainted' \in {tainted, tainted \cup {Ip(r)}}
      /\ req[r].result = "ok" => Ip(r) \in tainted' \/ req[r].at = "refused"
  BY DEF Taint, GiveUp, Drop, At
<1>3. solo'[r] = {}
  BY <1>2 DEF SoloIsHeld
<1>4. SoloIsHeld'
  BY <1>1, <1>2, <1>3 DEF SoloIsHeld, Ip, Idle
<1>5. WorkStands'
  BY <1>1, <1>2, <1>3 DEF WorkStands, At, Ip
<1>6. AgreeOrHalfDone'
  BY <1>1, <1>2 DEF AgreeOrHalfDone, HalfDone, Agrees, Ip
<1> QED BY <1>4, <1>5, <1>6 DEF ListFacts

(* A request goes on to its next place with the list unchanged.            *)
LEMMA StepKeeps ==
  ASSUME ListInvariant, NEW r \in Requests, NEW place, Step(r, place),
         \/ At(r, "block_answer") /\ place = "block_write"
         \/ At(r, "unblock_answer") /\ place = "refused" /\ req[r].result # "ok",
         UNCHANGED <<row, flag, incidents, rules, ghostVars>>
  PROVE  ListFacts'
<1> USE DEF ListInvariant, TypeOK, ghostVars
<1>1. /\ req'[r] = [req[r] EXCEPT !.at = place]
      /\ \A q \in Requests \ {r} : req'[q] = req[q]
  BY DEF Step, Goto
<1>2. req[r].at \in OneAddress /\ place \in OneAddress
  BY DEF At, OneAddress
<1>3. req'[r].at = place /\ req'[r].ip = req[r].ip /\ req'[r].todo = req[r].todo
      /\ req'[r].result = req[r].result
  BY <1>1, <1>2 DEF RequestStates, Idle, OneAddress, Syncing
<1>3a. \A q \in Requests : Ip(q)' = Ip(q) /\ (req[q].todo)' = req[q].todo
                            /\ (req[q].result)' = req[q].result
  BY <1>1, <1>3 DEF Ip
<1>3b. \A q \in Requests : (At(q, "idle"))' = At(q, "idle")
  BY <1>1, <1>2, <1>3 DEF At, OneAddress
<1>4. \A q \in Requests : Held(q)' = Held(q)
  BY <1>3a, <1>3b DEF Held
<1>5. SoloIsHeld'
  BY <1>3a, <1>4 DEF SoloIsHeld
<1>6. WorkStands'
  <2>1. ASSUME NEW q \in Requests \ {r} PROVE req'[q].at = req[q].at
    BY <1>1
  <2> QED BY <1>2, <1>3, <1>3a, <2>1 DEF WorkStands, At, OneAddress, Syncing
<1>7. AgreeOrHalfDone'
  <2>1. \A ip \in IPs : HalfDone(ip) => HalfDone(ip)'
    BY <1>1, <1>3 DEF HalfDone, At, Ip
  <2> QED BY <2>1 DEF AgreeOrHalfDone, Agrees
<1> QED BY <1>5, <1>6, <1>7 DEF ListFacts

(* A command runs, or fails with its answer lost.                          *)
LEMMA SshKeeps ==
  ASSUME ListInvariant, NEW r \in Requests, SshOk(r) \/ SshFails(r)
  PROVE  ListFacts'
<1> USE DEF ListInvariant, TypeOK
<1>1. req[r].at \in {"block", "unblock", "sync"}
  BY DEF SshOk, SshFails, Commanding, At
<1>2. PICK result \in Results \ {"none"} :
        /\ Answer(r, result)
        /\ result = "ok" => rules' = Apply(r) /\ UNCHANGED tainted
        /\ result # "ok" =>
             \/ UNCHANGED <<rules, tainted>>
             \/ rules' = Apply(r) /\ tainted' = tainted \cup {Ip(r)}
  <2>1. CASE SshOk(r)
    <3>1. "ok" \in Results \ {"none"}
      BY DEF Results
    <3> QED BY <2>1, <3>1 DEF SshOk, ghostVars
  <2>2. CASE SshFails(r)
    <3>1. PICK result \in {"error", "exception"} : Answer(r, result)
      BY <2>2 DEF SshFails
    <3>2. result \in Results \ {"none"} /\ result # "ok"
      BY <3>1 DEF Results
    <3>3. UNCHANGED <<rules, tainted>> \/ (rules' = Apply(r) /\ tainted' = tainted \cup {Ip(r)})
      BY <2>2 DEF SshFails
    <3> QED BY <3>1, <3>2, <3>3
  <2> QED BY <2>1, <2>2
<1>3. UNCHANGED <<row, flag, incidents, solo>>
  <2>1. CASE SshOk(r)
    BY <2>1 DEF SshOk, listVars, ghostVars
  <2>2. CASE SshFails(r)
    BY <2>2 DEF SshFails, listVars
  <2> QED BY <2>1, <2>2
<1>4. /\ req'[r] = [at |-> AnswerTo[req[r].at], ip |-> Ip(r), todo |-> req[r].todo, result |-> result]
      /\ \A q \in Requests \ {r} : req'[q] = req[q]
  BY <1>2 DEF Answer, Goto
<1>5. req'[r].at \in {"block_answer", "unblock_answer", "sync_answer"}
      /\ (req'[r].at = "unblock_answer" <=> req[r].at = "unblock")
      /\ (req'[r].at = "sync_answer" <=> req[r].at = "sync")
  BY <1>1, <1>4 DEF AnswerTo
<1>6. \A q \in Requests : Held(q)' = Held(q)
  <2>1. \A q \in Requests : Ip(q)' = Ip(q) /\ (req[q].todo)' = req[q].todo
    BY <1>4 DEF Ip
  <2>2. \A q \in Requests : (At(q, "idle"))' = At(q, "idle")
    BY <1>1, <1>4, <1>5 DEF At
  <2> QED BY <2>1, <2>2 DEF Held
<1>7. Ip(r) \in Held(r)
  BY <1>1 DEF Held, At
<1>8. \A ip \in IPs : ip # Ip(r) => (ip \in rules' <=> ip \in rules)
  BY <1>2 DEF Apply
<1>9. SoloIsHeld'
  BY <1>2, <1>3, <1>4, <1>6 DEF SoloIsHeld, Ip
<1>10. WorkStands'
  <2>1. ASSUME NEW q \in Requests \ {r}, NEW ip \in solo[q]
        PROVE  ip \in IPs /\ ip # Ip(r)
    BY <1>7, <2>1 DEF SoloIsHeld
  <2>2. ASSUME NEW ip \in solo[r], req[r].at \in Syncing PROVE row[ip] = "active"
    BY <2>2 DEF WorkStands
  <2>3. result = "ok" => IF req[r].at = "unblock" THEN Ip(r) \notin rules' ELSE Ip(r) \in rules'
    BY <1>2 DEF Apply, At
  <2>4. ASSUME NEW ip \in solo[r]
        PROVE  /\ req'[r].at \in Syncing => row[ip] = "active"
               /\ ip = Ip(r)' /\ req'[r].result = "ok" =>
                    /\ req'[r].at \in {"block_answer", "block_write", "sync_answer"} => ip \in rules'
                    /\ req'[r].at = "unblock_answer" => ip \notin rules'
               /\ req'[r].at # "block_finish"
    BY <1>1, <1>4, <1>5, <2>2, <2>3 DEF Ip, Syncing
  <2>5. ASSUME NEW q \in Requests \ {r}, NEW ip \in solo[q]
        PROVE  /\ req'[q].at \in Syncing => row[ip] = "active"
               /\ ip = Ip(q)' /\ req'[q].result = "ok" =>
                    /\ req'[q].at \in {"block_answer", "block_write", "sync_answer"} => ip \in rules'
                    /\ req'[q].at = "unblock_answer" => ip \notin rules'
               /\ ip = Ip(q)' /\ req'[q].at = "block_finish" =>
                    row[ip] = "active" /\ (flag[ip] => ip \in rules')
    BY <1>4, <1>8, <2>1 DEF WorkStands, At, Ip
  <2> QED BY <1>3, <2>4, <2>5 DEF WorkStands, At
<1>11. AgreeOrHalfDone'
  <2> SUFFICES ASSUME NEW ip \in IPs \ tainted' PROVE Agrees(ip)' \/ HalfDone(ip)'
    BY DEF AgreeOrHalfDone
  <2>1. ip \notin tainted /\ (ip = Ip(r) /\ result # "ok" => UNCHANGED rules)
    BY <1>2
  <2>2. HalfDone(ip) => HalfDone(ip)'
    BY <1>1, <1>4 DEF HalfDone, Ip
  <2>3. CASE ip # Ip(r) \/ UNCHANGED rules
    BY <1>3, <1>8, <2>1, <2>2, <2>3 DEF AgreeOrHalfDone, Agrees
  <2>4. CASE ip = Ip(r) /\ result = "ok" /\ req[r].at # "sync"
    BY <1>4, <1>5, <2>4 DEF HalfDone, Ip
  <2>5. CASE ip = Ip(r) /\ result = "ok" /\ req[r].at = "sync"
    <3>1. ip \in solo[r]
      BY <1>7, <2>1, <2>5 DEF SoloIsHeld
    <3>2. row[ip] = "active" /\ ip \in rules'
      BY <1>2, <2>5, <3>1 DEF WorkStands, Syncing, Apply, At
    <3> QED BY <1>3, <3>2 DEF Agrees
  <2> QED BY <2>1, <2>3, <2>4, <2>5
<1> QED BY <1>9, <1>10, <1>11 DEF ListFacts
(* An address of a request that is not idle.                               *)
LEMMA Mine ==
  ASSUME ListInvariant, NEW r \in Requests, ~At(r, "idle")
  PROVE  /\ Ip(r) \in IPs /\ Ip(r) \in Held(r)
         /\ Ip(r) \notin tainted => Ip(r) \in solo[r]
         /\ \A q \in Requests \ {r} :
              /\ Ip(r) \notin solo[q]
              /\ Ip(r) \in solo[r] => Ip(r) \notin Held(q)
         /\ Ip(r) \notin tainted /\ HalfDone(Ip(r)) =>
              req[r].result = "ok" /\ req[r].at \in {"block_answer", "block_write", "unblock_answer"}
<1>1. Ip(r) \in IPs /\ Ip(r) \in Held(r)
  BY StateShape DEF ListInvariant, At
<1>2. Ip(r) \notin tainted => Ip(r) \in solo[r]
  BY <1>1 DEF ListInvariant, SoloIsHeld
<1>3. \A q \in Requests \ {r} :
        Ip(r) \notin solo[q] /\ (Ip(r) \in solo[r] => Ip(r) \notin Held(q))
  BY <1>1 DEF ListInvariant, SoloIsHeld
<1>4. \A q \in Requests \ {r} : ~At(q, "idle") => Ip(q) \in Held(q)
  BY DEF Held
<1>5. ASSUME Ip(r) \notin tainted, HalfDone(Ip(r))
      PROVE  req[r].result = "ok" /\ req[r].at \in {"block_answer", "block_write", "unblock_answer"}
  <2>1. PICK q \in Requests :
          /\ Ip(q) = Ip(r) /\ req[q].result = "ok"
          /\ req[q].at \in {"block_answer", "block_write", "unblock_answer"}
    BY <1>5 DEF HalfDone
  <2>2. q = r
    BY <1>2, <1>3, <1>4, <1>5, <2>1 DEF At
  <2> QED BY <2>1, <2>2
<1> QED BY <1>1, <1>2, <1>3, <1>5

(* A request ends having changed only the row, the flag and the incidents  *)
(* of its own address, which is left tainted or in agreement.              *)
LEMMA FinishKeeps ==
  ASSUME ListInvariant, NEW r \in Requests, ~At(r, "idle"), End(r),
         Taint(r) \/ Settle(r),
         \A ip \in solo[r] : ip = Ip(r) => ip \in tainted' \/ Agrees(ip)',
         \A ip \in IPs \ {Ip(r)} :
           row'[ip] = row[ip] /\ flag'[ip] = flag[ip] /\ (ip \in incidents' <=> ip \in incidents),
         UNCHANGED rules
  PROVE  ListFacts'
<1> USE DEF ListInvariant, TypeOK
<1>1. /\ req'[r] = Idle /\ Held(r)' = {}
      /\ \A q \in Requests \ {r} : req'[q] = req[q] /\ Held(q)' = Held(q)
  BY Ended
<1>2. /\ Ip(r) \in IPs
      /\ Ip(r) \notin tainted => Ip(r) \in solo[r]
      /\ \A q \in Requests \ {r} :
           Ip(r) \notin solo[q] /\ (Ip(r) \in solo[r] => Ip(r) \notin Held(q))
  BY Mine
<1>3. /\ solo' = [solo EXCEPT ![r] = @ \ Held(r)]
      /\ \A ip \in IPs \ {Ip(r)} : ip \in tainted' <=> ip \in tainted
      /\ Ip(r) \notin tainted' => Ip(r) \in solo[r]
  BY <1>2 DEF Taint, Settle, Clean, Drop
<1>4. solo'[r] = {} /\ \A q \in Requests \ {r} : solo'[q] = solo[q]
  BY <1>3 DEF SoloIsHeld
<1>5. SoloIsHeld'
  <2>1. ASSUME NEW q \in Requests \ {r} PROVE Held(q) \subseteq solo[q] \cup tainted'
    <3>1. Held(q) \subseteq IPs
      BY StateShape DEF Held, At
    <3> QED BY <1>2, <1>3, <3>1 DEF SoloIsHeld
  <2> QED BY <1>1, <1>4, <2>1 DEF SoloIsHeld, Ip, Idle
<1>6. WorkStands'
  <2>1. ASSUME NEW q \in Requests \ {r}, NEW ip \in solo[q]
        PROVE  ip \in IPs \ {Ip(r)}
    BY <1>2, <2>1
  <2> QED BY <1>1, <1>4, <2>1 DEF WorkStands, At, Ip
<1>7. AgreeOrHalfDone'
  <2> SUFFICES ASSUME NEW ip \in IPs \ tainted' PROVE Agrees(ip)' \/ HalfDone(ip)'
    BY DEF AgreeOrHalfDone
  <2>1. CASE ip = Ip(r)
    BY <1>3, <2>1
  <2>2. CASE ip # Ip(r)
    <3>1. HalfDone(ip) => HalfDone(ip)'
      BY <1>1, <2>2 DEF HalfDone, Ip
    <3> QED BY <1>3, <2>2, <3>1 DEF AgreeOrHalfDone, Agrees
  <2> QED BY <2>1, <2>2
<1> QED BY <1>5, <1>6, <1>7 DEF ListFacts

(* A sync goes on, or ends, having changed only the flag of its address.   *)
LEMMA SyncKeeps ==
  ASSUME ListInvariant, NEW r \in Requests, At(r, "sync_answer"), SyncOn(r, req[r].todo),
         \/ UNCHANGED tainted
         \/ Clean(r),
         \A ip \in solo[r] : ip = Ip(r) => ip \in tainted' \/ Agrees(ip)',
         \A ip \in IPs \ {Ip(r)} : flag'[ip] = flag[ip],
         UNCHANGED <<row, incidents, rules>>
  PROVE  ListFacts'
<1> USE DEF ListInvariant, TypeOK
<1>0. ~At(r, "idle")
  BY DEF At
<1>1. /\ Ip(r) \in IPs
      /\ Ip(r) \notin tainted => Ip(r) \in solo[r]
      /\ \A q \in Requests \ {r} :
           Ip(r) \notin solo[q] /\ (Ip(r) \in solo[r] => Ip(r) \notin Held(q))
  BY <1>0, Mine
<1>2. Held(r) = {Ip(r)} \cup req[r].todo /\ Ip(r) \notin req[r].todo /\ req[r].todo \subseteq IPs
  BY <1>0, StateShape DEF SoloIsHeld, At
<1>3. /\ \A q \in Requests \ {r} : req'[q] = req[q] /\ Held(q)' = Held(q) /\ solo'[q] = solo[q]
      /\ \/ req'[r] = Idle /\ Held(r)' = {} /\ solo'[r] = {}
         \/ /\ req'[r].at = "sync" /\ req'[r].ip \notin req'[r].todo
            /\ Held(r)' = req[r].todo /\ solo'[r] = solo[r] \ {Ip(r)}
  <2>1. CASE End(r) /\ Drop(r, Held(r))
    <3>1. solo'[r] = {}
      BY <2>1 DEF SoloIsHeld, Drop
    <3> QED BY <2>1, <3>1, Ended DEF Drop
  <2>2. ASSUME NEW ip \in req[r].todo, Goto(r, SyncAt(ip, req[r].todo)), Drop(r, {Ip(r)})
        PROVE  <1>3!1 /\ req'[r].at = "sync" /\ req'[r].ip \notin req'[r].todo
               /\ Held(r)' = req[r].todo /\ solo'[r] = solo[r] \ {Ip(r)}
    <3>1. req'[r] = SyncAt(ip, req[r].todo) /\ \A q \in Requests \ {r} : req'[q] = req[q]
      BY <2>2 DEF Goto
    <3>2. Held(r)' = req[r].todo /\ \A q \in Requests \ {r} : Held(q)' = Held(q)
      <4>1. req'[r].at # "idle" /\ {req'[r].ip} \cup req'[r].todo = req[r].todo
        BY <2>2, <3>1 DEF SyncAt
      <4> QED BY <3>1, <4>1 DEF Held, At, Ip
    <3>3. solo' = [solo EXCEPT ![r] = @ \ {Ip(r)}]
      BY <2>2 DEF Drop
    <3> QED BY <3>1, <3>2, <3>3 DEF SyncAt
  <2> QED BY <2>1, <2>2 DEF SyncOn
<1>4. /\ \A ip \in IPs \ {Ip(r)} : ip \in tainted' <=> ip \in tainted
      /\ Ip(r) \notin tainted' => Ip(r) \in solo[r]
  BY <1>1 DEF Clean
<1>5. SoloIsHeld'
  <2>1. ASSUME NEW q \in Requests \ {r} PROVE Held(q) \subseteq solo[q] \cup tainted'
    <3>1. Held(q) \subseteq IPs
      BY StateShape DEF Held, At
    <3> QED BY <1>1, <1>4, <3>1 DEF SoloIsHeld
  <2>2. req[r].todo \subseteq (solo[r] \ {Ip(r)}) \cup tainted' /\ solo[r] \ {Ip(r)} \subseteq req[r].todo
    BY <1>2, <1>4 DEF SoloIsHeld
  <2> QED BY <1>2, <1>3, <2>1, <2>2 DEF SoloIsHeld, Ip, Idle
<1>6. WorkStands'
  <2>1. ASSUME NEW q \in Requests \ {r}, NEW ip \in solo[q]
        PROVE  ip \in IPs \ {Ip(r)}
    BY <1>1, <2>1
  <2>2. \A ip \in solo'[r] : row[ip] = "active"
    BY <1>3 DEF WorkStands, At, Syncing
  <2>3. solo'[r] # {} => req'[r].at = "sync"
    BY <1>3
  <2> QED BY <1>3, <2>1, <2>2, <2>3 DEF WorkStands, At, Ip
<1>7. AgreeOrHalfDone'
  <2> SUFFICES ASSUME NEW ip \in IPs \ tainted' PROVE Agrees(ip)' \/ HalfDone(ip)'
    BY DEF AgreeOrHalfDone
  <2>1. CASE ip = Ip(r)
    BY <1>4, <2>1
  <2>2. CASE ip # Ip(r)
    <3>1. HalfDone(ip) => HalfDone(ip)'
      BY <1>3, <2>2 DEF HalfDone, Ip, At
    <3> QED BY <1>4, <2>2, <3>1 DEF AgreeOrHalfDone, Agrees
  <2> QED BY <2>1, <2>2
<1> QED BY <1>5, <1>6, <1>7 DEF ListFacts

(* The row of a block is written: its rule, if any, was added before.      *)
LEMMA WriteKeeps ==
  ASSUME ListInvariant, NEW r \in Requests, BlockWrite(r)
  PROVE  ListFacts'
<1> USE DEF ListInvariant, TypeOK
<1>0. At(r, "block_write") /\ ~At(r, "idle")
  BY DEF BlockWrite, At
<1>1. /\ Ip(r) \in IPs
      /\ Ip(r) \notin tainted => Ip(r) \in solo[r]
      /\ \A q \in Requests \ {r} : Ip(r) \notin solo[q]
  BY <1>0, Mine
<1>2. /\ req'[r].at = "block_finish" /\ \A q \in Requests \ {r} : req'[q] = req[q]
      /\ req'[r].ip = req[r].ip /\ req'[r].todo = req[r].todo
  BY <1>0 DEF BlockWrite, Step, Goto, RequestStates, Idle, At, OneAddress, Syncing
<1>3. \A q \in Requests : Held(q)' = Held(q) /\ Ip(q)' = Ip(q) /\ (req[q].todo)' = req[q].todo
  BY <1>0, <1>2 DEF Held, At, Ip
<1>4. /\ row'[Ip(r)] = "active" /\ flag'[Ip(r)] = (req[r].result = "ok")
      /\ \A ip \in IPs \ {Ip(r)} : row'[ip] = row[ip] /\ flag'[ip] = flag[ip]
      /\ UNCHANGED <<incidents, rules, tainted, solo>>
  BY <1>1 DEF BlockWrite, ghostVars
<1>5. Ip(r) \in solo[r] /\ flag'[Ip(r)] => Ip(r) \in rules
  BY <1>0, <1>4 DEF WorkStands, At
<1>6. SoloIsHeld'
  BY <1>3, <1>4 DEF SoloIsHeld
<1>7. WorkStands'
  <2>1. ASSUME NEW q \in Requests \ {r}, NEW ip \in solo[q]
        PROVE  ip \in IPs \ {Ip(r)}
    BY <1>1, <2>1
  <2>2. \A ip \in solo[r] : ip = Ip(r) => row'[ip] = "active" /\ (flag'[ip] => ip \in rules)
    BY <1>4, <1>5
  <2> QED BY <1>2, <1>3, <1>4, <2>1, <2>2 DEF WorkStands, At, Ip, Syncing
<1>8. AgreeOrHalfDone'
  <2> SUFFICES ASSUME NEW ip \in IPs \ tainted PROVE Agrees(ip)' \/ HalfDone(ip)'
    BY <1>4 DEF AgreeOrHalfDone
  <2>1. CASE ip = Ip(r)
    BY <1>1, <1>4, <1>5, <2>1 DEF Agrees
  <2>2. CASE ip # Ip(r)
    <3>1. HalfDone(ip) => HalfDone(ip)'
      BY <1>2, <2>2 DEF HalfDone, Ip
    <3> QED BY <1>4, <2>2, <3>1 DEF AgreeOrHalfDone, Agrees
  <2> QED BY <2>1, <2>2
<1> QED BY <1>6, <1>7, <1>8 DEF ListFacts
(* A sync takes every active address.                                      *)
LEMMA SyncStartKeeps ==
  ASSUME ListInvariant, NEW r \in Requests, SyncStart(r)
  PROVE  ListFacts'
<1> USE DEF ListInvariant, TypeOK
<1>1. PICK ip \in Active : Goto(r, SyncAt(ip, Active))
  BY DEF SyncStart
<1>2. /\ At(r, "idle") /\ Take(r, Active) /\ Active \subseteq IPs
      /\ UNCHANGED <<row, flag, incidents, rules>>
  BY DEF SyncStart, Active, listVars
<1>3. /\ req'[r].at = "sync" /\ req'[r].ip = ip /\ req'[r].todo = Active \ {ip}
      /\ \A q \in Requests \ {r} : req'[q] = req[q]
  BY <1>1 DEF Goto, SyncAt
<1>4. /\ Held(r) = {} /\ Held(r)' = Active
      /\ \A q \in Requests \ {r} : Held(q)' = Held(q)
  BY <1>1, <1>2, <1>3 DEF Held, At, Ip
<1>5. SoloIsHeld'
  BY <1>2, <1>3, <1>4 DEF SoloIsHeld, Take, HeldElse, Ip
<1>6. WorkStands'
  <2>1. \A other \in solo'[r] : row[other] = "active"
    BY <1>2 DEF Take, Active
  <2>2. \A q \in Requests \ {r} : solo'[q] \subseteq solo[q]
    BY <1>2 DEF Take
  <2> QED BY <1>2, <1>3, <2>1, <2>2 DEF WorkStands, At, Ip
<1>7. AgreeOrHalfDone'
  <2>1. \A other \in IPs : HalfDone(other) => HalfDone(other)'
    BY <1>2, <1>3 DEF HalfDone, At, Ip
  <2>2. tainted \subseteq tainted'
    BY <1>2 DEF Take
  <2> QED BY <1>2, <2>1, <2>2 DEF AgreeOrHalfDone, Agrees
<1> QED BY <1>5, <1>6, <1>7 DEF ListFacts

LEMMA ListStep == ListInvariant /\ [Next]_vars => ListFacts'
<1> SUFFICES ASSUME ListInvariant, [Next]_vars PROVE ListFacts'
  OBVIOUS
<1>1. ASSUME NEW r \in Requests, SshOk(r) \/ SshFails(r) PROVE ListFacts'
  BY <1>1, SshKeeps
<1>2. ASSUME NEW r \in Requests, NEW ip \in IPs, BlockStart(r, ip) \/ UnblockStart(r, ip)
      PROVE  ListFacts'
  <2>1. PICK place \in {"block", "block_write", "unblock", "refused"} :
          Goto(r, [at |-> place, ip |-> ip, todo |-> {}, result |-> "none"])
    <3>1. CASE BlockStart(r, ip)
      BY <3>1 DEF BlockStart
    <3>2. CASE UnblockStart(r, ip)
      BY <3>2 DEF UnblockStart
    <3> QED BY <1>2, <3>1, <3>2
  <2>2. At(r, "idle") /\ Take(r, {ip}) /\ UNCHANGED <<row, flag, incidents, rules>>
    <3>1. CASE BlockStart(r, ip)
      BY <3>1 DEF BlockStart, listVars
    <3>2. CASE UnblockStart(r, ip)
      BY <3>2 DEF UnblockStart, listVars
    <3> QED BY <1>2, <3>1, <3>2
  <2> DEFINE state == [at |-> place, ip |-> ip, todo |-> {}, result |-> "none"]
  <2>3. /\ state \in RequestStates /\ state.at \in OneAddress \ {"block_finish"}
        /\ state.result = "none" /\ state.ip = ip
    BY <2>1, MakeState DEF OneAddress, Results
  <2> HIDE DEF state
  <2> QED BY <2>1, <2>2, <2>3, TakeKeeps DEF state
<1>3. ASSUME NEW r \in Requests, BlockAnswer(r) PROVE ListFacts'
  <2>1. At(r, "block_answer") /\ ~At(r, "idle") /\ UNCHANGED <<row, flag, incidents, rules>>
    BY <1>3 DEF BlockAnswer, At, listVars
  <2>2. CASE Step(r, "block_write") /\ UNCHANGED ghostVars
    BY <2>1, <2>2, StepKeeps
  <2>3. CASE req[r].result # "ok" /\ End(r) /\ GiveUp(r)
    BY <2>1, <2>3, EndKeeps
  <2> QED BY <1>3, <2>2, <2>3 DEF BlockAnswer
<1>4. ASSUME NEW r \in Requests, BlockWrite(r) PROVE ListFacts'
  BY <1>4, WriteKeeps
<1>5. ASSUME NEW r \in Requests, BlockWriteFails(r) PROVE ListFacts'
  <2>1. ~At(r, "idle") /\ End(r) /\ UNCHANGED <<row, flag, incidents, rules>>
    BY <1>5 DEF BlockWriteFails, At, listVars
  <2>2. Taint(r) \/ (GiveUp(r) /\ req[r].result # "ok")
    BY <1>5 DEF BlockWriteFails
  <2> QED BY <2>1, <2>2, EndKeeps
<1>6. ASSUME NEW r \in Requests, BlockFinish(r) PROVE ListFacts'
  <2>1. /\ At(r, "block_finish") /\ ~At(r, "idle") /\ End(r) /\ Settle(r)
        /\ UNCHANGED <<row, flag, rules>>
    BY <1>6 DEF BlockFinish, At
  <2>2. \A ip \in IPs \ {Ip(r)} : ip \in incidents' <=> ip \in incidents
    BY <1>6 DEF BlockFinish
  <2>3. \A ip \in solo[r] : ip = Ip(r) => Agrees(ip)'
    BY <2>1 DEF ListInvariant, WorkStands, Agrees
  <2> QED BY <2>1, <2>2, <2>3, FinishKeeps
<1>7. ASSUME NEW r \in Requests, NEW all \in BOOLEAN, UnblockOk(r, all) PROVE ListFacts'
  <2>1. /\ At(r, "unblock_answer") /\ ~At(r, "idle") /\ req[r].result = "ok"
        /\ End(r) /\ CloseRow(Ip(r)) /\ UNCHANGED <<flag, rules>>
        /\ incidents' = IF all THEN incidents \ {Ip(r)} ELSE incidents
        /\ IF all THEN Settle(r) ELSE Taint(r)
    BY <1>7 DEF UnblockOk, At
  <2>2. \A ip \in IPs \ {Ip(r)} :
          row'[ip] = row[ip] /\ flag'[ip] = flag[ip] /\ (ip \in incidents' <=> ip \in incidents)
    BY <2>1 DEF CloseRow, ListInvariant, TypeOK
  <2>3. \A ip \in solo[r] : ip = Ip(r) => ip \in tainted' \/ Agrees(ip)'
    <3> SUFFICES ASSUME NEW ip \in solo[r], ip = Ip(r) PROVE ip \in tainted' \/ Agrees(ip)'
      OBVIOUS
    <3>1. ip \in IPs
      BY <2>1, Mine
    <3>2. row'[ip] # "active"
      BY <2>1, <3>1 DEF CloseRow, ListInvariant, TypeOK
    <3>3. ip \notin rules
      BY <2>1 DEF ListInvariant, WorkStands
    <3>4. CASE all
      BY <2>1, <3>2, <3>3, <3>4 DEF Agrees
    <3>5. CASE ~all
      BY <2>1, <3>5 DEF Taint
    <3> QED BY <3>4, <3>5
  <2>4. Taint(r) \/ Settle(r)
    BY <2>1
  <2> QED BY <2>1, <2>2, <2>3, <2>4, FinishKeeps
<1>8. ASSUME NEW r \in Requests, UnblockWriteFails(r) PROVE ListFacts'
  <2>1. ~At(r, "idle") /\ End(r) /\ Taint(r) /\ UNCHANGED <<row, flag, incidents, rules>>
    BY <1>8 DEF UnblockWriteFails, At, listVars
  <2> QED BY <2>1, EndKeeps
<1>9. ASSUME NEW r \in Requests, UnblockRefused(r) PROVE ListFacts'
  <2>1. /\ At(r, "unblock_answer") /\ req[r].result # "ok" /\ Step(r, "refused")
        /\ UNCHANGED <<row, flag, incidents, rules, ghostVars>>
    BY <1>9 DEF UnblockRefused, listVars
  <2> QED BY <2>1, StepKeeps
<1>10. ASSUME NEW r \in Requests, ReturnRefusal(r) PROVE ListFacts'
  <2>1. /\ At(r, "refused") /\ ~At(r, "idle") /\ End(r) /\ GiveUp(r)
        /\ UNCHANGED <<row, flag, incidents, rules>>
    BY <1>10 DEF ReturnRefusal, At, listVars
  <2> QED BY <2>1, EndKeeps
<1>11. ASSUME NEW r \in Requests, SyncStart(r) PROVE ListFacts'
  BY <1>11, SyncStartKeeps
<1>12. ASSUME NEW r \in Requests, NEW unsaved \in MayFail, SyncOk(r, unsaved) PROVE ListFacts'
  <2>1. /\ At(r, "sync_answer") /\ ~At(r, "idle") /\ req[r].result = "ok"
        /\ SyncOn(r, req[r].todo) /\ UNCHANGED <<row, incidents, rules>>
        /\ UNCHANGED flag \/ SetFlag(Ip(r), TRUE)
        /\ UNCHANGED tainted \/ Clean(r)
    BY <1>12 DEF SyncOk, At
  <2>2. \A ip \in IPs \ {Ip(r)} : flag'[ip] = flag[ip]
    BY <2>1 DEF SetFlag, ListInvariant, TypeOK
  <2>3. \A ip \in solo[r] : ip = Ip(r) => row[ip] = "active" /\ ip \in rules
    BY <2>1 DEF ListInvariant, WorkStands, At, Syncing
  <2>4. \A ip \in solo[r] : ip = Ip(r) => Agrees(ip)'
    BY <2>1, <2>3 DEF Agrees
  <2> QED BY <2>1, <2>2, <2>4, SyncKeeps
<1>13. ASSUME NEW r \in Requests, NEW unsaved \in MayFail, SyncFails(r, unsaved) PROVE ListFacts'
  <2>1. /\ At(r, "sync_answer") /\ ~At(r, "idle")
        /\ SyncOn(r, req[r].todo) /\ UNCHANGED <<row, incidents, rules, tainted>>
        /\ UNCHANGED flag \/ SetFlag(Ip(r), FALSE)
    BY <1>13 DEF SyncFails, At
  <2>2. \A ip \in IPs \ {Ip(r)} : flag'[ip] = flag[ip]
    BY <2>1 DEF SetFlag, ListInvariant, TypeOK
  <2>3. \A ip \in solo[r] : ip = Ip(r) => ip \in tainted' \/ Agrees(ip)'
    <3> SUFFICES ASSUME NEW ip \in solo[r], ip = Ip(r) PROVE ip \in tainted' \/ Agrees(ip)'
      OBVIOUS
    <3>1. ip \in IPs /\ row[ip] = "active"
      BY <2>1, Mine DEF ListInvariant, WorkStands, At, Syncing
    <3>2. CASE UNCHANGED flag
      <4>1. CASE ip \in tainted
        BY <2>1, <4>1
      <4>2. CASE ip \notin tainted
        <5>1. ~HalfDone(ip)
          BY <2>1, <4>2, Mine DEF At
        <5> QED BY <2>1, <3>1, <3>2, <4>2, <5>1 DEF ListInvariant, AgreeOrHalfDone, Agrees
      <4> QED BY <4>1, <4>2
    <3>3. CASE SetFlag(ip, FALSE)
      <4>1. flag'[ip] = FALSE
        BY <3>1, <3>3 DEF SetFlag, ListInvariant, TypeOK
      <4> QED BY <2>1, <3>1, <4>1 DEF Agrees
    <3> QED BY <2>1, <3>2, <3>3
  <2> QED BY <2>1, <2>2, <2>3, SyncKeeps
<1>14. ASSUME NEW r \in Requests, SyncBreaks(r) PROVE ListFacts'
  <2>1. /\ req[r].result # "ok" /\ ~At(r, "idle") /\ End(r) /\ GiveUp(r)
        /\ UNCHANGED <<row, flag, incidents, rules>>
    BY <1>14 DEF SyncBreaks, At, listVars
  <2> QED BY <2>1, EndKeeps
<1>15. ASSUME UNCHANGED <<row, flag, rules, req, ghostVars>>, incidents' \subseteq incidents
       PROVE  ListFacts'
  BY <1>15 DEF ListInvariant, ListFacts, SoloIsHeld, WorkStands, AgreeOrHalfDone, HalfDone, Agrees,
       Held, At, Ip, ghostVars
<1>16. ASSUME \/ UnreachableExpires \/ FailCountExpires \/ ResetCircuit \/ Configure
              \/ \E ip \in IPs : CloseIncident(ip)
              \/ UNCHANGED vars
       PROVE  ListFacts'
  BY <1>15, <1>16 DEF UnreachableExpires, FailCountExpires, ResetCircuit, Configure, CloseIncident,
       vars, listVars
<1>17. ASSUME RouterReboot PROVE ListFacts'
  <2>1. \A r \in Requests : Held(r) \subseteq IPs /\ Held(r)' = Held(r) /\ UNCHANGED req
    BY <1>17, StateShape DEF RouterReboot, ListInvariant, Held, At, Ip
  <2> QED BY <1>17, <2>1 DEF RouterReboot, ListInvariant, ListFacts, SoloIsHeld, WorkStands,
        AgreeOrHalfDone, Ip
<1>18. ASSUME Restart PROVE ListFacts'
  <2>1. /\ tainted' = tainted \cup Busy /\ UNCHANGED <<row, flag, incidents, rules>>
        /\ \A r \in Requests : req'[r] = Idle /\ solo'[r] = {} /\ Held(r)' = {}
    BY <1>18, IdleIsState DEF Restart, listVars, Held, At
  <2>2. SoloIsHeld' /\ WorkStands'
    BY <2>1, IdleIsState DEF SoloIsHeld, WorkStands, Ip
  <2>3. \A ip \in IPs : HalfDone(ip) => ip \in Busy
    BY DEF HalfDone, Busy, Held, At
  <2>4. AgreeOrHalfDone'
    BY <2>1, <2>3 DEF ListInvariant, AgreeOrHalfDone, Agrees
  <2> QED BY <2>2, <2>4 DEF ListFacts
<1> QED
  BY <1>1, <1>2, <1>3, <1>4, <1>5, <1>6, <1>7, <1>8, <1>9, <1>10, <1>11, <1>12, <1>13, <1>14,
     <1>16, <1>17, <1>18
  DEF Next, RequestStep, Environment
(* ListInvariant holds between any two turns of the event loop: what a     *)
(* request has for itself is as it left it, and row and rule differ only   *)
(* while a command waits for its row (execute_hunter_block, unblock_ip,    *)
(* firewall_sync).                                                         *)
THEOREM ListInvariantCorrect == Spec => []ListInvariant
<1>1. Init => ListInvariant
  BY InitType, ListInit DEF ListInvariant, ListFacts
<1>2. ListInvariant /\ [Next]_vars => ListInvariant'
  <2>1. ListInvariant /\ [Next]_vars => TypeOK' /\ ListFacts'
    BY TypeStep, ListStep DEF ListInvariant
  <2> QED BY <2>1 DEF ListInvariant, ListFacts
<1> QED BY <1>1, <1>2, PTL DEF Spec

(* Outside requests under way, an address no fault or overlap touched is   *)
(* blocked by the firewall when its row says so, and neither blocked nor   *)
(* in an open incident once its row is closed (casador_blocking.py:555).   *)
THEOREM ListMatchesFirewallCorrect == Spec => []ListMatchesFirewall
<1>1. ListInvariant => ListMatchesFirewall
  <2> SUFFICES ASSUME ListInvariant, NEW ip \in IPs \ (tainted \cup Busy) PROVE Agrees(ip)
    BY DEF ListMatchesFirewall
  <2>1. HalfDone(ip) => ip \in Busy
    BY DEF HalfDone, Busy, Held, At
  <2> QED BY <2>1 DEF ListInvariant, AgreeOrHalfDone
<1> QED BY <1>1, ListInvariantCorrect, PTL

-----------------------------------------------------------------------------
LEMMA HistoryStep == TypeOK /\ HistoryKept /\ [Next]_vars => HistoryKept'
<1> SUFFICES ASSUME TypeOK, HistoryKept, [Next]_vars PROVE HistoryKept'
  OBVIOUS
<1>1. ASSUME UNCHANGED <<row, archived, ended>> PROVE HistoryKept'
  BY <1>1 DEF HistoryKept
<1>2. ASSUME NEW r \in Requests, BlockWrite(r) PROVE HistoryKept'
  <2>1. Ip(r) \in IPs
    BY <1>2, StateShape DEF BlockWrite, At
  <2> QED BY <1>2, <2>1 DEF HistoryKept, BlockWrite, Archived, TypeOK
<1>3. ASSUME NEW r \in Requests, NEW all \in BOOLEAN, UnblockOk(r, all) PROVE HistoryKept'
  <2>1. Ip(r) \in IPs
    BY <1>3, StateShape DEF UnblockOk, At
  <2> QED BY <1>3, <2>1 DEF HistoryKept, UnblockOk, CloseRow, TypeOK
<1>4. ASSUME NEW r \in Requests, RequestStep(r) PROVE HistoryKept'
  BY <1>1, <1>2, <1>3, <1>4 DEF RequestStep, listVars, SshOk, SshFails, BlockStart, UnblockStart,
     BlockAnswer, BlockWriteFails, BlockFinish, UnblockWriteFails, UnblockRefused, ReturnRefusal,
     SyncStart, SyncOk, SyncFails, SyncBreaks
<1>5. ASSUME Environment PROVE HistoryKept'
  BY <1>1, <1>5 DEF Environment, listVars, UnreachableExpires, FailCountExpires, ResetCircuit,
     CloseIncident, Configure, RouterReboot, Restart
<1>6. ASSUME UNCHANGED vars PROVE HistoryKept'
  BY <1>1, <1>6 DEF vars, listVars
<1> QED BY <1>4, <1>5, <1>6 DEF Next

(* However blocks, unblocks and failures interleave, a block that ended is *)
(* the closed row or is in the history (_write_block_row).                 *)
THEOREM HistoryKeptCorrect == Spec => []HistoryKept
<1>1. Init => HistoryKept
  BY DEF Init, HistoryKept
<1> QED BY <1>1, HistoryStep, BlockingTypeCorrect, PTL DEF Spec
=============================================================================
