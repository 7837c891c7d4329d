------------------------- MODULE GuardianNodesProofs -------------------------
(***************************************************************************)
(* Proofs about GuardianNodes, for every set of nodes, every threshold and *)
(* every combination of calls, faults and expiring keys.                   *)
(***************************************************************************)
EXTENDS MCGuardianSums, TLAPS

LEMMA NoKeysType == NoKeys \in RedisKeys
BY GuardianAssumption, SMT DEF NoKeys, RedisKeys, Statuses, StreakCap

LEMMA CapsAreNat ==
  /\ StreakCap \in Nat \ {0} /\ Threshold \in Nat \ {0} /\ OfflinePersist \in Nat \ {0}
  /\ DegradedPersist \in Nat \ {0} /\ PreventiveMax \in Nat \ {0} /\ PreventiveTicks \in Nat
  /\ Cooldown \in Nat \ {0} /\ FailRetry \in Nat \ {0}
BY GuardianAssumption, SMT DEF StreakCap

(* The values the operations write are in the ranges of the keys.          *)
LEMMA Zeros ==
  /\ Statuses = {"unknown", "online", "degraded", "no-internet", "offline"}
  /\ 0 \in 0..Threshold /\ 0 \in 0..StreakCap /\ 0 \in 0..OfflinePersist
  /\ 0 \in 0..(PreventiveMax + 1) /\ 0 \in 0..Cooldown /\ 0 \in 0..FailRetry
  /\ Cooldown \in 0..Cooldown /\ FailRetry \in 0..FailRetry
BY CapsAreNat, SMT DEF Statuses

LEMMA RedisOpsType ==
  ASSUME TypeOK, NEW n \in Outcomes
  PROVE  RedisOps(n, redis[n]) \in RedisKeys
<1> DEFINE k == redis[n]
<1>1. k \in RedisKeys /\ snap[n] \in RedisKeys /\ n \in Nodes
  BY DEF TypeOK, Outcomes
<1>2. label[n] \in {"online", "degraded", "offline", "no-internet"}
  BY DEF TypeOK, Outcomes, Labels, Statuses
<1>2a. /\ snap[n].streak \in 0..StreakCap /\ snap[n].offlineStreak \in 0..OfflinePersist
      /\ snap[n].failures \in 0..Threshold
  BY <1>1 DEF RedisKeys
<1>3. NewStreak(n) \in 0..StreakCap
  BY <1>2a, CapsAreNat, SMT DEF NewStreak, AtMost
<1>4. NewOfflineStreak(n) \in 0..OfflinePersist
  BY <1>2a, CapsAreNat, SMT DEF NewOfflineStreak, AtMost
<1>5. NewFailures(n) \in 0..Threshold
  BY <1>2a, CapsAreNat, SMT DEF NewFailures, AtMost
<1> HIDE DEF k
<1>5a. k.status \in Statuses /\ k.failures \in 0..Threshold
       /\ k.notified \in BOOLEAN /\ k.escalated \in BOOLEAN
  BY <1>1 DEF RedisKeys
<1>6. OnlineOps(k) \in RedisKeys
  <2>1. "online" \in Statuses
    BY DEF Statuses
  <2> QED BY <1>1, <2>1, Zeros, ZenonT(60) DEF OnlineOps, RedisKeys
<1>7. DegradedOps(n, k) \in RedisKeys
  <2>1. (IF DegradedConfirmed(n) THEN "degraded" ELSE k.status) \in Statuses
    BY <1>5a DEF Statuses
  <2>2. (k.notified \/ (DegradedConfirmed(n) /\ ~blip /\ ~snap[n].notified)) \in BOOLEAN
    OBVIOUS
  <2>3. (k.escalated \/ Escalates(n)) \in BOOLEAN
    OBVIOUS
  <2> QED BY <1>1, <1>3, <2>1, <2>2, <2>3, Zeros, ZenonT(60) DEF DegradedOps, RedisKeys
<1>8. OfflineOps(n, k) \in RedisKeys
  <2>1. (IF OfflineConfirmed(n) THEN "offline" ELSE k.status) \in Statuses
    BY <1>5a DEF Statuses
  <2>2. (IF Suppressed(n) THEN k.failures ELSE NewFailures(n)) \in 0..Threshold
    BY <1>5, <1>5a
  <2> QED BY <1>1, <1>4, <2>1, <2>2, Zeros, ZenonT(60) DEF OfflineOps, RedisKeys
<1>9. NoInternetOps(n, k) \in RedisKeys
  <2>1. "no-internet" \in Statuses
    BY DEF Statuses
  <2>2. (IF Suppressed(n) THEN k.failures ELSE NewFailures(n)) \in 0..Threshold
    BY <1>5, <1>5a
  <2> QED BY <1>1, <2>1, <2>2, Zeros, ZenonT(60) DEF NoInternetOps, RedisKeys
<1> QED BY <1>2, <1>6, <1>7, <1>8, <1>9 DEF RedisOps, k

(* A key set updated one field at a time keeps its type.                   *)
LEMMA OlderType ==
  ASSUME NEW k \in RedisKeys
  PROVE  Older(k) \in RedisKeys
<1>1. AtMost(k.lastReboot + 1, Cooldown) \in 0..Cooldown
  BY CapsAreNat, SMT DEF AtMost, RedisKeys
<1>2. AtMost(k.lastAttempt + 1, FailRetry) \in 0..FailRetry
  BY CapsAreNat, SMT DEF AtMost, RedisKeys
<1> QED BY <1>1, <1>2, ZenonT(60) DEF Older, RedisKeys

LEMMA CleanedType ==
  ASSUME NEW k \in RedisKeys
  PROVE  Cleaned(k) \in RedisKeys
<1>1. k.preventiveCount \in 0..(PreventiveMax + 1) /\ k.escalated \in BOOLEAN
  BY DEF RedisKeys
<1> QED BY <1>1, NoKeysType, ZenonT(60) DEF Cleaned, RedisKeys

LEMMA Members ==
  /\ "unknown" \in Statuses /\ "online" \in Labels /\ "idle" \in Phases
  /\ Labels \ {"error"} \subseteq Statuses
BY DEF Statuses, Labels, Phases

LEMMA NewStatusType ==
  ASSUME TypeOK, NEW n \in Outcomes
  PROVE  NewStatus(n) \in Statuses
<1>1. snap[n] \in RedisKeys /\ label[n] \in Labels \ {"error"}
  BY DEF TypeOK, Outcomes
<1>2. snap[n].status \in Statuses
  BY <1>1 DEF RedisKeys
<1> QED BY <1>1, <1>2, Members DEF NewStatus

(* The cycle's variables when it is over.                                  *)
LEMMA CycleOverType ==
  ASSUME CycleOver
  PROVE  /\ phase' \in Phases /\ devices' \subseteq Nodes /\ allIps' \subseteq Nodes
         /\ snap' \in [Nodes -> RedisKeys] /\ {snapMaint', blip', wanDown'} \subseteq BOOLEAN
         /\ label' \in [Nodes -> Labels] /\ queue' \subseteq Nodes
         /\ rebooting' \in Nodes \cup {None} /\ stampAge' \in 0..Cooldown
         /\ freshBoot' \subseteq Nodes /\ freshRow' \subseteq Nodes
BY NoKeysType, Members, Zeros DEF CycleOver

LEMMA InitType == Init => TypeOK
<1> SUFFICES ASSUME Init PROVE TypeOK
  OBVIOUS
<1>1. redis \in [Nodes -> RedisKeys] /\ snap \in [Nodes -> RedisKeys]
  BY NoKeysType DEF Init
<1>2. label \in [Nodes -> Labels] /\ panel \in [Nodes -> Statuses] /\ stampAge \in 0..Cooldown
      /\ heartbeatAge \in [Nodes -> 0..Cooldown]
  BY Members, Zeros DEF Init
<1> QED BY <1>1, <1>2, Members DEF Init, TypeOK

THEOREM TypeStep == TypeOK /\ [Next]_vars => TypeOK'
<1> SUFFICES ASSUME TypeOK, [Next]_vars PROVE TypeOK'
  OBVIOUS
<1> USE DEF cycleVars, apiVars, tableVars, unchangedByApi
<1>1. ASSUME NEW f \in BOOLEAN, ReadDevices(f) PROVE TypeOK'
  BY <1>1 DEF TypeOK, ReadDevices, Phases
<1>2. ASSUME NEW f \in BOOLEAN, ReadAllIps(f) PROVE TypeOK'
  BY <1>2 DEF TypeOK, ReadAllIps, Phases
<1>3. ASSUME NEW f \in BOOLEAN, Snapshot(f) PROVE TypeOK'
  <2>1. redis' \in [Nodes -> RedisKeys]
    BY <1>3, NoKeysType DEF TypeOK, Snapshot
  <2>2. CASE CycleOver
    BY <1>3, <2>1, <2>2, CycleOverType DEF TypeOK, Snapshot
  <2>3. CASE devices # {} /\ ~CycleOver
    <3>1. snap' \in [Nodes -> RedisKeys]
      BY <1>3, <2>3, NoKeysType DEF TypeOK, Snapshot
    <3> QED BY <1>3, <2>1, <2>3, <3>1 DEF TypeOK, Snapshot, Phases
  <2> QED BY <1>3, <2>2, <2>3 DEF Snapshot
<1>4. ASSUME Build PROVE TypeOK'
  BY <1>4, CapsAreNat DEF TypeOK, Build, Phases
<1>5. ASSUME PersistEvents PROVE TypeOK'
  <2>1. history' \in [Nodes -> Statuses \cup {"none"}]
    BY <1>5, NewStatusType DEF TypeOK, PersistEvents, HasEvent
  <2> QED BY <1>5, <2>1 DEF TypeOK, PersistEvents, Phases
<1>6. ASSUME NEW f \in BOOLEAN, UpdateInfra(f) PROVE TypeOK'
  BY <1>6 DEF TypeOK, UpdateInfra, Phases, TickStatus, NewStatus, RedisKeys, Labels, Statuses
<1>7. ASSUME NEW f \in BOOLEAN, SyncPanel(f) PROVE TypeOK'
  BY <1>7 DEF TypeOK, SyncPanel, Phases
<1>8. ASSUME PersistPipeline PROVE TypeOK'
  BY <1>8, RedisOpsType DEF TypeOK, PersistPipeline, Piped, Phases, Outcomes, Decided
<1>9. ASSUME NEW n \in Nodes, StartReboot(n) PROVE TypeOK'
  BY <1>9, CapsAreNat DEF TypeOK, StartReboot, Phases, AtMost, RedisKeys
<1>10. ASSUME NEW n \in Nodes, NEW ok \in BOOLEAN, FinishReboot(n, ok) PROVE TypeOK'
  <2>1. AtMost(stampAge, FailRetry) \in 0..FailRetry /\ stampAge \in 0..Cooldown
    BY CapsAreNat DEF TypeOK, AtMost
  <2>2. redis' \in [Nodes -> RedisKeys]
    <3>1. PICK written \in BOOLEAN :
            redis' = [redis EXCEPT
              ![n].lastReboot  = IF ok THEN stampAge ELSE @,
              ![n].lastAttempt = IF ~written THEN @ ELSE IF ok THEN FailRetry
                                 ELSE AtMost(stampAge, FailRetry)]
      BY <1>10 DEF FinishReboot
    <3> DEFINE k == [redis[n] EXCEPT
                 !.lastReboot  = IF ok THEN stampAge ELSE @,
                 !.lastAttempt = IF ~written THEN @ ELSE IF ok THEN FailRetry
                                 ELSE AtMost(stampAge, FailRetry)]
    <3>2. redis[n] \in RedisKeys /\ redis[n].lastReboot \in 0..Cooldown
          /\ redis[n].lastAttempt \in 0..FailRetry
      BY DEF TypeOK, RedisKeys
    <3>3. (IF ok THEN stampAge ELSE redis[n].lastReboot) \in 0..Cooldown
      BY <2>1, <3>2
    <3>4. (IF ~written THEN redis[n].lastAttempt
             ELSE IF ok THEN FailRetry ELSE AtMost(stampAge, FailRetry)) \in 0..FailRetry
      BY <2>1, <3>2, Zeros
    <3>5. k \in RedisKeys
      BY <3>2, <3>3, <3>4, ZenonT(60) DEF RedisKeys
    <3>6. redis' = [redis EXCEPT ![n] = k]
      BY <3>1, ZenonT(60) DEF TypeOK
    <3> QED BY <3>5, <3>6 DEF TypeOK
  <2> QED BY <1>10, <2>2 DEF TypeOK, FinishReboot
<1>11. ASSUME EndCycle PROVE TypeOK'
  BY <1>11, CycleOverType DEF TypeOK, EndCycle
<1>12. ASSUME PersistFails PROVE TypeOK'
  <2>1. redis' \in [Nodes -> RedisKeys]
    <3>1. Piped \in [Nodes -> RedisKeys]
      BY RedisOpsType DEF TypeOK, Piped
    <3> QED BY <1>12, <3>1 DEF TypeOK, PersistFails
  <2> QED BY <1>12, <2>1, CycleOverType DEF TypeOK, PersistFails
<1>13. ASSUME Restart PROVE TypeOK'
  <2>1. heartbeatAge' \in [Nodes -> 0..Cooldown]
    BY <1>13, Zeros DEF Restart
  <2> QED BY <1>13, <2>1, CycleOverType DEF TypeOK, Restart
<1>14. ASSUME NEW n \in Nodes, HeartbeatOk(n) PROVE TypeOK'
  <2>1. PICK withData \in BOOLEAN :
          redis' = [redis EXCEPT ![n] = [redis[n] EXCEPT !.failures = 0, !.data = @ \/ withData]]
    BY <1>14 DEF HeartbeatOk, SetKeys
  <2>2. redis[n] \in RedisKeys /\ (redis[n].data \/ withData) \in BOOLEAN
    BY DEF TypeOK, RedisKeys
  <2>3. [redis[n] EXCEPT !.failures = 0, !.data = @ \/ withData] \in RedisKeys
    BY <2>2, Zeros, ZenonT(60) DEF RedisKeys
  <2>4. redis' \in [Nodes -> RedisKeys]
    BY <2>1, <2>3 DEF TypeOK
  <2> QED BY <1>14, <2>4 DEF TypeOK, HeartbeatOk
<1>15. ASSUME NEW n \in Nodes, HeartbeatFails(n) PROVE TypeOK'
  <2> DEFINE count == AtMost(redis[n].failures + 1, Threshold)
  <2>1. PICK withData \in BOOLEAN :
          redis' = [redis EXCEPT ![n] = [redis[n] EXCEPT !.failures = count, !.data = @ \/ withData]]
    BY <1>15 DEF HeartbeatFails, SetKeys
  <2>2. redis[n] \in RedisKeys /\ (redis[n].data \/ withData) \in BOOLEAN
    BY DEF TypeOK, RedisKeys
  <2>3. count \in 0..Threshold
    BY <2>2, CapsAreNat, SMT DEF AtMost, RedisKeys
  <2> HIDE DEF count
  <2>4. [redis[n] EXCEPT !.failures = count, !.data = @ \/ withData] \in RedisKeys
    BY <2>2, <2>3, ZenonT(60) DEF RedisKeys
  <2>5. redis' \in [Nodes -> RedisKeys]
    BY <2>1, <2>4 DEF TypeOK
  <2> QED BY <1>15, <2>5 DEF TypeOK, HeartbeatFails
<1>16. ASSUME NEW n \in Nodes, NEW ok \in BOOLEAN, HeartbeatReboot(n, ok) PROVE TypeOK'
  <2> DEFINE k == [redis[n] EXCEPT
               !.lastReboot  = IF ok THEN heartbeatAge[n] ELSE @,
               !.lastAttempt = IF ok THEN FailRetry ELSE AtMost(heartbeatAge[n], FailRetry)]
  <2>1. redis[n] \in RedisKeys /\ redis[n].lastReboot \in 0..Cooldown /\ heartbeatAge[n] \in 0..Cooldown
    BY DEF TypeOK, RedisKeys
  <2>2. (IF ok THEN heartbeatAge[n] ELSE redis[n].lastReboot) \in 0..Cooldown
    BY <2>1
  <2>3. (IF ok THEN FailRetry ELSE AtMost(heartbeatAge[n], FailRetry)) \in 0..FailRetry
    BY <2>1, CapsAreNat, SMT DEF AtMost
  <2>4. k \in RedisKeys
    BY <2>1, <2>2, <2>3, ZenonT(60) DEF RedisKeys
  <2>5. \E written \in BOOLEAN : redis' = [redis EXCEPT ![n] = IF ~written THEN redis[n] ELSE k]
    BY <1>16, ZenonT(60) DEF HeartbeatReboot, SetKeys
  <2> HIDE DEF k
  <2>6. redis' \in [Nodes -> RedisKeys]
    BY <2>1, <2>4, <2>5 DEF TypeOK
  <2>7. freshBoot' \subseteq Nodes
    BY <1>16 DEF TypeOK, HeartbeatReboot, BootRecorded
  <2>8. heartbeatAge' \in [Nodes -> 0..Cooldown]
    BY <1>16, Zeros DEF TypeOK, HeartbeatReboot
  <2> QED BY <1>16, <2>6, <2>7, <2>8 DEF TypeOK, HeartbeatReboot
<1>17. ASSUME NEW n \in Nodes, ResetFailures(n) PROVE TypeOK'
  <2>0. redis[n] \in RedisKeys
    BY DEF TypeOK
  <2>1. [redis[n] EXCEPT !.failures = 0] \in RedisKeys
    BY <2>0, Zeros, ZenonT(60) DEF RedisKeys
  <2>2. redis' \in [Nodes -> RedisKeys]
    BY <1>17, <2>1 DEF TypeOK, ResetFailures, SetKeys
  <2> QED BY <1>17, <2>2 DEF TypeOK, ResetFailures
<1>18. ASSUME NEW n \in Nodes, ManualReboot(n) PROVE TypeOK'
  BY <1>18 DEF TypeOK, ManualReboot
<1>19. ASSUME NEW n \in Nodes, NEW ok \in BOOLEAN, ManualDone(n, ok) PROVE TypeOK'
  <2>1. redis[n] \in RedisKeys
    BY DEF TypeOK
  <2>2. [redis[n] EXCEPT !.lastReboot = 0, !.failures = 0] \in RedisKeys
    BY <2>1, Zeros, ZenonT(60) DEF RedisKeys
  <2>3. redis' \in [Nodes -> RedisKeys]
    BY <1>19, <2>2 DEF TypeOK, ManualDone, SetKeys
  <2>4. freshBoot' \subseteq Nodes
    BY <1>19 DEF TypeOK, ManualDone, BootRecorded
  <2> QED BY <1>19, <2>3, <2>4 DEF TypeOK, ManualDone
<1>20. ASSUME NEW on \in BOOLEAN, SetMaintenance(on) PROVE TypeOK'
  BY <1>20 DEF TypeOK, SetMaintenance
<1>21. ASSUME NEW n \in Nodes, NEW on \in BOOLEAN, SetNodeMaintenance(n, on) PROVE TypeOK'
  <2>0. redis[n] \in RedisKeys
    BY DEF TypeOK
  <2>1. [redis[n] EXCEPT !.nodeMaint = on] \in RedisKeys
    BY <2>0, ZenonT(60) DEF RedisKeys
  <2>2. redis' \in [Nodes -> RedisKeys]
    BY <1>21, <2>1 DEF TypeOK, SetNodeMaintenance, SetKeys
  <2> QED BY <1>21, <2>2 DEF TypeOK, SetNodeMaintenance
<1>22. ASSUME NEW n \in Nodes, NEW on \in BOOLEAN, SaveDevice(n, on) PROVE TypeOK'
  BY <1>22 DEF TypeOK, SaveDevice, RowActive
<1>23. ASSUME NEW n \in Nodes, DeleteDevice(n) PROVE TypeOK'
  BY <1>23, CleanedType DEF TypeOK, DeleteDevice, SetKeys, Statuses
<1>24. ASSUME NEW n \in Nodes, Deactivate(n) PROVE TypeOK'
  BY <1>24, CleanedType DEF TypeOK, Deactivate, SetKeys
<1>25. ASSUME NEW n \in Nodes, Activate(n) PROVE TypeOK'
  BY <1>25 DEF TypeOK, Activate, RowActive
<1>26. ASSUME NEW n \in Nodes, Promote(n) PROVE TypeOK'
  BY <1>26 DEF TypeOK, Promote, RowActive, Statuses
<1>27. ASSUME Tick PROVE TypeOK'
  BY <1>27, OlderType, CapsAreNat DEF TypeOK, Tick, AtMost
<1>28. ASSUME NEW n \in Nodes, Expire(n) PROVE TypeOK'
  <2>1. redis[n] \in RedisKeys
    BY DEF TypeOK
  <2> DEFINE Kept(k) == k \in RedisKeys
  <2>2. Kept([redis[n] EXCEPT !.streak = 0])
    BY <2>1, Zeros, ZenonT(60) DEF RedisKeys
  <2>3. Kept([redis[n] EXCEPT !.offlineStreak = 0])
    BY <2>1, Zeros, ZenonT(60) DEF RedisKeys
  <2>4. Kept([redis[n] EXCEPT !.notified = FALSE])
    BY <2>1, ZenonT(60) DEF RedisKeys
  <2>5. Kept([redis[n] EXCEPT !.preventiveCount = 0])
    BY <2>1, Zeros, ZenonT(60) DEF RedisKeys
  <2>6. Kept([redis[n] EXCEPT !.escalated = FALSE])
    BY <2>1, ZenonT(60) DEF RedisKeys
  <2>6a. PICK k \in RedisKeys : redis' = [redis EXCEPT ![n] = k]
    BY <1>28, <2>2, <2>3, <2>4, <2>5, <2>6, ZenonT(60) DEF Expire, SetKeys
  <2>7. redis' \in [Nodes -> RedisKeys]
    BY <2>6a DEF TypeOK
  <2> QED BY <1>28, <2>7 DEF TypeOK, Expire
<1>29. ASSUME UNCHANGED vars PROVE TypeOK'
  BY <1>29 DEF TypeOK, vars
<1> QED
  BY <1>1, <1>2, <1>3, <1>4, <1>5, <1>6, <1>7, <1>8, <1>9, <1>10, <1>11, <1>12, <1>13,
     <1>14, <1>15, <1>16, <1>17, <1>18, <1>19, <1>20, <1>21, <1>22, <1>23, <1>24, <1>25,
     <1>26, <1>27, <1>28, <1>29 DEF Next, CycleStep, ApiStep

(* Type correctness, for every instance.                                   *)
THEOREM TypeCorrect == Spec => []TypeOK
BY InitType, TypeStep, PTL DEF Spec

-----------------------------------------------------------------------------
(***************************************************************************)
(* What a step outside the cycle may do to the keys a cycle relies on: the *)
(* status goes away or stays, the count does not grow, the stamp of a      *)
(* reboot gets older unless the history variable names the node.           *)
(***************************************************************************)
KeysDrift ==
  /\ \A n \in Nodes :
       /\ redis'[n].status \in {redis[n].status, "unknown"}
       /\ redis'[n].preventiveCount \in {redis[n].preventiveCount, 0}
       /\ phase \in AfterSnapshot /\ n \notin freshBoot' =>
            redis'[n].lastReboot >= redis[n].lastReboot
  /\ phase \in AfterSnapshot => freshBoot \subseteq freshBoot'
  /\ active' \ freshRow' \subseteq active \ freshRow \/ phase \notin {"devices", "cleanup"}

LEMMA ApiDrift ==
  ASSUME TypeOK, ApiStep \/ \E n \in Nodes : Expire(n)
  PROVE  KeysDrift /\ UNCHANGED cycleVars
<1> USE DEF unchangedByApi, cycleVars, tableVars, apiVars, SetKeys, AfterSnapshot
<1>0. /\ redis \in [Nodes -> RedisKeys]
      /\ \A n \in Nodes : redis[n].lastReboot \in 0..Cooldown
      /\ \A n \in Nodes : redis[n].preventiveCount \in Nat
  BY CapsAreNat DEF TypeOK, RedisKeys
<1> DEFINE Goal == KeysDrift /\ UNCHANGED cycleVars
<1>1. ASSUME NEW on \in BOOLEAN, SetMaintenance(on) PROVE Goal
  BY <1>0, <1>1 DEF KeysDrift, SetMaintenance
<1>2. ASSUME NEW n \in Nodes, HeartbeatOk(n) PROVE Goal
  BY <1>0, <1>2 DEF KeysDrift, HeartbeatOk, RedisKeys
<1>3. ASSUME NEW n \in Nodes, HeartbeatFails(n) PROVE Goal
  BY <1>0, <1>3 DEF KeysDrift, HeartbeatFails, RedisKeys
<1>4. ASSUME NEW n \in Nodes, NEW ok \in BOOLEAN, HeartbeatReboot(n, ok) PROVE Goal
  BY <1>0, <1>4 DEF KeysDrift, HeartbeatReboot, BootRecorded, RedisKeys
<1>5. ASSUME NEW n \in Nodes, ResetFailures(n) PROVE Goal
  BY <1>0, <1>5 DEF KeysDrift, ResetFailures, RedisKeys
<1>6. ASSUME NEW n \in Nodes, ManualReboot(n) PROVE Goal
  BY <1>0, <1>6 DEF KeysDrift, ManualReboot
<1>7. ASSUME NEW n \in Nodes, NEW ok \in BOOLEAN, ManualDone(n, ok) PROVE Goal
  <2>1. CASE UNCHANGED <<redis, freshBoot>>
    BY <1>0, <1>7, <2>1 DEF KeysDrift, ManualDone
  <2>2. CASE redis' = [redis EXCEPT ![n] = [redis[n] EXCEPT !.lastReboot = 0, !.failures = 0]]
             /\ BootRecorded(n)
    <3>1. ASSUME NEW m \in Nodes
          PROVE  /\ redis'[m].status = redis[m].status
                 /\ redis'[m].preventiveCount = redis[m].preventiveCount
                 /\ m # n => redis'[m].lastReboot = redis[m].lastReboot
      BY <1>0, <2>2 DEF RedisKeys
    <3>2. phase \in AfterSnapshot => freshBoot \subseteq freshBoot' /\ n \in freshBoot'
      BY <2>2 DEF BootRecorded
    <3> QED BY <1>0, <1>7, <3>1, <3>2 DEF KeysDrift, ManualDone
  <2> QED BY <1>7, <2>1, <2>2 DEF ManualDone
<1>8. ASSUME NEW n \in Nodes, NEW on \in BOOLEAN, SetNodeMaintenance(n, on) PROVE Goal
  BY <1>0, <1>8 DEF KeysDrift, SetNodeMaintenance, RedisKeys
<1>9. ASSUME NEW n \in Nodes, NEW on \in BOOLEAN, SaveDevice(n, on) PROVE Goal
  BY <1>0, <1>9 DEF KeysDrift, SaveDevice, RowActive
<1>10. ASSUME NEW n \in Nodes, DeleteDevice(n) PROVE Goal
  BY <1>0, <1>10 DEF KeysDrift, DeleteDevice, Cleaned, NoKeys, RedisKeys
<1>11. ASSUME NEW n \in Nodes, Deactivate(n) PROVE Goal
  BY <1>0, <1>11 DEF KeysDrift, Deactivate, Cleaned, NoKeys, RedisKeys
<1>12. ASSUME NEW n \in Nodes, Activate(n) PROVE Goal
  BY <1>0, <1>12 DEF KeysDrift, Activate, RowActive
<1>13. ASSUME NEW n \in Nodes, Promote(n) PROVE Goal
  BY <1>0, <1>13 DEF KeysDrift, Promote, RowActive
<1>14. ASSUME NEW n \in Nodes, Expire(n) PROVE Goal
  BY <1>0, <1>14 DEF KeysDrift, Expire, RedisKeys
<1> HIDE DEF Goal
<1>15. Goal
  BY <1>1, <1>2, <1>3, <1>4, <1>5, <1>6, <1>7, <1>8, <1>9, <1>10, <1>11, <1>12, <1>13, <1>14
     DEF ApiStep
<1> QED BY <1>15 DEF Goal

(* The decisions of a cycle depend on its own variables only.              *)
LEMMA DecisionsFixed ==
  ASSUME UNCHANGED <<devices, snap, snapMaint, label, blip, wanDown>>
  PROVE  /\ Decided' = Decided
         /\ \A n \in Nodes : PreventiveReboot(n)' <=> PreventiveReboot(n)
BY DEF Decided, Outcomes, Skipped, PreventiveReboot, PreventiveDue, FailsafeReboot, Exhausted, CooldownOk,
       RetryOk, Suppressed, DegradedConfirmed, OfflineConfirmed, NewStreak, NewOfflineStreak,
       NewFailures

(* The pipeline leaves stamps alone and never raises a count.              *)
LEMMA PipedKeys ==
  ASSUME TypeOK, NEW n \in Nodes
  PROVE  /\ Piped[n].lastReboot = redis[n].lastReboot
         /\ Piped[n].preventiveCount \in {redis[n].preventiveCount, 0}
<1>1. redis[n] \in RedisKeys
  BY DEF TypeOK
<1>2. n \in Outcomes => label[n] \in {"online", "degraded", "offline", "no-internet"}
  BY DEF TypeOK, Outcomes, Labels, Statuses
<1>3. ASSUME n \in Outcomes
      PROVE  /\ RedisOps(n, redis[n]).lastReboot = redis[n].lastReboot
             /\ RedisOps(n, redis[n]).preventiveCount \in {redis[n].preventiveCount, 0}
  BY <1>1, <1>2, <1>3 DEF RedisOps, OnlineOps, DegradedOps, OfflineOps, NoInternetOps, RedisKeys
<1> QED BY <1>3 DEF Piped

(* A reboot is decided on the status the pipeline writes.                  *)
LEMMA PipedStatus ==
  ASSUME TypeOK, NEW n \in Decided
  PROVE  Piped[n].status \in
           (IF PreventiveReboot(n) THEN {"degraded"} ELSE {"offline", "no-internet"})
<1>1. /\ redis[n] \in RedisKeys /\ n \in Nodes /\ n \in Outcomes
      /\ PreventiveReboot(n) \/ FailsafeReboot(n)
  BY DEF TypeOK, Outcomes, Decided
<1>2. CASE PreventiveReboot(n)
  <2>1. label[n] = "degraded" /\ DegradedConfirmed(n)
    BY <1>2 DEF PreventiveReboot, PreventiveDue
  <2> QED BY <1>1, <1>2, <2>1 DEF Piped, RedisOps, DegradedOps, RedisKeys
<1>3. CASE ~PreventiveReboot(n)
  <2>1. CASE label[n] = "offline"
    <3>1. OfflineConfirmed(n)
      BY <1>1, <1>3, <2>1 DEF FailsafeReboot
    <3> QED BY <1>1, <1>3, <2>1, <3>1 DEF Piped, RedisOps, OfflineOps, RedisKeys
  <2>2. CASE label[n] = "no-internet"
    BY <1>1, <1>3, <2>2 DEF Piped, RedisOps, NoInternetOps, RedisKeys
  <2> QED BY <1>1, <1>3, <2>1, <2>2 DEF FailsafeReboot
<1> QED BY <1>2, <1>3

LEMMA InitInvariant == Init => CycleInvariant
BY CapsAreNat DEF Init, CycleInvariant, QueueIsDecided, QueueIsConfirmed, PreventiveCap,
       CountsFromSnapshot, StampsFromSnapshot, ReadsCoverActive, AfterSnapshot, NoKeys

(* Steps that end the cycle leave nothing to relate.                       *)
LEMMA CycleOverInvariant ==
  ASSUME TypeOK, CycleInvariant, CycleOver,
         \A n \in Nodes : redis'[n].preventiveCount \in {redis[n].preventiveCount, 0}
  PROVE  CycleInvariant'
<1>1. PreventiveCap'
  BY CapsAreNat DEF CycleInvariant, PreventiveCap
<1> QED BY <1>1 DEF CycleOver, CycleInvariant, QueueIsDecided, QueueIsConfirmed,
       CountsFromSnapshot, StampsFromSnapshot, ReadsCoverActive, AfterSnapshot

(* Every step preserves the invariant.                                     *)
LEMMA InvariantStep ==
  ASSUME TypeOK, TypeOK', CycleInvariant, [Next]_vars
  PROVE  CycleInvariant'
<1> USE DEF CycleInvariant, AfterSnapshot
<1>0. /\ \A n \in Nodes : /\ redis[n] \in RedisKeys /\ snap[n] \in RedisKeys
                          /\ redis[n].preventiveCount \in Nat /\ snap[n].preventiveCount \in Nat
                          /\ redis[n].lastReboot \in 0..Cooldown
                          /\ snap[n].lastReboot \in 0..Cooldown
      /\ PreventiveMax \in Nat \ {0} /\ Cooldown \in Nat /\ devices \subseteq Nodes
  BY CapsAreNat DEF TypeOK, RedisKeys
<1>1. ASSUME NEW f \in BOOLEAN, ReadDevices(f) PROVE CycleInvariant'
  <2>1. queue' = {} /\ rebooting' = None /\ phase' = "devices" /\ redis' = redis
    BY <1>1 DEF ReadDevices, QueueIsDecided
  <2>2. ReadsCoverActive'
    BY <1>1, <2>1 DEF ReadDevices, ReadsCoverActive, tableVars
  <2> QED BY <2>1, <2>2 DEF QueueIsDecided, QueueIsConfirmed, PreventiveCap, CountsFromSnapshot,
             StampsFromSnapshot
<1>2. ASSUME NEW f \in BOOLEAN, ReadAllIps(f) PROVE CycleInvariant'
  <2>1. queue' = {} /\ rebooting' = None /\ phase' = "cleanup" /\ redis' = redis
    BY <1>2 DEF ReadAllIps, QueueIsDecided
  <2>2. ReadsCoverActive'
    BY <1>2, <2>1 DEF ReadAllIps, ReadsCoverActive, tableVars, TypeOK
  <2> QED BY <2>1, <2>2 DEF QueueIsDecided, QueueIsConfirmed, PreventiveCap, CountsFromSnapshot,
             StampsFromSnapshot
<1>3. ASSUME NEW f \in BOOLEAN, Snapshot(f) PROVE CycleInvariant'
  <2>1. \A n \in Nodes : redis'[n] \in {redis[n], NoKeys}
    BY <1>3 DEF Snapshot
  <2>2. \A n \in Nodes : redis'[n].preventiveCount \in {redis[n].preventiveCount, 0}
    BY <2>1 DEF NoKeys
  <2>3. CASE CycleOver
    BY <2>2, <2>3, CycleOverInvariant
  <2>4. CASE ~CycleOver
    <3>1. queue' = {} /\ rebooting' = None /\ phase' = "probe" /\ devices' = devices
      BY <1>3, <2>4 DEF Snapshot, QueueIsDecided
    <3>2. \A n \in devices : snap'[n] = redis'[n]
      BY <1>0, <1>3, <2>4 DEF Snapshot
    <3>3. \A n \in Nodes : redis'[n].preventiveCount \in Nat /\ redis'[n].lastReboot \in Nat
      BY CapsAreNat DEF TypeOK, RedisKeys
    <3>4. PreventiveCap'
      BY <1>0, <2>2 DEF PreventiveCap
    <3>5. CountsFromSnapshot' /\ StampsFromSnapshot'
      BY <1>0, <3>1, <3>2, <3>3 DEF CountsFromSnapshot, StampsFromSnapshot
    <3> QED BY <3>1, <3>4, <3>5 DEF QueueIsDecided, QueueIsConfirmed, ReadsCoverActive
  <2> QED BY <2>3, <2>4
<1>4. ASSUME \/ Build \/ PersistEvents
             \/ \E f \in BOOLEAN : UpdateInfra(f) \/ SyncPanel(f)
      PROVE  CycleInvariant'
  <2>1. /\ queue' = {} /\ rebooting' = None
        /\ phase \in AfterSnapshot \ {"reboots"} /\ phase' \in AfterSnapshot \ {"reboots"}
        /\ UNCHANGED <<redis, snap, devices, freshBoot>>
    BY <1>4 DEF Build, PersistEvents, UpdateInfra, SyncPanel, QueueIsDecided
  <2> QED BY <2>1 DEF QueueIsDecided, QueueIsConfirmed, PreventiveCap, CountsFromSnapshot,
             StampsFromSnapshot, ReadsCoverActive
<1>5. ASSUME PersistPipeline PROVE CycleInvariant'
  <2>1. /\ queue' = Decided
        /\ rebooting = None /\ rebooting' = None /\ phase = "pipeline" /\ phase' = "reboots"
        /\ redis' = Piped /\ UNCHANGED <<devices, snap, snapMaint, label, blip, wanDown, freshBoot>>
    BY <1>5 DEF PersistPipeline, QueueIsDecided
  <2>2. Decided' = Decided /\ \A n \in Nodes : PreventiveReboot(n)' <=> PreventiveReboot(n)
    BY <2>1, DecisionsFixed
  <2>3. Decided \subseteq Nodes
    BY <1>0 DEF Decided, Outcomes
  <2>4. QueueIsDecided'
    BY <2>1, <2>2 DEF QueueIsDecided
  <2>5. QueueIsConfirmed'
    BY <2>1, <2>2, <2>3, PipedStatus DEF QueueIsConfirmed
  <2>6. PreventiveCap'
    BY <1>0, <2>1, PipedKeys DEF PreventiveCap
  <2>7. CountsFromSnapshot'
    BY <1>0, <2>1, PipedKeys DEF CountsFromSnapshot
  <2>8. StampsFromSnapshot'
    BY <1>0, <2>1, PipedKeys DEF StampsFromSnapshot
  <2> QED BY <2>1, <2>4, <2>5, <2>6, <2>7, <2>8 DEF ReadsCoverActive
<1>6. ASSUME NEW n \in Nodes, StartReboot(n) PROVE CycleInvariant'
  <2>1. /\ phase = "reboots" /\ rebooting = None /\ n \in queue /\ rebooting' = n
        /\ UNCHANGED <<phase, queue, devices, snap, snapMaint, label, blip, wanDown, freshBoot>>
    BY <1>6 DEF StartReboot
  <2>2. PICK counted \in BOOLEAN :
          redis' = [redis EXCEPT ![n].preventiveCount =
             IF PreventiveReboot(n) /\ counted THEN AtMost(@ + 1, PreventiveMax + 1) ELSE @]
    BY <1>6 DEF StartReboot
  <2>3. redis' = [redis EXCEPT ![n] = [redis[n] EXCEPT !.preventiveCount =
             IF PreventiveReboot(n) /\ counted
             THEN AtMost(redis[n].preventiveCount + 1, PreventiveMax + 1)
             ELSE redis[n].preventiveCount]]
    BY <2>2, ZenonT(60)
  <2>4. \A m \in Nodes : /\ redis'[m].status = redis[m].status
                         /\ redis'[m].lastReboot = redis[m].lastReboot
                         /\ m # n => redis'[m] = redis[m]
    BY <1>0, <2>3 DEF TypeOK, RedisKeys
  <2>5. redis'[n].preventiveCount <= PreventiveMax
    <3>1. redis'[n].preventiveCount = IF PreventiveReboot(n) /\ counted
             THEN AtMost(redis[n].preventiveCount + 1, PreventiveMax + 1)
             ELSE redis[n].preventiveCount
      BY <1>0, <2>3 DEF TypeOK, RedisKeys
    <3>2. ASSUME PreventiveReboot(n) PROVE redis[n].preventiveCount < PreventiveMax
      <4>1. n \in devices /\ n \in queue /\ rebooting # n
        BY <2>1, GuardianAssumption DEF QueueIsDecided, Decided, Outcomes
      <4>2. redis[n].preventiveCount <= snap[n].preventiveCount
        BY <4>1 DEF CountsFromSnapshot
      <4>3. ~(snap[n].preventiveCount >= PreventiveMax)
        BY <3>2 DEF PreventiveReboot, Exhausted
      <4> QED BY <1>0, <4>2, <4>3
    <3> QED BY <1>0, <3>1, <3>2 DEF PreventiveCap, AtMost
  <2>6. QueueIsDecided' /\ QueueIsConfirmed'
    <3>1. Decided' = Decided /\ \A m \in Nodes : PreventiveReboot(m)' <=> PreventiveReboot(m)
      BY <2>1, DecisionsFixed
    <3>2. queue \subseteq Nodes
      BY DEF TypeOK
    <3> QED BY <2>1, <2>4, <3>1, <3>2 DEF QueueIsDecided, QueueIsConfirmed
  <2>7. PreventiveCap' /\ CountsFromSnapshot'
    <3>1. PreventiveCap'
      BY <2>4, <2>5 DEF PreventiveCap
    <3>2. ASSUME NEW m \in devices, m \in queue, m # n
          PROVE  redis'[m].preventiveCount <= snap[m].preventiveCount
      <4>1. m \in Nodes /\ rebooting # m
        BY <1>0, <2>1, GuardianAssumption
      <4> QED BY <2>4, <3>2, <4>1 DEF CountsFromSnapshot
    <3> QED BY <2>1, <3>1, <3>2 DEF CountsFromSnapshot
  <2>8. StampsFromSnapshot'
    BY <1>0, <2>1, <2>4 DEF StampsFromSnapshot
  <2> QED BY <2>1, <2>6, <2>7, <2>8 DEF ReadsCoverActive
<1>7. ASSUME NEW n \in Nodes, NEW ok \in BOOLEAN, FinishReboot(n, ok) PROVE CycleInvariant'
  <2>1. /\ rebooting = n /\ n \in queue /\ rebooting' = None /\ queue' = queue \ {n}
        /\ freshBoot' = (IF ok THEN freshBoot \cup {n} ELSE freshBoot)
        /\ UNCHANGED <<phase, devices, snap, snapMaint, label, blip, wanDown>>
    BY <1>7 DEF FinishReboot
  <2>2. PICK written \in BOOLEAN :
          redis' = [redis EXCEPT
            ![n].lastReboot  = IF ok THEN stampAge ELSE @,
            ![n].lastAttempt = IF ~written THEN @ ELSE IF ok THEN FailRetry
                               ELSE AtMost(stampAge, FailRetry)]
    BY <1>7 DEF FinishReboot
  <2>3. redis' = [redis EXCEPT ![n] = [redis[n] EXCEPT
            !.lastReboot  = IF ok THEN stampAge ELSE redis[n].lastReboot,
            !.lastAttempt = IF ~written THEN redis[n].lastAttempt ELSE IF ok THEN FailRetry
                            ELSE AtMost(stampAge, FailRetry)]]
    BY <2>2, ZenonT(60) DEF TypeOK
  <2>4. /\ \A m \in Nodes : /\ redis'[m].status = redis[m].status
                            /\ redis'[m].preventiveCount = redis[m].preventiveCount
                            /\ m # n => redis'[m].lastReboot = redis[m].lastReboot
        /\ ~ok => redis'[n].lastReboot = redis[n].lastReboot
    BY <1>0, <2>3 DEF TypeOK, RedisKeys
  <2>5. QueueIsDecided' /\ QueueIsConfirmed'
    <3>1. Decided' = Decided /\ \A m \in Nodes : PreventiveReboot(m)' <=> PreventiveReboot(m)
      BY <2>1, DecisionsFixed
    <3>2. queue \subseteq Nodes
      BY DEF TypeOK
    <3> QED BY <2>1, <2>4, <3>1, <3>2 DEF QueueIsDecided, QueueIsConfirmed
  <2>6. PreventiveCap' /\ CountsFromSnapshot'
    <3>1. phase = "reboots"
      BY <2>1 DEF QueueIsDecided
    <3> QED BY <1>0, <2>1, <2>4, <3>1 DEF PreventiveCap, CountsFromSnapshot
  <2>7. StampsFromSnapshot'
    BY <1>0, <2>1, <2>4 DEF StampsFromSnapshot
  <2>8. phase' = "reboots"
    BY <2>1 DEF QueueIsDecided
  <2> QED BY <2>5, <2>6, <2>7, <2>8 DEF ReadsCoverActive
<1>8. ASSUME EndCycle \/ PersistFails \/ Restart PROVE CycleInvariant'
  <2>1. CycleOver /\ (redis' = redis \/ redis' = Piped)
    BY <1>8 DEF EndCycle, PersistFails, Restart
  <2> QED BY <2>1, PipedKeys, CycleOverInvariant
<1>9. ASSUME ApiStep \/ \E n \in Nodes : Expire(n) PROVE CycleInvariant'
  <2>1. KeysDrift /\ UNCHANGED <<phase, devices, allIps, snap, snapMaint, label, blip, wanDown,
                                 queue, rebooting>>
    BY <1>9, ApiDrift DEF cycleVars
  <2>2. QueueIsDecided' /\ QueueIsConfirmed'
    <3>1. Decided' = Decided /\ \A m \in Nodes : PreventiveReboot(m)' <=> PreventiveReboot(m)
      BY <2>1, DecisionsFixed
    <3>2. queue \subseteq Nodes
      BY DEF TypeOK
    <3>3. QueueIsConfirmed'
      <4> SUFFICES ASSUME NEW n \in queue
                   PROVE  redis'[n].status \in {"unknown"} \cup
                            (IF PreventiveReboot(n) THEN {"degraded"} ELSE {"offline", "no-internet"})
        BY <2>1, <3>1, <3>2 DEF QueueIsConfirmed
      <4> QED BY <2>1, <3>2 DEF KeysDrift, QueueIsConfirmed
    <3> QED BY <2>1, <3>1, <3>3 DEF QueueIsDecided
  <2>3. PreventiveCap' /\ CountsFromSnapshot'
    BY <1>0, <2>1 DEF KeysDrift, PreventiveCap, CountsFromSnapshot
  <2>4. StampsFromSnapshot'
    <3>1. \A n \in Nodes : redis'[n].lastReboot \in Nat
      BY CapsAreNat DEF TypeOK, RedisKeys
    <3> QED BY <1>0, <2>1, <3>1 DEF KeysDrift, StampsFromSnapshot
  <2>5. ReadsCoverActive'
    BY <2>1 DEF KeysDrift, ReadsCoverActive
  <2> QED BY <2>2, <2>3, <2>4, <2>5
<1>10. ASSUME Tick PROVE CycleInvariant'
  <2>1. /\ UNCHANGED <<phase, devices, allIps, snapMaint, label, blip, wanDown, queue, rebooting,
                       active, freshBoot, freshRow>>
        /\ phase # "probe" => snap' = snap
    BY <1>10 DEF Tick, tableVars
  <2>2. \A n \in Nodes : /\ redis'[n].status = redis[n].status
                         /\ redis'[n].preventiveCount = redis[n].preventiveCount
                         /\ snap'[n].preventiveCount = snap[n].preventiveCount
                         /\ redis'[n].lastReboot = AtMost(redis[n].lastReboot + 1, Cooldown)
                         /\ snap'[n].lastReboot \in
                              {snap[n].lastReboot, AtMost(snap[n].lastReboot + 1, Cooldown)}
    <3>1. /\ redis' = [n \in Nodes |-> Older(redis[n])]
          /\ snap' = snap \/ snap' = [n \in Nodes |-> Older(snap[n])]
      BY <1>10 DEF Tick
    <3>2. ASSUME NEW k \in RedisKeys
          PROVE  /\ Older(k).status = k.status /\ Older(k).preventiveCount = k.preventiveCount
                 /\ Older(k).lastReboot = AtMost(k.lastReboot + 1, Cooldown)
      BY DEF Older, RedisKeys
    <3> QED BY <1>0, <3>1, <3>2
  <2>3. QueueIsDecided'
    <3>1. CASE phase = "probe"
      BY <2>1, <3>1 DEF QueueIsDecided
    <3>2. CASE phase # "probe"
      BY <2>1, <3>2, DecisionsFixed DEF QueueIsDecided
    <3> QED BY <3>1, <3>2
  <2>4. QueueIsConfirmed'
    <3>1. CASE phase = "probe"
      BY <2>1, <3>1 DEF QueueIsDecided, QueueIsConfirmed
    <3>2. CASE phase # "probe"
      BY <1>0, <2>1, <2>2, <3>2, DecisionsFixed DEF QueueIsConfirmed, QueueIsDecided, TypeOK
    <3> QED BY <3>1, <3>2
  <2>5. PreventiveCap' /\ CountsFromSnapshot'
    BY <1>0, <2>1, <2>2 DEF PreventiveCap, CountsFromSnapshot
  <2>6. StampsFromSnapshot'
    BY <1>0, <2>1, <2>2 DEF StampsFromSnapshot, AtMost
  <2> QED BY <2>1, <2>3, <2>4, <2>5, <2>6 DEF ReadsCoverActive
<1>11. ASSUME UNCHANGED vars PROVE CycleInvariant'
  <2>1. UNCHANGED <<redis, phase, devices, allIps, snap, snapMaint, label, blip, wanDown, queue,
                    rebooting, active, freshBoot, freshRow>>
    BY <1>11 DEF vars, cycleVars, tableVars
  <2>2. Decided' = Decided /\ \A m \in Nodes : PreventiveReboot(m)' <=> PreventiveReboot(m)
    BY <2>1, DecisionsFixed
  <2>3. queue \subseteq Nodes
    BY DEF TypeOK
  <2> QED BY <1>0, <2>1, <2>2, <2>3 DEF QueueIsDecided, QueueIsConfirmed, PreventiveCap,
             CountsFromSnapshot, StampsFromSnapshot, ReadsCoverActive
<1> QED
  BY <1>1, <1>2, <1>3, <1>4, <1>5, <1>6, <1>7, <1>8, <1>9, <1>10, <1>11 DEF Next, CycleStep

(* The invariant holds in every behaviour.                                 *)
THEOREM InvariantCorrect == Spec => []CycleInvariant
<1>1. Init => CycleInvariant
  BY InitInvariant
<1>2. TypeOK /\ TypeOK' /\ CycleInvariant /\ [Next]_vars => CycleInvariant'
  BY InvariantStep
<1> QED BY <1>1, <1>2, TypeCorrect, PTL DEF Spec

-----------------------------------------------------------------------------
(* The cap on preventive reboots (finding H1 of the repository's audit)    *)
(* holds for every cap, number of nodes and interleaving.                  *)
THEOREM PreventiveCapCorrect == Spec => []PreventiveCap
<1>1. CycleInvariant => PreventiveCap
  BY DEF CycleInvariant
<1> QED BY <1>1, InvariantCorrect, PTL

(* No node is rebooted before the panel has confirmed the state that       *)
(* justifies it, however the two thresholds are configured.                *)
THEOREM RebootMatchesPanelCorrect == Spec => []RebootMatchesPanel
<1>1. CycleInvariant => RebootMatchesPanel
  BY DEF CycleInvariant, QueueIsDecided, QueueIsConfirmed, RebootMatchesPanel
<1> QED BY <1>1, InvariantCorrect, PTL

(* A cycle that read a maintenance flag on reboots nothing covered by it.  *)
THEOREM MaintenanceHonouredCorrect == Spec => []MaintenanceHonoured
<1>1. CycleInvariant => MaintenanceHonoured
  BY DEF CycleInvariant, QueueIsDecided, MaintenanceHonoured, Decided, PreventiveReboot,
         PreventiveDue, FailsafeReboot, Suppressed
<1> QED BY <1>1, InvariantCorrect, PTL

(* A reboot inside the cooldown can only follow a stamp written after the  *)
(* cycle's snapshot.                                                       *)
THEOREM CooldownSeenByReadCorrect == Spec => CooldownSeenByRead
<1>1. TypeOK /\ CycleInvariant /\ [Next]_vars =>
        [\A n \in Nodes : StartReboot(n) => redis[n].lastReboot >= Cooldown \/ n \in freshBoot]_vars
  <2> SUFFICES ASSUME TypeOK, CycleInvariant, NEW n \in Nodes, StartReboot(n), n \notin freshBoot
               PROVE  redis[n].lastReboot >= Cooldown
    OBVIOUS
  <2>1. n \in devices /\ phase \in AfterSnapshot /\ n \in Decided
    BY DEF StartReboot, CycleInvariant, QueueIsDecided, Decided, Outcomes, AfterSnapshot
  <2>2. redis[n].lastReboot >= snap[n].lastReboot
    BY <2>1 DEF CycleInvariant, StampsFromSnapshot
  <2>3. snap[n].lastReboot >= Cooldown
    BY <2>1 DEF Decided, PreventiveReboot, FailsafeReboot, CooldownOk
  <2>4. redis[n].lastReboot \in Nat /\ snap[n].lastReboot \in Nat /\ Cooldown \in Nat
    BY CapsAreNat DEF TypeOK, RedisKeys
  <2> QED BY <2>2, <2>3, <2>4
<1> QED BY <1>1, TypeCorrect, InvariantCorrect, PTL DEF Spec, CooldownSeenByRead

(* Unless both reads can fail, the cleanup spares every node that was      *)
(* active since before the cycle began.                                    *)
THEOREM CleanupSparesActiveCorrect ==
  ~({"devices_read", "all_ips_read"} \subseteq Faults) => (Spec => CleanupSparesActive)
<1> SUFFICES ASSUME ~({"devices_read", "all_ips_read"} \subseteq Faults)
             PROVE  Spec => CleanupSparesActive
  OBVIOUS
<1>1. TypeOK /\ CycleInvariant /\ [Next]_vars =>
        [(\E wan \in BOOLEAN : Snapshot(wan)) =>
           \A n \in active \ freshRow : redis'[n] = redis[n]]_vars
  <2> SUFFICES ASSUME TypeOK, CycleInvariant, NEW wan \in BOOLEAN, Snapshot(wan),
                      NEW n \in active \ freshRow
               PROVE  redis'[n] = redis[n]
    OBVIOUS
  <2>1. n \in allIps
    BY DEF Snapshot, CycleInvariant, ReadsCoverActive
  <2>2. n \in Nodes
    BY DEF TypeOK
  <2> QED BY <2>1, <2>2 DEF Snapshot, Orphan
<1> QED BY <1>1, TypeCorrect, InvariantCorrect, PTL DEF Spec, CleanupSparesActive

-----------------------------------------------------------------------------
(* The sum's instance Copies: no table changes and every read succeeds.    *)
(* In the instance Copies every node has its row throughout, every read    *)
(* succeeds, and a probe answers.                                          *)
AllRead ==
  /\ active = Nodes /\ catalog = Nodes
  /\ phase \in Phases /\ ~blip
  /\ phase # "idle" => devices = Nodes
  /\ phase = "cleanup" => allIps = Nodes
  /\ \A n \in Nodes : label[n] \in {"online", "degraded", "offline", "no-internet"}

HasStatus(k) == "status" \in DOMAIN k /\ k.status \in Statuses

(* Nothing but the pipeline writes a status: up to it the snapshot holds   *)
(* the status that Redis has.                                              *)
StatusIsSnapped ==
  /\ DOMAIN redis = Nodes /\ \A n \in Nodes : HasStatus(redis[n])
  /\ phase \in {"probe", "events", "mirror", "panel", "pipeline"} =>
       \A n \in Nodes : HasStatus(snap[n]) /\ snap[n].status = redis[n].status

(* Which copies show the status of Redis, and which that of this tick.     *)
CopiesInTurn ==
  /\ phase # "pipeline" => \A n \in Nodes : panel[n] = redis[n].status
  /\ phase = "pipeline" => \A n \in Nodes : panel[n] = Copies!NewStatus(n)
  /\ phase = "panel" => \A n \in Nodes : infra[n] = Copies!NewStatus(n)
  /\ phase \notin {"mirror", "panel", "pipeline"} =>
       \A n \in Nodes : redis[n].status # "unknown" => history[n] = redis[n].status
  /\ phase \in {"mirror", "panel", "pipeline"} =>
       \A n \in Nodes : Copies!NewStatus(n) # "unknown" => history[n] = Copies!NewStatus(n)

CopiesInvariant == AllRead /\ StatusIsSnapped /\ CopiesInTurn

LEMMA CopiesStart == Copies!Init => CopiesInvariant
<1> SUFFICES ASSUME Copies!Init PROVE CopiesInvariant
  OBVIOUS
<1> USE DEF Copies!Init
<1>1. AllRead
  BY DEF AllRead, Phases
<1>2. HasStatus(Copies!NoKeys) /\ Copies!NoKeys.status = "unknown"
  BY DEF HasStatus, Copies!NoKeys, Statuses
<1>3. StatusIsSnapped
  BY <1>2 DEF StatusIsSnapped
<1>4. CopiesInTurn
  BY <1>2 DEF CopiesInTurn
<1> QED BY <1>1, <1>3, <1>4 DEF CopiesInvariant

(* The status of a tick is one that a node may have, and it depends on the *)
(* snapshot and on the labels only.                                        *)
LEMMA NewStatusIsStatus ==
  ASSUME AllRead, NEW n \in Nodes, HasStatus(snap[n])
  PROVE  Copies!NewStatus(n) \in Statuses
BY DEF AllRead, HasStatus, Copies!NewStatus, Statuses

LEMMA NewStatusKept ==
  ASSUME UNCHANGED <<snap, label>>
  PROVE  \A n \in Nodes : Copies!NewStatus(n)' = Copies!NewStatus(n)
BY DEF Copies!NewStatus, Copies!DegradedConfirmed, Copies!OfflineConfirmed, Copies!NewStreak,
       Copies!NewOfflineStreak

(* A step that writes no status and no copy of one.                        *)
WritesNoStatus ==
  /\ DOMAIN redis' = Nodes
  /\ \A n \in Nodes : HasStatus(redis'[n]) /\ redis'[n].status = redis[n].status
  /\ UNCHANGED <<active, catalog, infra, panel, history, phase, devices, allIps, label, blip>>

LEMMA NoStatusKeeps ==
  ASSUME CopiesInvariant, WritesNoStatus, UNCHANGED snap
  PROVE  CopiesInvariant'
<1>1. \A n \in Nodes : Copies!NewStatus(n)' = Copies!NewStatus(n)
  BY NewStatusKept DEF WritesNoStatus
<1>2. AllRead'
  BY DEF CopiesInvariant, AllRead, WritesNoStatus
<1>3. StatusIsSnapped'
  BY DEF CopiesInvariant, StatusIsSnapped, WritesNoStatus
<1>4. CopiesInTurn'
  BY <1>1 DEF CopiesInvariant, CopiesInTurn, WritesNoStatus
<1> QED BY <1>2, <1>3, <1>4 DEF CopiesInvariant

(* What the calls, the reboots and the expiring keys write of a node.      *)
LEMMA KeysKeepStatus ==
  ASSUME CopiesInvariant, NEW n \in Nodes, NEW k, redis' = [redis EXCEPT ![n] = k],
         DOMAIN k = DOMAIN redis[n], k.status = redis[n].status,
         UNCHANGED <<active, catalog, infra, panel, history, phase, devices, allIps, label, blip>>
  PROVE  WritesNoStatus
BY DEF CopiesInvariant, StatusIsSnapped, HasStatus, WritesNoStatus

LEMMA NothingKeepsStatus ==
  ASSUME CopiesInvariant,
         UNCHANGED <<redis, active, catalog, infra, panel, history, phase, devices, allIps, label, blip>>
  PROVE  WritesNoStatus
BY DEF CopiesInvariant, StatusIsSnapped, WritesNoStatus

(* The end of a cycle, wherever the status is already in the copies.       *)
LEMMA OverKeeps ==
  ASSUME CopiesInvariant, Copies!CycleOver, phase \notin {"mirror", "panel", "pipeline"},
         DOMAIN redis' = Nodes, \A n \in Nodes : HasStatus(redis'[n]) /\ redis'[n].status = redis[n].status,
         UNCHANGED <<active, catalog, panel, history>>
  PROVE  CopiesInvariant'
<1> USE DEF CopiesInvariant
<1>1. phase' = "idle" /\ ~blip' /\ \A n \in Nodes : label'[n] = "online"
  BY DEF Copies!CycleOver
<1>2. AllRead'
  BY <1>1 DEF AllRead, Phases
<1>3. StatusIsSnapped' /\ CopiesInTurn'
  BY <1>1 DEF StatusIsSnapped, CopiesInTurn
<1> QED BY <1>2, <1>3

LEMMA ReadsKeep ==
  ASSUME CopiesInvariant, NEW f \in BOOLEAN, Copies!ReadDevices(f) \/ Copies!ReadAllIps(f)
  PROVE  CopiesInvariant'
<1> USE DEF CopiesInvariant, Copies!ReadDevices, Copies!ReadAllIps, Copies!tableVars
<1>1. AllRead'
  BY DEF AllRead, Phases
<1>2. StatusIsSnapped' /\ CopiesInTurn'
  BY DEF StatusIsSnapped, CopiesInTurn
<1> QED BY <1>1, <1>2

LEMMA SnapshotKeeps ==
  ASSUME CopiesInvariant, NEW w \in BOOLEAN, Copies!Snapshot(w)
  PROVE  CopiesInvariant'
<1> USE DEF CopiesInvariant
<1>1. phase = "cleanup" /\ devices = Nodes /\ allIps = Nodes
  BY DEF Copies!Snapshot, AllRead
<1>2. DOMAIN redis' = Nodes /\ \A n \in Nodes : redis'[n] = redis[n]
  BY <1>1 DEF Copies!Snapshot, Copies!Orphan
<1>3. UNCHANGED <<active, catalog, panel, history>>
  BY DEF Copies!Snapshot, Copies!tableVars
<1>4. CASE Copies!CycleOver
  BY <1>1, <1>2, <1>3, <1>4, OverKeeps DEF StatusIsSnapped
<1>5. CASE ~Copies!CycleOver
  <2>1. phase' = "probe" /\ UNCHANGED <<devices, label, blip>>
    BY <1>5 DEF Copies!Snapshot
  <2>2. \A n \in Nodes : snap'[n] = redis'[n]
    BY <1>1, <1>2, <1>5 DEF Copies!Snapshot, Copies!Orphan
  <2>3. AllRead'
    BY <1>1, <1>3, <2>1 DEF AllRead, Phases
  <2>4. StatusIsSnapped'
    BY <1>2, <2>2 DEF StatusIsSnapped
  <2>5. CopiesInTurn'
    BY <1>1, <1>2, <1>3, <2>1 DEF CopiesInTurn
  <2> QED BY <2>3, <2>4, <2>5
<1> QED BY <1>4, <1>5

LEMMA BuildKeeps ==
  ASSUME CopiesInvariant, Copies!Build
  PROVE  CopiesInvariant'
<1> USE DEF CopiesInvariant
<1>1. phase = "probe" /\ phase' = "events" /\ devices = Nodes
  BY DEF Copies!Build, AllRead
<1>2. UNCHANGED <<devices, allIps, snap, redis, active, catalog, infra, panel, history>>
  BY DEF Copies!Build, Copies!tableVars
<1>3. PICK inBlip \in BOOLEAN, lab \in [Nodes -> Copies!Labels] :
        /\ inBlip => "blip" \in {"sqlite"} /\ \E n \in devices : lab[n] = "offline"
        /\ \A n \in Nodes : IF n \in devices THEN lab[n] \in Copies!ProbeLabels(n, inBlip)
                                            ELSE lab[n] = "online"
        /\ blip' = inBlip /\ label' = lab
  BY DEF Copies!Build
<1>4. ~inBlip /\ label' = lab /\ blip' = inBlip /\ \A n \in Nodes : lab[n] \in Copies!ProbeLabels(n, inBlip)
  BY <1>1, <1>3
<1>5. \A n \in Nodes : label'[n] \in {"online", "degraded", "offline", "no-internet"}
  BY <1>4 DEF Copies!ProbeLabels
<1>6. AllRead'
  BY <1>1, <1>2, <1>4, <1>5 DEF AllRead, Phases
<1>7. StatusIsSnapped' /\ CopiesInTurn'
  BY <1>1, <1>2 DEF StatusIsSnapped, CopiesInTurn
<1> QED BY <1>6, <1>7

LEMMA EventsKeep ==
  ASSUME CopiesInvariant, Copies!PersistEvents
  PROVE  CopiesInvariant'
<1> USE DEF CopiesInvariant
<1>1. /\ phase = "events" /\ phase' = "mirror" /\ devices = Nodes /\ ~blip
      /\ UNCHANGED <<devices, allIps, snap, label, blip, redis, active, catalog, infra, panel>>
  BY DEF Copies!PersistEvents, Copies!tableVars, AllRead
<1>2. \A n \in Nodes : Copies!NewStatus(n)' = Copies!NewStatus(n)
  BY <1>1, NewStatusKept
<1>3. \A n \in Nodes : Copies!HasEvent(n) <=> Copies!NewStatus(n) # snap[n].status
  BY <1>1 DEF AllRead, Copies!HasEvent, Copies!Outcomes, Copies!Skipped
<1>4. ASSUME NEW n \in Nodes, Copies!NewStatus(n) # "unknown"
      PROVE  history'[n] = Copies!NewStatus(n)
  <2>1. history'[n] = IF Copies!HasEvent(n) THEN Copies!NewStatus(n) ELSE history[n]
    BY DEF Copies!PersistEvents
  <2>2. snap[n].status = redis[n].status /\ (redis[n].status # "unknown" => history[n] = redis[n].status)
    BY <1>1 DEF StatusIsSnapped, CopiesInTurn
  <2> QED BY <1>3, <1>4, <2>1, <2>2
<1>5. AllRead'
  BY <1>1 DEF AllRead, Phases
<1>6. StatusIsSnapped'
  BY <1>1 DEF StatusIsSnapped
<1>7. CopiesInTurn'
  BY <1>1, <1>2, <1>4 DEF CopiesInTurn
<1> QED BY <1>5, <1>6, <1>7

LEMMA MirrorKeeps ==
  ASSUME CopiesInvariant, NEW f \in BOOLEAN, Copies!UpdateInfra(f)
  PROVE  CopiesInvariant'
<1> USE DEF CopiesInvariant
<1>1. /\ phase = "mirror" /\ phase' = "panel" /\ devices = Nodes /\ ~blip
      /\ UNCHANGED <<devices, allIps, snap, label, blip, redis, active, catalog, panel, history>>
  BY DEF Copies!UpdateInfra, AllRead
<1>2. \A n \in Nodes : Copies!NewStatus(n)' = Copies!NewStatus(n)
  BY <1>1, NewStatusKept
<1>3. \A n \in Nodes : infra'[n] = Copies!NewStatus(n)
  BY <1>1 DEF Copies!UpdateInfra, Copies!TickStatus, Copies!Skipped, AllRead
<1>4. AllRead'
  BY <1>1 DEF AllRead, Phases
<1>5. StatusIsSnapped'
  BY <1>1 DEF StatusIsSnapped
<1>6. CopiesInTurn'
  BY <1>1, <1>2, <1>3 DEF CopiesInTurn
<1> QED BY <1>4, <1>5, <1>6

LEMMA PanelKeeps ==
  ASSUME CopiesInvariant, NEW f \in BOOLEAN, Copies!SyncPanel(f)
  PROVE  CopiesInvariant'
<1> USE DEF CopiesInvariant
<1>1. /\ phase = "panel" /\ phase' = "pipeline" /\ devices = Nodes /\ active = Nodes
      /\ UNCHANGED <<devices, allIps, snap, label, blip, redis, active, catalog, infra, history>>
  BY DEF Copies!SyncPanel, AllRead
<1>2. \A n \in Nodes : Copies!NewStatus(n)' = Copies!NewStatus(n)
  BY <1>1, NewStatusKept
<1>3. \A n \in Nodes : infra[n] = Copies!NewStatus(n) /\ infra[n] \in Statuses
  BY <1>1, NewStatusIsStatus DEF CopiesInTurn, StatusIsSnapped
<1>4. \A n \in Nodes : panel'[n] = Copies!NewStatus(n)
  BY <1>1, <1>3 DEF Copies!SyncPanel, Statuses
<1>5. AllRead'
  BY <1>1 DEF AllRead, Phases
<1>6. StatusIsSnapped'
  BY <1>1 DEF StatusIsSnapped
<1>7. CopiesInTurn'
  BY <1>1, <1>2, <1>4 DEF CopiesInTurn
<1> QED BY <1>5, <1>6, <1>7

(* The pipeline writes the status that the copies already have.            *)
LEMMA CopyIsPiped ==
  ASSUME CopiesInvariant, phase = "pipeline", NEW n \in Nodes
  PROVE  HasStatus(Copies!RedisOps(n, redis[n])) /\ Copies!RedisOps(n, redis[n]).status = Copies!NewStatus(n)
<1> DEFINE k == redis[n]
<1> USE DEF CopiesInvariant
<1>1. HasStatus(k) /\ snap[n].status = k.status
  BY DEF StatusIsSnapped
<1>2. label[n] \in {"online", "degraded", "offline", "no-internet"}
  BY DEF AllRead
<1> HIDE DEF k
<1>3. CASE label[n] = "online"
  BY <1>1, <1>3 DEF Copies!RedisOps, Copies!OnlineOps, Copies!NewStatus, HasStatus, Statuses, k
<1>4. CASE label[n] = "degraded"
  <2>1. Copies!RedisOps(n, k) = Copies!DegradedOps(n, k)
    BY <1>4 DEF Copies!RedisOps
  <2>2. /\ "status" \in DOMAIN Copies!DegradedOps(n, k)
        /\ Copies!DegradedOps(n, k).status = IF Copies!DegradedConfirmed(n) THEN "degraded" ELSE k.status
    BY <1>1 DEF Copies!DegradedOps, HasStatus
  <2>3. Copies!NewStatus(n) = IF Copies!DegradedConfirmed(n) THEN "degraded" ELSE k.status
    BY <1>1, <1>4 DEF Copies!NewStatus
  <2> QED BY <1>1, <2>1, <2>2, <2>3 DEF HasStatus, Statuses, k
<1>5. CASE label[n] = "offline"
  <2>1. Copies!RedisOps(n, k) = Copies!OfflineOps(n, k)
    BY <1>5 DEF Copies!RedisOps
  <2>2. /\ "status" \in DOMAIN Copies!OfflineOps(n, k)
        /\ Copies!OfflineOps(n, k).status = IF Copies!OfflineConfirmed(n) THEN "offline" ELSE k.status
    BY <1>1 DEF Copies!OfflineOps, HasStatus
  <2>3. Copies!NewStatus(n) = IF Copies!OfflineConfirmed(n) THEN "offline" ELSE k.status
    BY <1>1, <1>5 DEF Copies!NewStatus
  <2> QED BY <1>1, <2>1, <2>2, <2>3 DEF HasStatus, Statuses, k
<1>6. CASE label[n] = "no-internet"
  <2>1. Copies!RedisOps(n, k) = Copies!NoInternetOps(n, k)
    BY <1>6 DEF Copies!RedisOps
  <2>2. /\ "status" \in DOMAIN Copies!NoInternetOps(n, k)
        /\ Copies!NoInternetOps(n, k).status = "no-internet"
    BY <1>1 DEF Copies!NoInternetOps, HasStatus
  <2>3. Copies!NewStatus(n) = "no-internet"
    BY <1>6 DEF Copies!NewStatus
  <2> QED BY <2>1, <2>2, <2>3 DEF HasStatus, Statuses, k
<1> QED BY <1>2, <1>3, <1>4, <1>5, <1>6

LEMMA PipelineKeeps ==
  ASSUME CopiesInvariant, Copies!PersistPipeline
  PROVE  CopiesInvariant'
<1> USE DEF CopiesInvariant
<1>1. /\ phase = "pipeline" /\ phase' = "reboots" /\ devices = Nodes /\ ~blip
      /\ UNCHANGED <<devices, allIps, label, blip, active, catalog, panel, history>>
  BY DEF Copies!PersistPipeline, Copies!tableVars, AllRead
<1>2. \A n \in Nodes : n \in Copies!Outcomes
  BY <1>1 DEF AllRead, Copies!Outcomes, Copies!Skipped
<1>3. DOMAIN redis' = Nodes /\ \A n \in Nodes : redis'[n] = Copies!RedisOps(n, redis[n])
  BY <1>2 DEF Copies!PersistPipeline, Copies!Piped
<1>4. \A n \in Nodes : HasStatus(redis'[n]) /\ redis'[n].status = Copies!NewStatus(n)
  BY <1>1, <1>3, CopyIsPiped
<1>5. AllRead'
  BY <1>1 DEF AllRead, Phases
<1>6. StatusIsSnapped'
  BY <1>1, <1>3, <1>4 DEF StatusIsSnapped
<1>7. CopiesInTurn'
  BY <1>1, <1>4 DEF CopiesInTurn
<1> QED BY <1>5, <1>6, <1>7

LEMMA RebootsKeep ==
  ASSUME CopiesInvariant, NEW n \in Nodes, NEW ok \in BOOLEAN,
         Copies!StartReboot(n) \/ Copies!FinishReboot(n, ok)
  PROVE  CopiesInvariant'
<1>1. DOMAIN redis = Nodes /\ HasStatus(redis[n])
  BY DEF CopiesInvariant, StatusIsSnapped
<1>2. /\ UNCHANGED <<active, catalog, infra, panel, history, phase, devices, allIps, label, blip>>
      /\ UNCHANGED snap
  BY DEF Copies!StartReboot, Copies!FinishReboot, Copies!tableVars
<1>3. CASE Copies!StartReboot(n)
  <2>1. PICK a : redis' = [redis EXCEPT ![n] = [redis[n] EXCEPT !.preventiveCount = a]]
    BY <1>3 DEF Copies!StartReboot
  <2>2. WritesNoStatus
    BY <1>1, <1>2, <2>1, KeysKeepStatus DEF HasStatus
  <2> QED BY <1>2, <2>2, NoStatusKeeps
<1>4. CASE Copies!FinishReboot(n, ok)
  <2>1. PICK a, b : redis' = [redis EXCEPT ![n] = [redis[n] EXCEPT !.lastReboot = a, !.lastAttempt = b]]
    BY <1>4 DEF Copies!FinishReboot
  <2> DEFINE k == [redis[n] EXCEPT !.lastReboot = a, !.lastAttempt = b]
  <2>2. DOMAIN k = DOMAIN redis[n] /\ k.status = redis[n].status
    BY <1>1 DEF HasStatus
  <2>3. WritesNoStatus
    BY <1>2, <2>1, <2>2, KeysKeepStatus
  <2> QED BY <1>2, <2>3, NoStatusKeeps
<1> QED BY <1>3, <1>4

LEMMA EndsKeep ==
  ASSUME CopiesInvariant, Copies!EndCycle \/ Copies!PersistFails
  PROVE  CopiesInvariant'
<1>1. /\ Copies!CycleOver /\ phase \notin {"mirror", "panel", "pipeline"}
      /\ UNCHANGED <<redis, active, catalog, panel, history>>
  <2>1. CASE Copies!EndCycle
    BY <2>1 DEF Copies!EndCycle, Copies!tableVars
  <2>2. CASE Copies!PersistFails
    BY <2>2 DEF Copies!PersistFails, Copies!tableVars
  <2> QED BY <2>1, <2>2
<1> QED BY <1>1, OverKeeps DEF CopiesInvariant, StatusIsSnapped

LEMMA CallsKeep ==
  ASSUME CopiesInvariant, Copies!ApiStep
  PROVE  CopiesInvariant'
<1>1. PICK n \in Nodes, on \in BOOLEAN :
        \/ Copies!HeartbeatOk(n) \/ Copies!HeartbeatFails(n) \/ Copies!ResetFailures(n)
        \/ Copies!HeartbeatReboot(n, on) \/ Copies!ManualDone(n, on)
  BY DEF Copies!ApiStep, Copies!SetMaintenance, Copies!ManualReboot, Copies!DeleteDevice,
         Copies!Deactivate, Copies!Activate, Copies!Promote, Copies!SetNodeMaintenance, Copies!SaveDevice
<1>2. HasStatus(redis[n])
  BY DEF CopiesInvariant, StatusIsSnapped
<1>3. /\ UNCHANGED <<active, catalog, infra, panel, history, phase, devices, allIps, label, blip>>
      /\ UNCHANGED snap
  BY <1>1 DEF Copies!HeartbeatOk, Copies!HeartbeatFails, Copies!ResetFailures, Copies!HeartbeatReboot,
              Copies!ManualDone, Copies!unchangedByApi, Copies!cycleVars, Copies!tableVars
<1>4. CASE Copies!HeartbeatOk(n)
  <2>1. PICK b : redis' = [redis EXCEPT ![n] = [redis[n] EXCEPT !.failures = 0, !.data = b]]
    BY <1>4 DEF Copies!HeartbeatOk, Copies!SetKeys
  <2> QED BY <1>2, <1>3, <2>1, KeysKeepStatus, NoStatusKeeps DEF HasStatus
<1>5. CASE Copies!HeartbeatFails(n)
  <2>1. PICK a, b : redis' = [redis EXCEPT ![n] = [redis[n] EXCEPT !.failures = a, !.data = b]]
    BY <1>5 DEF Copies!HeartbeatFails, Copies!SetKeys
  <2> QED BY <1>2, <1>3, <2>1, KeysKeepStatus, NoStatusKeeps DEF HasStatus
<1>6. CASE Copies!ResetFailures(n)
  <2>1. redis' = [redis EXCEPT ![n] = [redis[n] EXCEPT !.failures = 0]]
    BY <1>6 DEF Copies!ResetFailures, Copies!SetKeys
  <2> QED BY <1>2, <1>3, <2>1, KeysKeepStatus, NoStatusKeeps DEF HasStatus
<1>7. CASE Copies!HeartbeatReboot(n, on)
  <2>1. PICK k, a, b : /\ redis' = [redis EXCEPT ![n] = k]
                       /\ k = redis[n] \/ k = [redis[n] EXCEPT !.lastReboot = a, !.lastAttempt = b]
    BY <1>7 DEF Copies!HeartbeatReboot, Copies!SetKeys
  <2>2. DOMAIN k = DOMAIN redis[n] /\ k.status = redis[n].status
    BY <1>2, <2>1 DEF HasStatus
  <2> QED BY <1>3, <2>1, <2>2, KeysKeepStatus, NoStatusKeeps
<1>8. CASE Copies!ManualDone(n, on)
  <2>1. \/ redis' = [redis EXCEPT ![n] = [redis[n] EXCEPT !.lastReboot = 0, !.failures = 0]]
        \/ redis' = redis
    BY <1>8 DEF Copies!ManualDone, Copies!SetKeys
  <2> QED BY <1>2, <1>3, <2>1, KeysKeepStatus, NothingKeepsStatus, NoStatusKeeps DEF HasStatus
<1> QED BY <1>1, <1>3, <1>4, <1>5, <1>6, <1>7, <1>8

LEMMA ExpiryKeeps ==
  ASSUME CopiesInvariant, NEW n \in Nodes, Copies!Expire(n)
  PROVE  CopiesInvariant'
<1>1. HasStatus(redis[n])
  BY DEF CopiesInvariant, StatusIsSnapped
<1>2. \/ redis' = [redis EXCEPT ![n] = [redis[n] EXCEPT !.streak = 0]]
      \/ redis' = [redis EXCEPT ![n] = [redis[n] EXCEPT !.offlineStreak = 0]]
  BY DEF Copies!Expire, Copies!SetKeys
<1>3. /\ UNCHANGED <<active, catalog, infra, panel, history, phase, devices, allIps, label, blip>>
      /\ UNCHANGED snap
  BY DEF Copies!Expire, Copies!unchangedByApi, Copies!cycleVars, Copies!tableVars
<1>4. WritesNoStatus
  BY <1>1, <1>2, <1>3, KeysKeepStatus DEF HasStatus
<1> QED BY <1>3, <1>4, NoStatusKeeps

LEMMA TickKeeps ==
  ASSUME CopiesInvariant, Copies!Tick
  PROVE  CopiesInvariant'
<1>1. ASSUME NEW k, HasStatus(k)
      PROVE  HasStatus(Copies!Older(k)) /\ Copies!Older(k).status = k.status
  BY <1>1 DEF HasStatus, Copies!Older
<1>2. UNCHANGED <<active, catalog, infra, panel, history, phase, devices, allIps, label, blip>>
  BY DEF Copies!Tick, Copies!tableVars
<1>3. DOMAIN redis' = Nodes /\ \A n \in Nodes : HasStatus(redis'[n]) /\ redis'[n].status = redis[n].status
  BY <1>1 DEF CopiesInvariant, StatusIsSnapped, Copies!Tick
<1>4. WritesNoStatus
  BY <1>2, <1>3 DEF WritesNoStatus
<1>5. CASE phase # "probe"
  BY <1>4, <1>5, NoStatusKeeps DEF Copies!Tick
<1>6. CASE phase = "probe"
  <2>1. \A n \in Nodes : snap'[n] = Copies!Older(snap[n])
    BY <1>6 DEF Copies!Tick
  <2>2. \A n \in Nodes : HasStatus(snap'[n]) /\ snap'[n].status = redis'[n].status
    BY <1>1, <1>3, <1>6, <2>1 DEF CopiesInvariant, StatusIsSnapped
  <2>3. AllRead' /\ StatusIsSnapped'
    BY <1>2, <1>3, <2>2 DEF CopiesInvariant, AllRead, StatusIsSnapped
  <2>4. CopiesInTurn'
    BY <1>2, <1>3, <1>6 DEF CopiesInvariant, CopiesInTurn
  <2> QED BY <2>3, <2>4 DEF CopiesInvariant
<1> QED BY <1>5, <1>6

LEMMA CopiesStep ==
  ASSUME CopiesInvariant, Copies!Next
  PROVE  CopiesInvariant'
<1>1. CASE Copies!CycleStep
  BY <1>1, ReadsKeep, SnapshotKeeps, BuildKeeps, EventsKeep, MirrorKeeps, PanelKeeps, PipelineKeeps,
     RebootsKeep, EndsKeep DEF Copies!CycleStep
<1>2. ~Copies!Restart
  BY DEF Copies!Restart
<1> QED BY <1>1, <1>2, CallsKeep, ExpiryKeeps, TickKeeps DEF Copies!Next

(* Between cycles the panel's copy of a status and the last event of the   *)
(* history say what Redis says, for any number of nodes and any settings,  *)
(* whatever heartbeats, resets, expiring streaks and a database that fails *)
(* before the commit do to a cycle (_persist_guardian_tick).               *)
THEOREM CopiesAgreeCorrect == MCSpec => []CopiesAgree
<1> DEFINE Inv == instance = "copies" => CopiesInvariant
<1>1. MCInit => Inv
  BY CopiesStart DEF MCInit
<1>2. Inv /\ [MCNext]_mcVars => Inv'
  <2> SUFFICES ASSUME Inv, [MCNext]_mcVars, instance' = "copies" PROVE CopiesInvariant'
    OBVIOUS
  <2>1. instance = "copies" /\ CopiesInvariant
    BY DEF MCNext, mcVars
  <2>2. CASE MCNext
    BY <2>1, <2>2, CopiesStep DEF MCNext
  <2>3. CASE UNCHANGED mcVars
    <3>1. UNCHANGED <<active, catalog, infra, panel, history, phase, devices, allIps, label, blip, redis, snap>>
      BY <2>3 DEF mcVars, vars, cycleVars, apiVars, tableVars
    <3>2. WritesNoStatus
      BY <2>1, <3>1 DEF WritesNoStatus, CopiesInvariant, StatusIsSnapped
    <3> QED BY <2>1, <3>1, <3>2, NoStatusKeeps
  <2> QED BY <2>2, <2>3
<1>3. Inv => CopiesAgree
  <2> SUFFICES ASSUME Inv, instance = "copies" PROVE Copies!PanelAgrees /\ Copies!HistoryAgrees
    BY DEF CopiesAgree
  <2>1. CopiesInvariant
    OBVIOUS
  <2> QED BY <2>1 DEF CopiesInvariant, CopiesInTurn, AllRead, Copies!PanelAgrees, Copies!HistoryAgrees
<1> QED BY <1>1, <1>2, <1>3, PTL DEF MCSpec
=============================================================================
