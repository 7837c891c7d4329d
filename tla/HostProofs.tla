------------------------------ MODULE HostProofs ------------------------------
(***************************************************************************)
(* Proofs about MCHost: the loops that run beside the pollers, each with   *)
(* the invariant that makes its own step sound, and the sum of them.       *)
(***************************************************************************)
EXTENDS MCHost, TLAPS

-----------------------------------------------------------------------------
(* The queue of notices (TelegramQueue, PollerLeader): who runs the        *)
(* schedulers, what a row says of its notice, and that every step is one   *)
(* of NoticeDelivery.                                                      *)

(* A scheduler runs under the lock, or without it after an error.          *)
LeadsUnderLock ==
  /\ LeaderTypeOK
  /\ \A w \in leads : w \in lockErrors \/ lock = w

(* A reader has in hand only rows that were accepted, as is any notice     *)
(* that reached the chat; an answer of Telegram means that one did.        *)
HandsAreAccepted ==
  \A n \in Notices, p \in Readers :
    n \in hand[p] \/ posted[p] = n \/ copies[n] > 0 => estado[n] \notin {"none", "refused"}

AnswersAreTrue ==
  \A p \in Readers : posted[p] # NoNotice /\ answer[p] => copies[posted[p]] > 0

QueueInvariant == TypeOK /\ LeadsUnderLock /\ HandsAreAccepted /\ AnswersAreTrue /\ MarksAgree

USE NoticeAssumption, BotAssumption, FaultAssumption, WorkerAssumption
-----------------------------------------------------------------------------
(* The lock: each of the three steps of a worker.                          *)
LEMMA LockStep ==
  ASSUME LeadsUnderLock, NEW w \in Workers, Start(w) \/ StartUnlocked(w) \/ Stop(w)
  PROVE  LeadsUnderLock'
<1>1. CASE Start(w)
  BY <1>1 DEF LeadsUnderLock, LeaderTypeOK, Start
<1>2. CASE StartUnlocked(w)
  BY <1>2 DEF LeadsUnderLock, LeaderTypeOK, StartUnlocked
<1>3. CASE Stop(w)
  BY <1>3 DEF LeadsUnderLock, LeaderTypeOK, Stop
<1> QED BY <1>1, <1>2, <1>3

LEMMA LockKept ==
  ASSUME LeadsUnderLock, UNCHANGED leaderVars
  PROVE  LeadsUnderLock'
BY DEF LeadsUnderLock, LeaderTypeOK, leaderVars

LEMMA FaultCounted ==
  ASSUME TypeOK, NEW kind, Fault(kind)
  PROVE  faults' \in 0..MaxFaults
BY DEF TypeOK, Fault

LEMMA InitInvariant == Init => QueueInvariant
<1> SUFFICES ASSUME Init PROVE QueueInvariant
  OBVIOUS
<1> USE DEF Init, LeaderInit
<1>1. TypeOK
  BY DEF TypeOK, LeaderTypeOK, Readers
<1>2. LeadsUnderLock
  BY DEF LeadsUnderLock, LeaderTypeOK
<1>3. HandsAreAccepted /\ AnswersAreTrue /\ MarksAgree
  BY DEF HandsAreAccepted, AnswersAreTrue, MarksAgree, Readers, Sent
<1> QED BY <1>1, <1>2, <1>3 DEF QueueInvariant
-----------------------------------------------------------------------------
LEMMA AskKeeps ==
  ASSUME QueueInvariant, NEW n \in Notices, Ask(n)
  PROVE  QueueInvariant'
<1> USE DEF QueueInvariant, Ask, readerVars
<1>1. faults' \in 0..MaxFaults
  BY FaultCounted DEF TypeOK
<1>2. LeadsUnderLock'
  BY LockKept
<1>3. TypeOK'
  BY <1>1, <1>2 DEF TypeOK, LeadsUnderLock
<1>4. HandsAreAccepted' /\ AnswersAreTrue'
  BY DEF HandsAreAccepted, AnswersAreTrue, TypeOK
<1>5. MarksAgree'
  BY Z3 DEF MarksAgree, HandsAreAccepted, TypeOK, Sent, Readers
<1> QED BY <1>2, <1>3, <1>4, <1>5

LEMMA ReadKeeps ==
  ASSUME QueueInvariant, NEW p \in Readers, Read(p)
  PROVE  QueueInvariant'
<1> USE DEF QueueInvariant, Read, rowVars
<1>1. LeadsUnderLock'
  BY LockKept
<1>2. TypeOK'
  BY <1>1 DEF TypeOK, LeadsUnderLock, Found
<1>3. HandsAreAccepted'
  BY DEF HandsAreAccepted, TypeOK, Found
<1>4. AnswersAreTrue' /\ MarksAgree'
  BY DEF AnswersAreTrue, MarksAgree
<1> QED BY <1>1, <1>2, <1>3, <1>4

LEMMA PostKeeps ==
  ASSUME QueueInvariant, NEW p \in Readers, Post(p)
  PROVE  QueueInvariant'
<1> USE DEF QueueInvariant, Post, rowVars
<1>1. PICK n \in hand[p] : Post(p)!(n)
  BY DEF Post
<1>2. n \in Notices /\ faults' \in 0..MaxFaults
  BY <1>1, FaultCounted DEF TypeOK
<1>3. LeadsUnderLock'
  BY <1>1, LockKept
<1>4. \A m \in Notices : copies'[m] \in Nat /\ copies'[m] >= copies[m]
                          /\ (m # n => copies'[m] = copies[m])
  BY <1>1, <1>2 DEF TypeOK
<1>5. TypeOK'
  <2>1. posted' \in [Readers -> Notices \cup {NoNotice}] /\ hand' \in [Readers -> SUBSET Notices]
    BY <1>1, <1>2 DEF TypeOK
  <2>2. answer' \in [Readers -> BOOLEAN]
    BY <1>1 DEF TypeOK
  <2>3. copies' \in [Notices -> Nat]
    BY <1>1, <1>2 DEF TypeOK
  <2> QED BY <1>1, <1>2, <1>3, <2>1, <2>2, <2>3 DEF TypeOK, LeadsUnderLock
<1>6. HandsAreAccepted'
  BY <1>1, <1>2, <1>4 DEF HandsAreAccepted, TypeOK
<1>7. AnswersAreTrue'
  BY <1>1, <1>2, <1>4 DEF AnswersAreTrue, TypeOK
<1>8. MarksAgree'
  BY <1>1, <1>2, <1>4 DEF MarksAgree, TypeOK
<1> QED BY <1>3, <1>5, <1>6, <1>7, <1>8

LEMMA MarkKeeps ==
  ASSUME QueueInvariant, NEW p \in Readers, Mark(p)
  PROVE  QueueInvariant'
<1> USE DEF QueueInvariant
<1>1. PICK n \in {posted[p]} : Mark(p)!(n)
  BY DEF Mark
<1>2. n = posted[p] /\ n \in Notices /\ faults' \in 0..MaxFaults
  BY <1>1, FaultCounted DEF TypeOK
<1>3. LeadsUnderLock'
  BY <1>1, LockKept
<1>4. MarkOf(p) \in {"enviado", "enviado_directo_fallback", "fallo_fallback"}
  BY DEF MarkOf
<1>5. TypeOK'
  BY <1>1, <1>2, <1>3, <1>4 DEF TypeOK, LeadsUnderLock, Sent
<1>6. HandsAreAccepted'
  BY <1>1, <1>2, <1>4 DEF HandsAreAccepted, TypeOK
<1>7. AnswersAreTrue'
  BY <1>1, <1>2 DEF AnswersAreTrue, TypeOK
<1>8. MarkOf(p) \in Sent => answer[p] \/ p = Bot
  BY DEF MarkOf, Sent
<1>9. MarksAgree'
  BY <1>1, <1>2, <1>4, <1>8 DEF MarksAgree, AnswersAreTrue, TypeOK, Sent
<1> QED BY <1>3, <1>5, <1>6, <1>7, <1>9

(* What a reader that stops forgets is counted as unmarked.                *)
LEMMA ForgetKeeps ==
  ASSUME QueueInvariant, NEW p \in Readers, Forget(p),
         UNCHANGED <<rowVars, answer, copies>>, faults' \in 0..MaxFaults, LeadsUnderLock'
  PROVE  QueueInvariant'
<1> USE DEF QueueInvariant, Forget, rowVars
<1>1. TypeOK'
  BY DEF TypeOK, LeadsUnderLock
<1>2. HandsAreAccepted'
  BY DEF HandsAreAccepted, TypeOK
<1>3. AnswersAreTrue'
  BY DEF AnswersAreTrue, TypeOK
<1>4. MarksAgree'
  BY DEF MarksAgree, TypeOK
<1> QED BY <1>1, <1>2, <1>3, <1>4

LEMMA NextKeeps ==
  QueueInvariant /\ [Next]_vars => QueueInvariant'
<1> SUFFICES ASSUME QueueInvariant, [Next]_vars PROVE QueueInvariant'
  OBVIOUS
<1>1. ASSUME NEW n \in Notices, Ask(n) PROVE QueueInvariant'
  BY <1>1, AskKeeps
<1>2. ASSUME NEW n \in Notices, MinutePasses(n) PROVE QueueInvariant'
  <2> USE <1>2 DEF QueueInvariant, MinutePasses, readerVars
  <2>1. LeadsUnderLock'
    BY LockKept
  <2>2. TypeOK'
    BY <2>1 DEF TypeOK, LeadsUnderLock
  <2>3. HandsAreAccepted' /\ AnswersAreTrue' /\ MarksAgree'
    BY DEF HandsAreAccepted, AnswersAreTrue, MarksAgree
  <2> QED BY <2>1, <2>2, <2>3
<1>3. ASSUME NEW p \in Readers, Read(p) \/ Post(p) \/ Mark(p) PROVE QueueInvariant'
  BY <1>3, ReadKeeps, PostKeeps, MarkKeeps
<1>4. ASSUME NEW w \in Workers, WorkerStarts(w) PROVE QueueInvariant'
  <2> USE <1>4 DEF QueueInvariant, WorkerStarts, rowVars, readerVars
  <2>1. LeadsUnderLock'
    BY LockStep
  <2>2. faults' \in 0..MaxFaults
    BY FaultCounted DEF TypeOK
  <2>3. TypeOK'
    BY <2>1, <2>2 DEF TypeOK, LeadsUnderLock
  <2>4. HandsAreAccepted' /\ AnswersAreTrue' /\ MarksAgree'
    BY DEF HandsAreAccepted, AnswersAreTrue, MarksAgree
  <2> QED BY <2>1, <2>3, <2>4
<1>5. ASSUME NEW w \in Workers, WorkerCrashes(w) PROVE QueueInvariant'
  <2>1. LeadsUnderLock'
    BY <1>5, LockStep DEF WorkerCrashes, QueueInvariant
  <2>2. faults' \in 0..MaxFaults /\ w \in Readers
    BY <1>5, FaultCounted DEF WorkerCrashes, QueueInvariant, Readers
  <2> QED BY <1>5, <2>1, <2>2, ForgetKeeps DEF WorkerCrashes
<1>6. CASE BotRestarts
  <2>1. LeadsUnderLock'
    BY <1>6, LockKept DEF BotRestarts, QueueInvariant
  <2>2. faults' \in 0..MaxFaults /\ Bot \in Readers
    BY <1>6, FaultCounted DEF BotRestarts, QueueInvariant, Readers
  <2> QED BY <1>6, <2>1, <2>2, ForgetKeeps DEF BotRestarts
<1>7. CASE UNCHANGED vars
  BY <1>7 DEF vars, leaderVars, rowVars, readerVars, QueueInvariant, TypeOK, LeadsUnderLock,
              LeaderTypeOK, HandsAreAccepted, AnswersAreTrue, MarksAgree
<1> QED BY <1>1, <1>2, <1>3, <1>4, <1>5, <1>6, <1>7 DEF Next

(* The inductive invariant holds in every state of the queue.              *)
THEOREM QueueInvariantCorrect == Spec => []QueueInvariant
<1> QED BY InitInvariant, NextKeeps, PTL DEF Spec

(* A row says what became of its notice: one marked as sent reached the    *)
(* chat, one that is pending did not, unless its sender could not mark it  *)
(* (shomer_telegram_relay.py, alerts.py).                                  *)
THEOREM MarksAgreeCorrect == Spec => []MarksAgree
<1>1. QueueInvariant => MarksAgree
  BY DEF QueueInvariant
<1> QED BY <1>1, QueueInvariantCorrect, PTL

(* Of two workers that run the schedulers, one could not try the lock      *)
(* (shomer_poller_leader.py:39).                                           *)
THEOREM OneSchedulerCorrect == Spec => []OneScheduler
<1>1. QueueInvariant => OneScheduler
  BY DEF QueueInvariant, LeadsUnderLock, OneScheduler
<1> QED BY <1>1, QueueInvariantCorrect, PTL
-----------------------------------------------------------------------------
(* A step that moves one notice is a step of NoticeDelivery.               *)
LEMMA OneMoves ==
  ASSUME NEW n \in Notices,
         \A m \in Notices : m # n => Status'[m] = Status[m],
         \/ Status'[n] = Status[n]
         \/ Status[n] = "new" /\ Status'[n] \in {"accepted", "refused"}
         \/ Status[n] = "accepted" /\ Status'[n] \in {"delivered", "given_up"}
         \/ Status[n] = "given_up" /\ Status'[n] = "delivered"
  PROVE  [Delivery!Next]_Status
<1>1. Status' = [Status EXCEPT ![n] = Status'[n]]
  <2>1. Status = [m \in Notices |-> Status[m]] /\ Status' = [m \in Notices |-> Status'[m]]
    BY DEF Status
  <2> QED BY <2>1
<1>2. CASE Status'[n] = Status[n]
  <2>1. Status = [m \in Notices |-> Status[m]]
    BY DEF Status
  <2> QED BY <1>1, <1>2, <2>1
<1>3. CASE Status'[n] # Status[n]
  BY <1>1, <1>3 DEF Delivery!Next, Delivery!Accept, Delivery!Refuse, Delivery!Settle,
                    Delivery!Arrive, Delivery!Move
<1> QED BY <1>2, <1>3

(* Rows and copies are all that the status of a notice depends on.         *)
LEMMA StatusKept ==
  ASSUME UNCHANGED <<estado, copies>>
  PROVE  UNCHANGED Status
BY DEF Status

LEMMA AskMoves ==
  ASSUME QueueInvariant, NEW n \in Notices, Ask(n)
  PROVE  [Delivery!Next]_Status
<1>1. copies[n] = 0
  BY DEF Ask, QueueInvariant, HandsAreAccepted, TypeOK, Readers
<1>2. Status[n] = "new" /\ Status'[n] \in {"accepted", "refused"}
  BY <1>1 DEF Ask, Status, QueueInvariant, TypeOK
<1>3. \A m \in Notices : m # n => Status'[m] = Status[m]
  BY DEF Ask, Status, QueueInvariant, TypeOK
<1> QED BY <1>2, <1>3, OneMoves

LEMMA PostMoves ==
  ASSUME QueueInvariant, NEW p \in Readers, Post(p)
  PROVE  [Delivery!Next]_Status
<1>1. PICK n \in hand[p] : Post(p)!(n)
  BY DEF Post
<1>2. n \in Notices /\ estado[n] \notin {"none", "refused"}
  BY <1>1 DEF QueueInvariant, TypeOK, HandsAreAccepted
<1>3. UNCHANGED estado /\ \/ UNCHANGED copies
                          \/ copies' = [copies EXCEPT ![n] = @ + 1]
  BY <1>1 DEF rowVars
<1>4. CASE UNCHANGED copies
  BY <1>3, <1>4, StatusKept
<1>5. CASE copies' = [copies EXCEPT ![n] = @ + 1]
  <2>1. Status'[n] = "delivered" /\ Status[n] \in {"accepted", "given_up", "delivered"}
    <3>1. copies'[n] > 0
      BY <1>2, <1>5 DEF QueueInvariant, TypeOK
    <3>2. Status'[n] = "delivered"
      BY <1>2, <3>1 DEF Status
    <3> QED BY <1>2, <3>2 DEF Status, QueueInvariant, TypeOK
  <2>2. \A m \in Notices : m # n => Status'[m] = Status[m]
    BY <1>2, <1>3, <1>5 DEF Status, QueueInvariant, TypeOK
  <2> QED BY <1>2, <2>1, <2>2, OneMoves
<1> QED BY <1>3, <1>4, <1>5

LEMMA MarkMoves ==
  ASSUME QueueInvariant, NEW p \in Readers, Mark(p)
  PROVE  [Delivery!Next]_Status
<1>1. PICK n \in {posted[p]} : Mark(p)!(n)
  BY DEF Mark
<1>2. n \in Notices /\ estado[n] \notin {"none", "refused"} /\ UNCHANGED copies
  BY <1>1 DEF QueueInvariant, TypeOK, HandsAreAccepted
<1>3. CASE UNCHANGED estado
  BY <1>2, <1>3, StatusKept
<1>4. CASE estado' = [estado EXCEPT ![n] = MarkOf(p)] /\ ~(p = Bot /\ ~answer[p])
  <2>1. \/ copies[n] > 0
        \/ /\ copies[n] = 0 /\ MarkOf(p) = "fallo_fallback"
           /\ estado[n] \in {"pendiente", "fallo_fallback"}
    BY <1>1, <1>2, <1>4 DEF QueueInvariant, AnswersAreTrue, MarksAgree, TypeOK, MarkOf, Sent
  <2>2. \/ Status'[n] = Status[n]
        \/ Status[n] = "accepted" /\ Status'[n] = "given_up"
    BY <1>2, <1>4, <2>1 DEF Status, QueueInvariant, TypeOK
  <2>3. \A m \in Notices : m # n => Status'[m] = Status[m]
    BY <1>2, <1>4 DEF Status, QueueInvariant, TypeOK
  <2> QED BY <1>2, <2>2, <2>3, OneMoves
<1> QED BY <1>1, <1>3, <1>4

LEMMA NextMoves ==
  QueueInvariant /\ [Next]_vars => [Delivery!Next]_Status
<1> SUFFICES ASSUME QueueInvariant, [Next]_vars PROVE [Delivery!Next]_Status
  OBVIOUS
<1>1. ASSUME NEW n \in Notices, Ask(n) PROVE [Delivery!Next]_Status
  BY <1>1, AskMoves
<1>2. ASSUME NEW p \in Readers, Post(p) \/ Mark(p) PROVE [Delivery!Next]_Status
  BY <1>2, PostMoves, MarkMoves
<1>3. ASSUME \/ \E n \in Notices : MinutePasses(n)
             \/ \E p \in Readers : Read(p)
             \/ \E w \in Workers : WorkerStarts(w) \/ WorkerCrashes(w)
             \/ BotRestarts
             \/ UNCHANGED vars
      PROVE  [Delivery!Next]_Status
  <2>1. UNCHANGED <<estado, copies>>
    BY <1>3 DEF MinutePasses, Read, WorkerStarts, WorkerCrashes, BotRestarts, rowVars, vars
  <2> QED BY <2>1, StatusKept
<1> QED BY <1>1, <1>2, <1>3 DEF Next

(* The queue implements NoticeDelivery: it begins as it does, and every    *)
(* step moves one notice as it may, or none (the safety of                 *)
(* NoticesDelivered; its fairness is model-checked).                       *)
THEOREM QueueImplementsDelivery ==
  Spec => Delivery!Init /\ [][Delivery!Next]_Status
<1>1. Init => Delivery!Init
  BY DEF Init, Delivery!Init, Status
<1> QED BY <1>1, NextMoves, QueueInvariantCorrect, PTL DEF Spec

-----------------------------------------------------------------------------
(* The alert of the internet (ServerHealth).                               *)
USE StampAssumption, PauseAssumption

(* Where the alert of an outage lies, in either store, is announced.       *)
AlertsAreOwed == redisAlert # NoStamp \/ diskAlert # NoStamp => owed

(* What the stopwatch shows at each step of a tick, when no fault left the *)
(* marks half written.                                                     *)
StopwatchAgrees ==
  /\ at \in {"idle", "due"} => redisFail = outage /\ diskFail = outage
  /\ at = "down" => redisFail = diskFail /\ outage # NoStamp /\ redisFail \in {NoStamp, outage}
  /\ at = "down" /\ redisFail = NoStamp => outage = 0
  /\ at = "start_copy" => redisFail = 0 /\ outage = 0
  /\ at \in {"alert", "alert_copy", "send"} => outage = FailSec /\ redisFail = outage /\ diskFail = outage
  /\ at = "up" => outage = NoStamp /\ redisFail = diskFail
  /\ at = "clear_copy" => outage = NoStamp /\ redisFail = NoStamp
  /\ at \in {"restored", "clear_alert"} => outage = NoStamp /\ redisFail = NoStamp /\ diskFail = NoStamp

AlertAgrees ==
  /\ at \notin {"alert_copy", "send", "clear_alert"} => AlertsAreOwed
  /\ at = "restored" => owed
  /\ at = "clear_alert" => redisAlert = NoStamp

WanInvariant == HealthTypeOK /\ (~dirty => StopwatchAgrees) /\ (~dirty => AlertAgrees)

LEMMA HealthStarts == HealthInit => WanInvariant
<1> SUFFICES ASSUME HealthInit PROVE WanInvariant
  OBVIOUS
<1>1. 0 \in 0..MaxCuts
  OBVIOUS
<1>3. HealthTypeOK
  BY <1>1 DEF HealthInit, HealthTypeOK
<1>2. StopwatchAgrees /\ AlertAgrees
  BY DEF HealthInit, StopwatchAgrees, AlertAgrees, AlertsAreOwed
<1> QED BY <1>2, <1>3 DEF WanInvariant

LEMMA AgedStamp ==
  ASSUME NEW top \in Nat, NEW age \in (0..top) \cup {NoStamp}
  PROVE  Aged(age, top) \in (0..top) \cup {NoStamp}
BY DEF Aged

LEMMA CutCounts ==
  ASSUME HealthTypeOK, UNCHANGED <<dirty, cuts>> \/ Cut
  PROVE  dirty' \in BOOLEAN /\ cuts' \in 0..MaxCuts
<1>1. dirty \in BOOLEAN /\ cuts \in 0..MaxCuts
  BY DEF HealthTypeOK
<1>2. dirty' \in BOOLEAN
  BY <1>1 DEF Cut
<1>3. cuts' \in 0..MaxCuts
  BY <1>1 DEF Cut
<1> QED BY <1>2, <1>3

LEMMA HealthTypeStep ==
  ASSUME HealthTypeOK, HealthNext
  PROVE  HealthTypeOK'
<1> DEFINE Fails  == (0..FailSec) \cup {NoStamp}
           Redis  == (0..(AlertPause - 1)) \cup {NoStamp}
           Disk   == (0..AlertPause) \cup {NoStamp}
           Places == {"idle", "due", "down", "start_copy", "alert", "alert_copy", "send",
                      "up", "clear_copy", "restored", "clear_alert"}
<1>1. /\ unreachable \subseteq Destinations /\ at \in Places
      /\ redisFail \in Fails /\ diskFail \in Fails /\ outage \in Fails
      /\ redisAlert \in Redis /\ diskAlert \in Disk
      /\ owed \in BOOLEAN /\ dirty \in BOOLEAN /\ cuts \in 0..MaxCuts
  BY DEF HealthTypeOK
<1>2. 0 \in Fails /\ NoStamp \in Fails /\ 0 \in Redis /\ NoStamp \in Redis /\ 0 \in Disk /\ NoStamp \in Disk
  OBVIOUS
<1>3. SUFFICES /\ unreachable' \subseteq Destinations /\ at' \in Places
               /\ redisFail' \in Fails /\ diskFail' \in Fails /\ outage' \in Fails
               /\ redisAlert' \in Redis /\ diskAlert' \in Disk
               /\ owed' \in BOOLEAN /\ dirty' \in BOOLEAN /\ cuts' \in 0..MaxCuts
  BY DEF HealthTypeOK
<1>4. CASE LoopSleeps
  <2>1. Aged(redisFail, FailSec) \in Fails /\ Aged(diskFail, FailSec) \in Fails /\ Aged(outage, FailSec) \in Fails
    BY <1>1, AgedStamp
  <2>2. Aged(diskAlert, AlertPause) \in Disk
    BY <1>1, AgedStamp
  <2>3. redisAlert' \in Redis
    BY <1>1, <1>2, <1>4 DEF LoopSleeps, Aged
  <2> HIDE DEF Fails, Redis, Disk
  <2> QED BY <1>1, <1>4, <2>1, <2>2, <2>3 DEF LoopSleeps
<1>5. CASE CheckQuorum
  <2>1. outage' \in Fails
    BY <1>1, <1>2, <1>5 DEF CheckQuorum
  <2>2. UNCHANGED <<dirty, cuts>> \/ Cut
    BY <1>5 DEF CheckQuorum, Cut
  <2>4. dirty' \in BOOLEAN /\ cuts' \in 0..MaxCuts
    BY <2>2, CutCounts
  <2>3. at' \in Places
    BY <1>5 DEF CheckQuorum
  <2> HIDE DEF Fails, Redis, Disk
  <2> QED BY <1>1, <1>5, <2>1, <2>4, <2>3 DEF CheckQuorum, wanStamps
<1>6. CASE SeesDown
  <2> HIDE DEF Fails, Redis, Disk
  <2> QED BY <1>1, <1>2, <1>6 DEF SeesDown, wanHistory
<1>7. CASE StartCopied
  <2>1. dirty' \in BOOLEAN /\ cuts' \in 0..MaxCuts
    BY <1>7, CutCounts DEF StartCopied
  <2> HIDE DEF Fails, Redis, Disk
  <2> QED BY <1>1, <1>2, <1>7, <2>1 DEF StartCopied
<1>8. CASE AlertMarked
  <2> HIDE DEF Fails, Redis, Disk
  <2> QED BY <1>1, <1>2, <1>8 DEF AlertMarked, wanHistory
<1>9. CASE AlertCopied
  <2>1. dirty' \in BOOLEAN /\ cuts' \in 0..MaxCuts
    BY <1>9, CutCounts DEF AlertCopied
  <2> HIDE DEF Fails, Redis, Disk
  <2> QED BY <1>1, <1>2, <1>9, <2>1 DEF AlertCopied
<1>10. CASE AlertSent
  <2> HIDE DEF Fails, Redis, Disk
  <2> QED BY <1>1, <1>10 DEF AlertSent, wanStamps
<1>11. CASE SeesUp
  <2> HIDE DEF Fails, Redis, Disk
  <2> QED BY <1>1, <1>2, <1>11 DEF SeesUp, wanHistory
<1>12. CASE ClearCopied
  <2>1. dirty' \in BOOLEAN /\ cuts' \in 0..MaxCuts
    BY <1>12, CutCounts DEF ClearCopied
  <2> HIDE DEF Fails, Redis, Disk
  <2> QED BY <1>1, <1>2, <1>12, <2>1 DEF ClearCopied
<1>13. CASE RestoredSent
  <2> HIDE DEF Fails, Redis, Disk
  <2> QED BY <1>1, <1>2, <1>13 DEF RestoredSent
<1>14. CASE AlertCleared
  <2>1. dirty' \in BOOLEAN /\ cuts' \in 0..MaxCuts
    BY <1>14, CutCounts DEF AlertCleared
  <2> HIDE DEF Fails, Redis, Disk
  <2> QED BY <1>1, <1>2, <1>14, <2>1 DEF AlertCleared
<1>15. CASE TickCut
  <2>1. dirty' \in BOOLEAN /\ cuts' \in 0..MaxCuts
    BY <1>15, CutCounts DEF TickCut
  <2> HIDE DEF Fails, Redis, Disk
  <2> QED BY <1>1, <1>15, <2>1 DEF TickCut, wanStamps
<1>16. CASE RedisLost
  <2>1. dirty' \in BOOLEAN /\ cuts' \in 0..MaxCuts
    BY <1>16, CutCounts DEF RedisLost
  <2> HIDE DEF Fails, Redis, Disk
  <2> QED BY <1>1, <1>2, <1>16, <2>1 DEF RedisLost
<1>17. ASSUME NEW d \in Destinations, Toggle(d) PROVE <1>3!1
  <2> HIDE DEF Fails, Redis, Disk
  <2> QED BY <1>1, <1>17 DEF Toggle, wanStamps, wanHistory
<1> QED BY <1>4, <1>5, <1>6, <1>7, <1>8, <1>9, <1>10, <1>11, <1>12, <1>13, <1>14, <1>15, <1>16, <1>17
        DEF HealthNext, HealthTick

(* A step that ends without a fault began without one.                     *)
LEMMA StopwatchStep ==
  ASSUME WanInvariant, HealthNext, ~dirty'
  PROVE  StopwatchAgrees'
<1>1. HealthTypeOK
  BY DEF WanInvariant
<1>2. ~dirty /\ ~Cut
  BY <1>1 DEF HealthTypeOK, HealthNext, HealthTick, LoopSleeps, CheckQuorum, SeesDown, StartCopied,
              AlertMarked, AlertCopied, AlertSent, SeesUp, ClearCopied, RestoredSent, AlertCleared,
              TickCut, RedisLost, Toggle, wanHistory, Cut
<1>3. StopwatchAgrees
  BY <1>2 DEF WanInvariant
<1> USE <1>2, <1>3 DEF StopwatchAgrees
<1>4. CASE LoopSleeps
  BY <1>4 DEF LoopSleeps
<1>5. CASE CheckQuorum
  BY <1>5 DEF CheckQuorum, wanStamps
<1>6. CASE SeesDown
  <2>1. /\ redisFail = diskFail /\ redisFail \in {NoStamp, outage}
        /\ UNCHANGED <<diskFail, outage>>
    BY <1>6 DEF SeesDown, wanHistory
  <2>2. CASE redisFail = NoStamp
    <3>1. FailStart = NoStamp
      BY <2>1, <2>2 DEF FailStart, Either
    <3> QED BY <1>6, <2>1, <2>2, <3>1 DEF SeesDown
  <2>3. CASE redisFail # NoStamp
    <3>1. FailStart = outage /\ redisFail = outage
      BY <2>1, <2>3 DEF FailStart, Either
    <3>2. at' = (IF StillWaits(outage) \/ Paused(LastAlert) THEN "idle" ELSE "alert") /\ UNCHANGED redisFail
      BY <1>6, <2>3, <3>1 DEF SeesDown
    <3>3. outage \in 0..FailSec
      BY <1>1, <2>3, <3>1 DEF HealthTypeOK
    <3>4. at' = "alert" => outage = FailSec
      BY <3>2, <3>3 DEF StillWaits
    <3> QED BY <2>1, <3>1, <3>2, <3>4
  <2> QED BY <2>2, <2>3
<1>7. CASE StartCopied
  BY <1>7 DEF StartCopied
<1>8. CASE AlertMarked
  BY <1>8 DEF AlertMarked, wanHistory
<1>9. CASE AlertCopied
  BY <1>9 DEF AlertCopied
<1>10. CASE AlertSent
  BY <1>10 DEF AlertSent, wanStamps
<1>11. CASE SeesUp
  BY <1>11 DEF SeesUp, wanHistory, FailStart, Either
<1>12. CASE ClearCopied
  BY <1>12 DEF ClearCopied
<1>13. CASE RestoredSent
  BY <1>13 DEF RestoredSent
<1>14. CASE AlertCleared
  BY <1>14 DEF AlertCleared
<1>15. CASE TickCut \/ RedisLost
  BY <1>15 DEF TickCut, RedisLost
<1>16. ASSUME NEW d \in Destinations, Toggle(d) PROVE StopwatchAgrees'
  BY <1>16 DEF Toggle, wanStamps, wanHistory
<1> QED BY <1>4, <1>5, <1>6, <1>7, <1>8, <1>9, <1>10, <1>11, <1>12, <1>13, <1>14, <1>15, <1>16
        DEF HealthNext, HealthTick

LEMMA AlertStep ==
  ASSUME WanInvariant, HealthNext, ~dirty'
  PROVE  AlertAgrees'
<1>1. HealthTypeOK
  BY DEF WanInvariant
<1>2. ~dirty /\ ~Cut
  BY <1>1 DEF HealthTypeOK, HealthNext, HealthTick, LoopSleeps, CheckQuorum, SeesDown, StartCopied,
              AlertMarked, AlertCopied, AlertSent, SeesUp, ClearCopied, RestoredSent, AlertCleared,
              TickCut, RedisLost, Toggle, wanHistory, Cut
<1>3. AlertAgrees
  BY <1>2 DEF WanInvariant
<1> USE <1>2, <1>3 DEF AlertAgrees, AlertsAreOwed
<1>4. CASE LoopSleeps
  <2>1. redisAlert = NoStamp => redisAlert' = NoStamp
    BY <1>4 DEF LoopSleeps, Aged
  <2>2. diskAlert = NoStamp => diskAlert' = NoStamp
    BY <1>4 DEF LoopSleeps, Aged
  <2> QED BY <1>4, <2>1, <2>2 DEF LoopSleeps
<1>5. CASE CheckQuorum
  BY <1>5 DEF CheckQuorum, wanStamps
<1>6. CASE SeesDown
  BY <1>6 DEF SeesDown, wanHistory
<1>7. CASE StartCopied
  BY <1>7 DEF StartCopied
<1>8. CASE AlertMarked
  BY <1>8 DEF AlertMarked, wanHistory
<1>9. CASE AlertCopied
  BY <1>9 DEF AlertCopied
<1>10. CASE AlertSent
  BY <1>10 DEF AlertSent, wanStamps
<1>11. CASE SeesUp
  BY <1>11 DEF SeesUp, wanHistory
<1>12. CASE ClearCopied
  BY <1>12 DEF ClearCopied, LastAlert, Either
<1>13. CASE RestoredSent
  BY <1>13 DEF RestoredSent
<1>14. CASE AlertCleared
  BY <1>14 DEF AlertCleared
<1>15. CASE TickCut \/ RedisLost
  BY <1>15 DEF TickCut, RedisLost
<1>16. ASSUME NEW d \in Destinations, Toggle(d) PROVE AlertAgrees'
  BY <1>16 DEF Toggle, wanStamps, wanHistory
<1> QED BY <1>4, <1>5, <1>6, <1>7, <1>8, <1>9, <1>10, <1>11, <1>12, <1>13, <1>14, <1>15, <1>16
        DEF HealthNext, HealthTick

LEMMA HealthStep ==
  ASSUME WanInvariant, HealthNext
  PROVE  WanInvariant'
<1>1. HealthTypeOK'
  BY HealthTypeStep DEF WanInvariant
<1> QED BY <1>1, StopwatchStep, AlertStep DEF WanInvariant

LEMMA HealthRests ==
  ASSUME WanInvariant, UNCHANGED healthVars
  PROVE  WanInvariant'
BY DEF WanInvariant, HealthTypeOK, StopwatchAgrees, AlertAgrees, AlertsAreOwed, healthVars, wanStamps, wanHistory

LEMMA HealthEarned ==
  ASSUME WanInvariant, HealthNext
  PROVE  /\ (~owed /\ owed') => outage = FailSec \/ dirty
         /\ (at = "restored" /\ at' # "restored") => owed \/ dirty
<1>1. (~owed /\ owed') => at = "send"
  BY DEF HealthNext, HealthTick, LoopSleeps, CheckQuorum, SeesDown, StartCopied,
         AlertMarked, AlertCopied, AlertSent, SeesUp, ClearCopied, RestoredSent, AlertCleared,
         TickCut, RedisLost, Toggle, wanHistory
<1> QED BY <1>1 DEF WanInvariant, StopwatchAgrees, AlertAgrees
-----------------------------------------------------------------------------
(* The heartbeat and the count of restarts (HealthReports).                *)
USE HourAssumption, DayAssumption

(* The restarts an hour can count while the count has its expiry: each     *)
(* start that counts needs the startup key gone, and lives as long.        *)
CountKnown ==
  ~lasting => /\ (~startupSent /\ ~countEnds) => restarts = 0
              /\ (startupSent \/ countEnds) => restarts <= 2
              /\ ~(startupSent /\ countEnds) => restarts <= 1

ReportsInvariant == ReportsTypeOK /\ CountKnown /\ RestartsUntold

LEMMA ReportsStarts == ReportsInit => ReportsInvariant
<1> SUFFICES ASSUME ReportsInit PROVE ReportsInvariant
  OBVIOUS
<1>1. 0 \in 0..(Day - 1) /\ 0 \in 0..RestartsToTell /\ 0 \in 0..MaxLost
  OBVIOUS
<1>2. ReportsTypeOK
  BY <1>1 DEF ReportsInit, ReportsTypeOK
<1>3. CountKnown /\ RestartsUntold
  BY DEF ReportsInit, CountKnown, RestartsUntold
<1> QED BY <1>2, <1>3 DEF ReportsInvariant

LEMMA NextHour ==
  ASSUME NEW h \in 0..(Day - 1)
  PROVE  (h + 1) % Day \in 0..(Day - 1)
<1>1. h + 1 \in Nat /\ Day \in Nat \ {0}
  OBVIOUS
<1> QED BY <1>1

LEMMA LostCounts ==
  ASSUME ReportsTypeOK, UNCHANGED lost \/ Lose
  PROVE  lost' \in 0..MaxLost
BY DEF ReportsTypeOK, Lose

LEMMA ReportsTypeStep ==
  ASSUME ReportsTypeOK, ReportsNext
  PROVE  ReportsTypeOK'
<1> DEFINE Hours == 0..(Day - 1)
           Marks == Hours \cup {NoHour}
           Counts == 0..RestartsToTell
<1>1. /\ hour \in Hours /\ hourTicks \in BOOLEAN /\ reported \in BOOLEAN
      /\ startupSent \in BOOLEAN /\ countEnds \in BOOLEAN /\ lasting \in BOOLEAN
      /\ redisHour \in Marks /\ diskHour \in Marks
      /\ restarts \in Counts /\ told \in Counts /\ lost \in 0..MaxLost
  BY DEF ReportsTypeOK
<1>2. 0 \in Counts /\ 1 \in Counts /\ NoHour \in Marks /\ hour \in Marks
  BY <1>1
<1>3. lost' \in 0..MaxLost
  BY LostCounts DEF ReportsNext, HourPasses, HourKeyExpires, HeartbeatTick, HeartbeatMissed,
     ServiceStarts, StartKeyExpires, CountExpires, RedisEmptied
<1>4. SUFFICES /\ hour' \in Hours /\ hourTicks' \in BOOLEAN /\ reported' \in BOOLEAN
               /\ startupSent' \in BOOLEAN /\ countEnds' \in BOOLEAN /\ lasting' \in BOOLEAN
               /\ redisHour' \in Marks /\ diskHour' \in Marks
               /\ restarts' \in Counts /\ told' \in Counts
  BY <1>3 DEF ReportsTypeOK
<1>5. CASE HourPasses
  <2>1. (hour + 1) % Day \in Hours
    BY <1>1, NextHour
  <2> HIDE DEF Hours, Marks, Counts
  <2> QED BY <1>1, <1>2, <1>5, <2>1 DEF HourPasses, startVars
<1>6. CASE HourKeyExpires
  <2> HIDE DEF Hours, Marks, Counts
  <2> QED BY <1>1, <1>2, <1>6 DEF HourKeyExpires, startVars
<1>7. CASE HeartbeatTick \/ HeartbeatMissed
  <2> HIDE DEF Hours, Marks, Counts
  <2> QED BY <1>1, <1>2, <1>7 DEF HeartbeatTick, HeartbeatMissed, DiskMark, startVars
<1>8. CASE ServiceStarts
  <2>1. restarts' \in Counts
    BY <1>1, <1>2, <1>8 DEF ServiceStarts
  <2>2. told' \in Counts
    BY <1>1, <1>2, <1>8 DEF ServiceStarts, Tells
  <2>3. lasting' \in BOOLEAN
    BY <1>1, <1>8 DEF ServiceStarts
  <2> HIDE DEF Hours, Marks, Counts
  <2> QED BY <1>1, <1>8, <2>1, <2>2, <2>3 DEF ServiceStarts, heartbeatVars
<1>9. CASE StartKeyExpires
  <2> HIDE DEF Hours, Marks, Counts
  <2> QED BY <1>1, <1>2, <1>9 DEF StartKeyExpires, heartbeatVars
<1>10. CASE CountExpires
  <2> HIDE DEF Hours, Marks, Counts
  <2> QED BY <1>1, <1>2, <1>10 DEF CountExpires, heartbeatVars
<1>11. CASE RedisEmptied
  <2> HIDE DEF Hours, Marks, Counts
  <2> QED BY <1>1, <1>2, <1>11 DEF RedisEmptied
<1> QED BY <1>5, <1>6, <1>7, <1>8, <1>9, <1>10, <1>11 DEF ReportsNext

LEMMA ReportsStep ==
  ASSUME ReportsInvariant, ReportsNext
  PROVE  ReportsInvariant'
<1>1. /\ restarts \in Nat /\ told \in Nat /\ RestartsToTell \in Nat
      /\ startupSent \in BOOLEAN /\ countEnds \in BOOLEAN /\ lasting \in BOOLEAN
  BY DEF ReportsInvariant, ReportsTypeOK
<1>2. ReportsTypeOK'
  BY ReportsTypeStep DEF ReportsInvariant
<1> USE DEF ReportsInvariant, CountKnown, RestartsUntold
<1>3. CASE HourPasses \/ HourKeyExpires \/ HeartbeatTick \/ HeartbeatMissed
  BY <1>2, <1>3 DEF HourPasses, HourKeyExpires, HeartbeatTick, HeartbeatMissed, startVars
<1>4. CASE ServiceStarts
  <2>1. ~lasting /\ ~lasting' => restarts' <= restarts + 1 /\ (~countEnds => restarts' <= 1)
    BY <1>1, <1>4 DEF ServiceStarts
  <2>2. CountKnown'
    BY <1>1, <1>4, <2>1 DEF ServiceStarts
  <2>3. ~lasting /\ ~lasting' => told' <= 2
    BY <1>1, <1>4 DEF ServiceStarts, Tells
  <2>4. told' \in Nat /\ (~lasting' => ~lasting)
    BY <1>2, <1>4 DEF ServiceStarts, ReportsTypeOK
  <2>5. RestartsUntold'
    BY <2>3, <2>4
  <2> QED BY <1>2, <2>2, <2>5
<1>5. CASE StartKeyExpires
  <2>1. /\ startupSent /\ ~countEnds /\ ~startupSent' /\ told' = 0
        /\ UNCHANGED <<restarts, lasting>>
    BY <1>5 DEF StartKeyExpires
  <2>2. ~lasting => (countEnds' <=> restarts > 0)
    BY <1>5 DEF StartKeyExpires
  <2>3. ~lasting => restarts <= 1
    BY <2>1
  <2>4. CountKnown'
    BY <1>1, <2>1, <2>2, <2>3
  <2> QED BY <1>2, <2>1, <2>4
<1>6. CASE CountExpires
  BY <1>1, <1>2, <1>6 DEF CountExpires
<1>7. CASE RedisEmptied
  BY <1>2, <1>7 DEF RedisEmptied
<1> QED BY <1>3, <1>4, <1>5, <1>6, <1>7 DEF ReportsNext

LEMMA ReportsRests ==
  ASSUME ReportsInvariant, UNCHANGED reportVars
  PROVE  ReportsInvariant'
BY DEF ReportsInvariant, ReportsTypeOK, CountKnown, RestartsUntold, reportVars, heartbeatVars, startVars
-----------------------------------------------------------------------------
(* The watch over the host (SecurityWatch).                                *)
USE BurstAssumption

(* What the next turn reads as new are the failures no rotation and no     *)
(* restart lost; those of earlier turns stand one turn further in the      *)
(* window than the watch has them.                                         *)
NewAreRead ==
  /\ started /\ ~rotated => offset <= lines /\ happened[0] = lines - offset
  /\ started /\ rotated => happened[0] = lines
  /\ ~started => happened[0] = 0

OldAreCounted == \A a \in Ages \ {0} : happened[a] = failTimes[a - 1]

SecurityInvariant == SecurityTypeOK /\ NewAreRead /\ OldAreCounted

LEMMA AgesGo == 0 \in Ages /\ \A a \in Ages \ {0} : a - 1 \in Ages
BY DEF Ages

LEMMA SecurityStarts == SecurityInit => SecurityInvariant
<1> SUFFICES ASSUME SecurityInit PROVE SecurityInvariant
  OBVIOUS
<1>1. 0 \in 0..MaxLines /\ 0 \in Ages
  BY DEF Ages
<1>2. NoneFail \in [Ages -> 0..MaxLines] /\ \A a \in Ages : NoneFail[a] = 0
  BY <1>1 DEF NoneFail
<1>3. SecurityTypeOK
  BY <1>1, <1>2 DEF SecurityInit, SecurityTypeOK
<1>4. NewAreRead /\ OldAreCounted
  BY <1>1, <1>2, AgesGo DEF SecurityInit, NewAreRead, OldAreCounted
<1> QED BY <1>3, <1>4 DEF SecurityInvariant

(* The turn reads the new lines, unless the new file outgrew the offset.   *)
LEMMA ReadsNew ==
  ASSUME SecurityInvariant, started
  PROVE  /\ NewLines \in 0..MaxLines
         /\ ~Outgrown => NewLines = happened[0]
<1>1. lines \in 0..MaxLines /\ offset \in 0..MaxLines /\ rotated \in BOOLEAN
  BY DEF SecurityInvariant, SecurityTypeOK
<1> QED BY <1>1 DEF SecurityInvariant, NewAreRead, NewLines, ReadFrom, Outgrown

LEMMA TurnLaterType ==
  ASSUME NEW f \in [Ages -> 0..MaxLines], NEW new \in 0..MaxLines
  PROVE  TurnLater(f, new) \in [Ages -> 0..MaxLines]
BY AgesGo DEF TurnLater

LEMMA NextClock ==
  ASSUME NEW c \in Ages
  PROVE  (c + 1) % BurstWindow \in Ages
<1>1. c + 1 \in Nat /\ BurstWindow \in Nat \ {0}
  BY DEF Ages
<1> QED BY <1>1 DEF Ages

LEMMA TurnKeeps ==
  ASSUME SecurityInvariant, Turn
  PROVE  SecurityInvariant'
<1> DEFINE Fails == [Ages -> 0..MaxLines]
           seen  == [happened EXCEPT ![0] = IF Outgrown THEN NewLines ELSE @]
<1>1. /\ lines \in 0..MaxLines /\ failTimes \in Fails /\ happened \in Fails /\ clock \in Ages
      /\ {started, keyed, rotated} \subseteq BOOLEAN
      /\ present \subseteq Things /\ warned \subseteq Things \ Trusted
  BY DEF SecurityInvariant, SecurityTypeOK
<1>2. NewLines \in 0..MaxLines /\ (~Outgrown => NewLines = happened[0])
  BY ReadsNew DEF Turn
<1>3. seen \in Fails /\ seen[0] = NewLines /\ \A a \in Ages \ {0} : seen[a] = happened[a]
  BY <1>1, <1>2, AgesGo
<1> HIDE DEF seen
<1>4. failTimes' = TurnLater(failTimes, NewLines) /\ happened' = TurnLater(seen, 0)
  BY DEF Turn, Counted, seen
<1>5. 0 \in 0..MaxLines
  OBVIOUS
<1>6. failTimes' \in Fails /\ happened' \in Fails
  BY <1>1, <1>2, <1>3, <1>4, <1>5, TurnLaterType
<1>7. clock' \in Ages
  BY <1>1, NextClock DEF Turn
<1>8. keyed' \in BOOLEAN
  BY DEF Turn
<1>9. /\ UNCHANGED <<lines, started, present>> /\ offset' = lines /\ rotated' = FALSE
      /\ warned' \subseteq Things \ Trusted
  BY <1>1 DEF Turn
<1>10. SecurityTypeOK'
  BY <1>1, <1>6, <1>7, <1>8, <1>9 DEF SecurityTypeOK
<1>11. happened'[0] = 0
  BY <1>4, AgesGo DEF TurnLater
<1>12. NewAreRead'
  BY <1>1, <1>9, <1>11 DEF NewAreRead, Turn
<1>13. ASSUME NEW a \in Ages \ {0} PROVE happened'[a] = failTimes'[a - 1]
  <2>1. a - 1 \in Ages /\ happened'[a] = seen[a - 1]
    BY <1>4, AgesGo DEF TurnLater
  <2>2. CASE a - 1 = 0
    <3>1. failTimes'[0] = NewLines
      BY <1>4, AgesGo DEF TurnLater
    <3> QED BY <1>3, <2>1, <2>2, <3>1
  <2>3. CASE a - 1 # 0
    <3>1. failTimes'[a - 1] = failTimes[(a - 1) - 1]
      BY <1>4, <2>1, <2>3 DEF TurnLater
    <3>2. seen[a - 1] = happened[a - 1]
      BY <1>3, <2>1, <2>3
    <3> QED BY <2>1, <2>3, <3>1, <3>2 DEF SecurityInvariant, OldAreCounted
  <2> QED BY <2>2, <2>3
<1> QED BY <1>10, <1>12, <1>13 DEF SecurityInvariant, OldAreCounted

LEMMA SecurityStep ==
  ASSUME SecurityInvariant, SecurityNext
  PROVE  SecurityInvariant'
<1> DEFINE Fails == [Ages -> 0..MaxLines]
<1>1. /\ lines \in 0..MaxLines /\ offset \in 0..MaxLines
      /\ failTimes \in Fails /\ happened \in Fails /\ clock \in Ages
      /\ started \in BOOLEAN /\ keyed \in BOOLEAN /\ rotated \in BOOLEAN
      /\ present \subseteq Things /\ warned \subseteq Things \ Trusted
  BY DEF SecurityInvariant, SecurityTypeOK
<1>2. CASE PasswordFails
  <2>1. lines' = lines + 1 /\ lines' \in 0..MaxLines
    BY <1>1, <1>2 DEF PasswordFails
  <2>2. started => happened[0] + 1 \in 0..MaxLines
    BY <1>1, <2>1 DEF SecurityInvariant, NewAreRead
  <2>3. /\ happened' \in Fails
        /\ happened'[0] = IF started THEN happened[0] + 1 ELSE happened[0]
        /\ \A a \in Ages \ {0} : happened'[a] = happened[a]
    BY <1>1, <1>2, <2>2, AgesGo DEF PasswordFails
  <2>4. UNCHANGED <<offset, started, failTimes, clock, keyed, present, warned, rotated>>
    BY <1>2 DEF PasswordFails, burstVars
  <2>5. SecurityTypeOK'
    BY <1>1, <2>1, <2>3, <2>4 DEF SecurityTypeOK
  <2>6. NewAreRead'
    BY <1>1, <2>1, <2>3, <2>4 DEF SecurityInvariant, NewAreRead
  <2>7. OldAreCounted'
    BY <2>3, <2>4 DEF SecurityInvariant, OldAreCounted
  <2> QED BY <2>5, <2>6, <2>7 DEF SecurityInvariant
<1>3. CASE LogRotates
  <2>1. lines' = 0 /\ rotated' = TRUE /\ 0 \in 0..MaxLines
    BY <1>3 DEF LogRotates
  <2>2. happened' \in Fails /\ happened'[0] = 0 /\ \A a \in Ages \ {0} : happened'[a] = happened[a]
    BY <1>1, <1>3, <2>1, AgesGo DEF LogRotates
  <2>3. UNCHANGED <<offset, started, failTimes, clock, keyed, present, warned>>
    BY <1>3 DEF LogRotates, burstVars
  <2>4. SecurityTypeOK'
    BY <1>1, <2>1, <2>2, <2>3 DEF SecurityTypeOK
  <2>5. NewAreRead'
    BY <1>1, <2>1, <2>2, <2>3 DEF NewAreRead
  <2>6. OldAreCounted'
    BY <2>2, <2>3 DEF SecurityInvariant, OldAreCounted
  <2> QED BY <2>4, <2>5, <2>6 DEF SecurityInvariant
<1>4. CASE ThingChanges
  <2>1. present' \subseteq Things
    BY <1>1, <1>4 DEF ThingChanges
  <2>2. UNCHANGED <<lines, offset, started, failTimes, clock, keyed, warned, rotated, happened>>
    BY <1>4 DEF ThingChanges, logVars, burstVars
  <2>3. SecurityTypeOK'
    BY <1>1, <2>1, <2>2 DEF SecurityTypeOK
  <2> QED BY <2>2, <2>3 DEF SecurityInvariant, NewAreRead, OldAreCounted
<1>5. CASE StartsAtEnd
  <2>1. ~started /\ started' = TRUE /\ offset' = lines /\ rotated' = FALSE
    BY <1>5 DEF StartsAtEnd
  <2>2. UNCHANGED <<lines, failTimes, clock, keyed, present, warned, happened>>
    BY <1>5 DEF StartsAtEnd, burstVars
  <2>3. SecurityTypeOK'
    BY <1>1, <2>1, <2>2 DEF SecurityTypeOK
  <2>4. happened'[0] = 0
    BY <2>1, <2>2 DEF SecurityInvariant, NewAreRead
  <2>5. NewAreRead'
    BY <1>1, <2>1, <2>2, <2>4 DEF NewAreRead
  <2> QED BY <2>2, <2>3, <2>5 DEF SecurityInvariant, OldAreCounted
<1>6. CASE Turn
  BY <1>6, TurnKeeps
<1>7. CASE WatchRestarts
  <2>1. NoneFail \in Fails /\ \A a \in Ages : NoneFail[a] = 0
    BY DEF NoneFail
  <2>2. /\ started' = FALSE /\ failTimes' = NoneFail /\ happened' = NoneFail
        /\ keyed' = FALSE /\ warned' = {} /\ rotated' = FALSE
        /\ UNCHANGED <<lines, offset, clock, present>>
    BY <1>7 DEF WatchRestarts
  <2>3. SecurityTypeOK'
    BY <1>1, <2>1, <2>2 DEF SecurityTypeOK
  <2>4. NewAreRead' /\ OldAreCounted'
    BY <2>1, <2>2, AgesGo DEF NewAreRead, OldAreCounted
  <2> QED BY <2>3, <2>4 DEF SecurityInvariant
<1> QED BY <1>2, <1>3, <1>4, <1>5, <1>6, <1>7 DEF SecurityNext

LEMMA SecurityRests ==
  ASSUME SecurityInvariant, UNCHANGED securityVars
  PROVE  SecurityInvariant'
BY DEF SecurityInvariant, SecurityTypeOK, NewAreRead, OldAreCounted, securityVars, logVars, burstVars

(* What the watch counts at a turn is what happened.                       *)
LEMMA CountsTrue ==
  ASSUME SecurityInvariant, started, ~Outgrown
  PROVE  Counted = happened
<1>1. happened \in [Ages -> 0..MaxLines]
  BY DEF SecurityInvariant, SecurityTypeOK
<1>2. NewLines = happened[0]
  BY ReadsNew
<1>3. \A a \in Ages : (IF a = 0 THEN NewLines ELSE failTimes[a - 1]) = happened[a]
  BY <1>2 DEF SecurityInvariant, OldAreCounted
<1>4. Counted = [a \in Ages |-> IF a = 0 THEN NewLines ELSE failTimes[a - 1]]
  BY DEF Counted, TurnLater
<1> QED BY <1>1, <1>3, <1>4

LEMMA SecurityWarns ==
  ASSUME SecurityInvariant, SecurityNext, clock' # clock, ~KeyHeld, ~Outgrown
  PROVE  keyed' <=> happened[0] > 0 /\ Total(happened) >= BurstFailures
<1>1. Turn
  BY DEF SecurityNext, PasswordFails, LogRotates, ThingChanges, StartsAtEnd, WatchRestarts, burstVars
<1>2. NewLines = happened[0] /\ Counted = happened
  BY <1>1, ReadsNew, CountsTrue DEF Turn
<1>3. keyed' <=> NewLines > 0 /\ Total(Counted) >= BurstFailures
  BY <1>1 DEF Turn, WarnsBurst
<1> QED BY <1>2, <1>3
-----------------------------------------------------------------------------
(* The counters of the network card (NicCounters).                         *)
USE NicAssumption

(* From one sample to a later one, or to now, the counter grows by no more *)
(* than what was dropped between them.                                     *)
NeverAhead ==
  /\ \A i \in 1 .. Len(samples) :
       /\ samples[i].drops <= drops
       /\ counter + samples[i].drops <= drops + samples[i].value
  /\ \A i, j \in 1 .. Len(samples) : i < j =>
       /\ samples[i].drops <= samples[j].drops
       /\ samples[j].value + samples[i].drops <= samples[j].drops + samples[i].value

NicInvariant == NicTypeOK /\ NeverAhead

Samples == [value : 0..MaxDrops, drops : 0..MaxDrops, age : 0..(NicWindow - 1)]

LEMMA NicStarts == NicInit => NicInvariant
<1> SUFFICES ASSUME NicInit PROVE NicInvariant
  OBVIOUS
<1>1. 0 \in 0..0 /\ 0 \in 0..MaxDrops /\ <<>> \in Seq(Samples) /\ Len(<<>>) = 0
  OBVIOUS
<1>2. NicTypeOK
  BY <1>1 DEF NicInit, NicTypeOK, Samples
<1> QED BY <1>1, <1>2 DEF NicInit, NicInvariant, NeverAhead

LEMMA SampledKeeps ==
  ASSUME NicInvariant, Sampled, sampledNow' \in BOOLEAN, UNCHANGED <<counter, drops>>
  PROVE  NicInvariant'
<1> DEFINE n == Len(samples)
           new == [value |-> counter, drops |-> drops, age |-> 0]
<1>1. /\ counter \in 0..drops /\ drops \in 0..MaxDrops /\ samples \in Seq(Samples)
  BY DEF NicInvariant, NicTypeOK, Samples
<1>2. n \in Nat /\ \A i \in 1..n : samples[i] \in Samples
  BY <1>1
<1>3. new \in Samples
  BY <1>1 DEF Samples
<1>4. samples' = Append(samples, new)
  BY DEF Sampled
<1> HIDE DEF new
<1>5. /\ samples' \in Seq(Samples) /\ Len(samples') = n + 1
      /\ samples'[n + 1] = new /\ \A i \in 1..n : samples'[i] = samples[i]
  BY <1>1, <1>3, <1>4
<1>6. NicTypeOK'
  BY <1>1, <1>5 DEF NicTypeOK, Samples
<1>7. new.value = counter /\ new.drops = drops
  BY DEF new
<1>8. ASSUME NEW i \in 1 .. n + 1
      PROVE  /\ samples'[i].drops <= drops
             /\ counter + samples'[i].drops <= drops + samples'[i].value
  <2>1. CASE i = n + 1
    BY <1>1, <1>5, <1>7, <2>1
  <2>2. CASE i \in 1..n
    BY <1>5, <2>2 DEF NicInvariant, NeverAhead
  <2> QED BY <1>2, <2>1, <2>2
<1>9. ASSUME NEW i \in 1 .. n + 1, NEW j \in 1 .. n + 1, i < j
      PROVE  /\ samples'[i].drops <= samples'[j].drops
             /\ samples'[j].value + samples'[i].drops <= samples'[j].drops + samples'[i].value
  <2>1. i \in 1..n
    BY <1>2, <1>9
  <2>2. CASE j = n + 1
    BY <1>5, <1>7, <2>1, <2>2 DEF NicInvariant, NeverAhead
  <2>3. CASE j \in 1..n
    BY <1>5, <1>9, <2>1, <2>3 DEF NicInvariant, NeverAhead
  <2> QED BY <1>2, <2>2, <2>3
<1> QED BY <1>5, <1>6, <1>8, <1>9 DEF NicInvariant, NeverAhead

LEMMA IntervalKeeps ==
  ASSUME NicInvariant, IntervalEnds
  PROVE  NicInvariant'
<1> DEFINE n == Len(samples)
<1>1. /\ counter \in 0..drops /\ drops \in 0..MaxDrops /\ samples \in Seq(Samples)
  BY DEF NicInvariant, NicTypeOK, Samples
<1>2. n \in Nat /\ \A i \in 1..n : samples[i] \in Samples
  BY <1>1
<1>3. PICK k \in 0..n :
        /\ \A i \in 1..n : i > k <=> samples[i].age + 1 < NicWindow
        /\ samples' = [i \in 1 .. n - k |-> [samples[i + k] EXCEPT !.age = @ + 1]]
  BY DEF IntervalEnds
<1>4. n - k \in Nat /\ \A i \in 1 .. n - k : i + k \in 1..n /\ i + k > k
  BY <1>2, <1>3
<1>5. ASSUME NEW i \in 1 .. n - k
      PROVE  /\ samples'[i] \in Samples
             /\ samples'[i].value = samples[i + k].value /\ samples'[i].drops = samples[i + k].drops
  <2>1. samples[i + k] \in Samples /\ samples[i + k].age + 1 < NicWindow
    BY <1>2, <1>3, <1>4
  <2>2. samples'[i] = [samples[i + k] EXCEPT !.age = @ + 1]
    BY <1>3
  <2>3. samples[i + k].age + 1 \in 0 .. NicWindow - 1
    BY <2>1 DEF Samples
  <2> QED BY <2>1, <2>2, <2>3 DEF Samples
<1>6. samples' \in [1 .. n - k -> Samples]
  BY <1>3, <1>5
<1>7. samples' \in Seq(Samples) /\ Len(samples') = n - k
  BY <1>4, <1>6
<1>8. UNCHANGED <<counter, drops>> /\ sampledNow' = FALSE
  BY DEF IntervalEnds
<1>9. NicTypeOK'
  BY <1>1, <1>7, <1>8 DEF NicTypeOK, Samples
<1>10. ASSUME NEW i \in 1 .. n - k
       PROVE  /\ samples'[i].drops <= drops
              /\ counter + samples'[i].drops <= drops + samples'[i].value
  BY <1>4, <1>5 DEF NicInvariant, NeverAhead
<1>11. ASSUME NEW i \in 1 .. n - k, NEW j \in 1 .. n - k, i < j
       PROVE  /\ samples'[i].drops <= samples'[j].drops
              /\ samples'[j].value + samples'[i].drops <= samples'[j].drops + samples'[i].value
  <2>1. i + k \in 1..n /\ j + k \in 1..n /\ i + k < j + k
    BY <1>3, <1>4, <1>11
  <2> QED BY <1>5, <2>1 DEF NicInvariant, NeverAhead
<1> QED BY <1>7, <1>8, <1>9, <1>10, <1>11 DEF NicInvariant, NeverAhead

LEMMA NicRests ==
  ASSUME NicInvariant, UNCHANGED <<counter, drops, samples>>, sampledNow' \in BOOLEAN
  PROVE  NicInvariant'
<1>1. NicTypeOK'
  BY DEF NicInvariant, NicTypeOK
<1> QED BY <1>1 DEF NicInvariant, NeverAhead

LEMMA NicStep ==
  ASSUME NicInvariant, NicNext
  PROVE  NicInvariant'
<1>1. /\ counter \in 0..drops /\ drops \in 0..MaxDrops /\ sampledNow \in BOOLEAN
      /\ samples \in Seq(Samples)
  BY DEF NicInvariant, NicTypeOK, Samples
<1>2. \A i \in 1 .. Len(samples) : samples[i] \in Samples
  BY <1>1
<1>3. \A i \in 1 .. Len(samples) : samples[i].drops \in Nat /\ samples[i].value \in Nat
  BY <1>2 DEF Samples
<1>4. CASE PacketDropped
  <2>1. drops' = drops + 1 /\ counter' = counter + 1 /\ UNCHANGED <<samples, sampledNow>>
    BY <1>4 DEF PacketDropped
  <2>2. counter' \in 0..drops' /\ drops' \in 0..MaxDrops
    BY <1>1, <1>4, <2>1 DEF PacketDropped
  <2>3. NicTypeOK'
    BY <1>1, <2>1, <2>2 DEF NicTypeOK, Samples
  <2>4. NeverAhead'
    BY <1>1, <1>3, <2>1 DEF NicInvariant, NeverAhead
  <2> QED BY <2>3, <2>4 DEF NicInvariant
<1>5. CASE SampleNic
  BY <1>5, SampledKeeps, NicRests DEF SampleNic
<1>6. CASE ServiceRestarts
  BY <1>6, SampledKeeps DEF ServiceRestarts
<1>7. CASE HostReboots
  <2>1. counter' = 0 /\ sampledNow' = FALSE /\ UNCHANGED <<drops, samples>>
    BY <1>7 DEF HostReboots
  <2>4. counter' \in 0..drops'
    BY <1>1, <2>1
  <2>2. NicTypeOK'
    BY <1>1, <2>1, <2>4 DEF NicTypeOK, Samples
  <2>3. NeverAhead'
    BY <1>1, <1>3, <2>1 DEF NicInvariant, NeverAhead
  <2> QED BY <2>2, <2>3 DEF NicInvariant
<1>8. CASE IntervalEnds
  BY <1>8, IntervalKeeps
<1> QED BY <1>4, <1>5, <1>6, <1>7, <1>8 DEF NicNext

LEMMA DeltaSound == NicInvariant => DeltaNeverOverstates
<1> SUFFICES ASSUME NicInvariant, Delta # NoDelta
             PROVE  Delta <= samples[Len(samples)].drops - samples[1].drops
  BY DEF DeltaNeverOverstates
<1> DEFINE n == Len(samples)
<1>1. samples \in Seq(Samples)
  BY DEF NicInvariant, NicTypeOK, Samples
<1>2. n \in Nat /\ n >= 2
  BY <1>1 DEF Delta
<1>3. 1 \in 1..n /\ n \in 1..n /\ 1 < n
  BY <1>2
<1>4. samples[1] \in Samples /\ samples[n] \in Samples
  BY <1>1, <1>3
<1>5. /\ samples[1].value \in Nat /\ samples[n].value \in Nat
      /\ samples[1].drops \in Nat /\ samples[n].drops \in Nat
  BY <1>4 DEF Samples
<1>6. /\ samples[1].drops <= samples[n].drops
      /\ samples[n].value + samples[1].drops <= samples[n].drops + samples[1].value
  BY <1>3 DEF NicInvariant, NeverAhead
<1>7. Delta = IF samples[n].value > samples[1].value THEN samples[n].value - samples[1].value ELSE 0
  BY <1>2 DEF Delta
<1> QED BY <1>5, <1>6, <1>7
-----------------------------------------------------------------------------
(* The displays (NocProblems), the reconciliation of addresses             *)
(* (MacReconcile) and the internet of the hotel (HotelWan) keep their types. *)
USE NocAssumption

LEMMA NocStarts == NocInit => NocTypeOK
<1> SUFFICES ASSUME NocInit PROVE NocTypeOK
  OBVIOUS
<1>1. NoListing \in [at : {"idle", "loaded", "asked"}, rows : SUBSET ProblemIds]
  BY DEF NoListing
<1>2. 0 \in 0..MaxNocFaults
  OBVIOUS
<1> QED BY <1>1, <1>2 DEF NocInit, NocTypeOK

LEMMA NocStep ==
  ASSUME NocTypeOK, NocNext
  PROVE  NocTypeOK'
<1> DEFINE Listings == [at : {"idle", "loaded", "asked"}, rows : SUBSET ProblemIds]
<1>1. NoListing \in Listings
  BY DEF NoListing
<1>2. /\ down \subseteq ProblemIds /\ acks \subseteq ProblemIds /\ display \in [Displays -> Listings]
      /\ nocFaults \in 0..MaxNocFaults /\ MaxNocFaults \in Nat
  BY DEF NocTypeOK
<1>3. ASSUME nocFaults < MaxNocFaults, nocFaults' = nocFaults + 1
      PROVE  nocFaults' \in 0..MaxNocFaults
  BY <1>2, <1>3
<1>4. Listed(down) \subseteq ProblemIds
  BY <1>2 DEF Listed, GuardianProblems, InfraProblems, PulseProblems
<1>5. ASSUME NEW n \in Displays, NEW found, Asked(n, found), UNCHANGED <<down, acks>>,
             nocFaults' \in 0..MaxNocFaults
      PROVE  NocTypeOK'
  <2>1. [at |-> "asked", rows |-> Over(n, found)] \in Listings
    BY <1>2 DEF Over
  <2> QED BY <1>2, <1>5, <2>1 DEF Asked, NocTypeOK
<1>6. CASE StatusMoves
  BY <1>2, <1>6 DEF StatusMoves, NocTypeOK
<1>7. CASE AckProblem
  BY <1>2, <1>7 DEF AckProblem, NocTypeOK
<1>8. ASSUME NEW n \in Displays, LoadAcks(n) PROVE NocTypeOK'
  <2>1. [display[n] EXCEPT !.at = "loaded", !.rows = acks] \in Listings
    BY <1>2
  <2>2. display' = [display EXCEPT ![n] = [display[n] EXCEPT !.at = "loaded", !.rows = acks]]
    BY <1>8 DEF LoadAcks
  <2> QED BY <1>2, <1>8, <2>1, <2>2 DEF LoadAcks, NocTypeOK
<1>9. ASSUME NEW n \in Displays, AskSources(n) PROVE NocTypeOK'
  BY <1>2, <1>5, <1>9 DEF AskSources
<1>10. ASSUME NEW n \in Displays, SourceRaises(n) PROVE NocTypeOK'
  BY <1>3, <1>5, <1>10 DEF SourceRaises
<1>11. ASSUME NEW n \in Displays, CleanAcks(n) \/ ListingRaises(n) PROVE NocTypeOK'
  <2>1. nocFaults' \in 0..MaxNocFaults
    BY <1>2, <1>3, <1>11 DEF CleanAcks, ListingRaises
  <2> QED BY <1>1, <1>2, <1>11, <2>1 DEF CleanAcks, ListingRaises, NocTypeOK
<1> QED BY <1>6, <1>7, <1>8, <1>9, <1>10, <1>11 DEF NocNext, Display

LEMMA NocRests ==
  ASSUME NocTypeOK, UNCHANGED nocVars
  PROVE  NocTypeOK'
BY DEF NocTypeOK, nocVars

USE MoveAssumption, HomeAssumption, RowAssumption

StatusCells == [found : BOOLEAN, online : BOOLEAN, mac : Equipment \cup {NoMac}]

LEMMA MacStarts == MacInit => MacTypeOK
<1> SUFFICES ASSUME MacInit PROVE MacTypeOK
  OBVIOUS
<1>1. Missing \in StatusCells
  BY DEF Missing, StatusCells
<1>2. 0 \in 0..MaxMoves
  OBVIOUS
<1> QED BY <1>1, <1>2 DEF MacInit, MacTypeOK, StatusCells, Equipment

LEMMA MacStep ==
  ASSUME MacTypeOK, MacNext
  PROVE  MacTypeOK'
<1>1. /\ place \in [Equipment -> Addresses \cup {Nowhere}]
      /\ gone \in [Addresses -> Equipment \cup {NoMac}]
      /\ rowIp \in [Rows -> Addresses] /\ offline \subseteq GuardianRows
      /\ infraStatus \in [Addresses -> StatusCells]
      /\ passFailed \in BOOLEAN
  BY DEF MacTypeOK, StatusCells
<1>2. moves \in 0..MaxMoves
  BY DEF MacTypeOK
<1>3. ASSUME NEW e \in Equipment, Moves(e) PROVE MacTypeOK'
  <2>1. PICK a \in Addresses \cup {Nowhere} :
          /\ moves < MaxMoves /\ moves' = moves + 1
          /\ place' = [place EXCEPT ![e] = a]
          /\ gone' = IF place[e] = Nowhere THEN gone ELSE [gone EXCEPT ![place[e]] = e]
          /\ UNCHANGED <<rowIp, offline, infraStatus, passFailed>>
    BY <1>3 DEF Moves
  <2>2. moves' \in 0..MaxMoves
    BY <1>2, <2>1
  <2> QED BY <1>1, <2>1, <2>2 DEF MacTypeOK, StatusCells
<1>4. ASSUME NEW g \in GuardianRows, GuardianPolls(g) PROVE MacTypeOK'
  BY <1>1, <1>2, <1>4 DEF GuardianPolls, MacTypeOK, StatusCells
<1>5. ASSUME NEW i \in InfraRows, InfraPolls(i) PROVE MacTypeOK'
  <2> DEFINE a == rowIp[i]
             cell == [found |-> TRUE, online |-> Answers(a), mac |-> IF Answers(a) THEN MacAt(a) ELSE infraStatus[a].mac]
  <2>1. a \in Addresses
    BY <1>1 DEF Rows
  <2>2. Answers(a) => MacAt(a) \in Equipment
    BY DEF Answers, MacAt, At
  <2>3. infraStatus[a].mac \in Equipment \cup {NoMac}
    BY <1>1, <2>1 DEF StatusCells
  <2>4. Answers(a) \in BOOLEAN
    BY DEF Answers
  <2> HIDE DEF a
  <2>5. cell \in StatusCells
    BY <2>2, <2>3, <2>4 DEF StatusCells
  <2>6. infraStatus' = [infraStatus EXCEPT ![a] = cell]
    BY <1>5 DEF InfraPolls, a
  <2>7. infraStatus' \in [Addresses -> StatusCells]
    BY <1>1, <2>1, <2>5, <2>6
  <2>8. UNCHANGED <<place, gone, rowIp, offline, passFailed, moves>>
    BY <1>5 DEF InfraPolls
  <2> QED BY <1>1, <1>2, <2>7, <2>8 DEF MacTypeOK, StatusCells
<1>6. CASE Pass
  <2>1. PICK scan \in Scans : Pass!(scan)
    BY <1>6 DEF Pass
  <2>2. scan \in [Equipment -> Addresses \cup {Nowhere}]
    BY <2>1 DEF Scans
  <2>3. ASSUME NEW i \in InfraRows PROVE Target(scan, i) \in Addresses
    <3>1. rowIp[i] \in Addresses /\ StatusMac(i) \in Equipment \cup {NoMac}
      BY <1>1 DEF Rows, StatusMac, StatusCells
    <3> QED BY <2>2, <3>1 DEF Target, InfraMoves
  <2>4. \A g \in GuardianMoves(scan) : scan[g] \in Addresses
    BY <1>1, <2>2 DEF GuardianMoves, Equipment, Rows
  <2>5. rowIp' \in [Rows -> Addresses]
    BY <1>1, <2>1, <2>3, <2>4
  <2>6. infraStatus' \in [Addresses -> StatusCells]
    <3>1. Missing \in StatusCells
      BY DEF Missing, StatusCells
    <3> QED BY <1>1, <2>1, <3>1 DEF WithoutOrphans
  <2>7. Collides(scan) \in BOOLEAN
    BY DEF Collides
  <2>8. gone' \in [Addresses -> Equipment \cup {NoMac}]
    BY <2>1
  <2>9. passFailed' \in BOOLEAN
    BY <2>1, <2>7
  <2> QED BY <1>1, <1>2, <2>1, <2>5, <2>6, <2>8, <2>9 DEF MacTypeOK, StatusCells
<1> QED BY <1>3, <1>4, <1>5, <1>6 DEF MacNext

LEMMA MacRests ==
  ASSUME MacTypeOK, UNCHANGED macVars
  PROVE  MacTypeOK'
BY DEF MacTypeOK, macVars

USE FailuresAssumption

LEMMA HotelStarts == HotelInit => HotelTypeOK
<1> SUFFICES ASSUME HotelInit PROVE HotelTypeOK
  OBVIOUS
<1>1. 0 \in 0..MaxFailures
  OBVIOUS
<1> QED BY <1>1 DEF HotelInit, HotelTypeOK, NoReading, Uses

LEMMA HotelStep ==
  ASSUME HotelTypeOK, HotelNext
  PROVE  HotelTypeOK'
<1> DEFINE Readings == [step : {"none", "measured", "stored"}, use : Uses \cup {NoUse}, problems : SUBSET Problems]
<1>1. /\ traffic \in Uses /\ {registered, recent, fall, cutShort} \subseteq BOOLEAN
      /\ reading \in [Requests -> Readings] /\ storedUse \in Uses \cup {NoUse}
      /\ failures \in 0..MaxFailures /\ MaxFailures \in Nat
  BY DEF HotelTypeOK
<1>2. NoReading \in Readings
  BY DEF NoReading
<1>3. ASSUME UNCHANGED failures \/ FailsOnce PROVE failures' \in 0..MaxFailures
  BY <1>1, <1>3 DEF FailsOnce
<1>4. CASE TrafficChanges
  BY <1>1, <1>3, <1>4 DEF TrafficChanges, HotelTypeOK
<1>5. CASE IntervalPasses
  BY <1>1, <1>3, <1>5 DEF IntervalPasses, HotelTypeOK
<1>6. ASSUME NEW q \in Requests, AskRouter(q) PROVE HotelTypeOK'
  <2>1. PICK found \in SUBSET {"line"} :
          reading' = [reading EXCEPT ![q] = [step |-> "measured", use |-> traffic, problems |-> found]]
    BY <1>6 DEF AskRouter
  <2>2. [step |-> "measured", use |-> traffic, problems |-> found] \in Readings
    BY <1>1 DEF Problems
  <2> QED BY <1>1, <1>3, <1>6, <2>1, <2>2 DEF AskRouter, HotelTypeOK
<1>7. ASSUME NEW q \in Requests, StoreUse(q) PROVE HotelTypeOK'
  <2>1. reading[q] \in Readings /\ Compared(q) \subseteq Problems
    BY <1>1 DEF Compared, Problems
  <2>2. /\ [reading[q] EXCEPT !.step = "stored", !.problems = @ \cup Compared(q)] \in Readings
        /\ [reading[q] EXCEPT !.step = "stored"] \in Readings
    BY <2>1
  <2>3. \/ reading' = [reading EXCEPT ![q] = [reading[q] EXCEPT !.step = "stored", !.problems = @ \cup Compared(q)]]
        \/ reading' = [reading EXCEPT ![q] = [reading[q] EXCEPT !.step = "stored"]]
    BY <1>7 DEF StoreUse
  <2>4. reading' \in [Requests -> Readings]
    BY <1>1, <2>2, <2>3
  <2>5. failures' \in 0..MaxFailures /\ storedUse' \in Uses \cup {NoUse}
    BY <1>1, <1>3, <1>7, <2>1 DEF StoreUse
  <2> QED BY <1>1, <1>7, <2>4, <2>5 DEF StoreUse, HotelTypeOK
<1>8. ASSUME NEW q \in Requests, AnswerReading(q) PROVE HotelTypeOK'
  <2>1. failures' \in 0..MaxFailures
    BY <1>3, <1>8 DEF AnswerReading
  <2>2. reading' \in [Requests -> Readings]
    BY <1>1, <1>2, <1>8 DEF AnswerReading
  <2>3. registered' \in BOOLEAN /\ recent' \in BOOLEAN
    BY <1>1, <1>8 DEF AnswerReading
  <2>4. fall' \in BOOLEAN
    BY <1>1, <1>8 DEF AnswerReading
  <2> QED BY <1>1, <1>8, <2>1, <2>2, <2>3, <2>4 DEF AnswerReading, HotelTypeOK
<1>9. ASSUME NEW q \in Requests, ReadingLost(q) PROVE HotelTypeOK'
  <2>1. failures' \in 0..MaxFailures /\ reading' \in [Requests -> Readings]
    BY <1>1, <1>2, <1>3, <1>9 DEF ReadingLost
  <2>2. cutShort' \in BOOLEAN
    BY <1>1, <1>9 DEF ReadingLost
  <2> QED BY <1>1, <1>9, <2>1, <2>2 DEF ReadingLost, HotelTypeOK
<1> QED BY <1>4, <1>5, <1>6, <1>7, <1>8, <1>9 DEF HotelNext, TakeReading

LEMMA HotelRests ==
  ASSUME HotelTypeOK, UNCHANGED hotelVars
  PROVE  HotelTypeOK'
BY DEF HotelTypeOK, hotelVars
-----------------------------------------------------------------------------
(* Side by side.                                                           *)
LEMMA NicStill ==
  ASSUME NicInvariant, UNCHANGED nicVars
  PROVE  NicInvariant'
<1>1. UNCHANGED <<counter, drops, samples>> /\ sampledNow' \in BOOLEAN
  BY DEF nicVars, NicInvariant, NicTypeOK
<1> QED BY <1>1, NicRests

LEMMA QueueRests ==
  ASSUME QueueInvariant, UNCHANGED vars
  PROVE  QueueInvariant'
BY NextKeeps

HostInvariant ==
  /\ QueueInvariant /\ WanInvariant /\ ReportsInvariant /\ HotelTypeOK
  /\ SecurityInvariant /\ NicInvariant /\ MacTypeOK /\ NocTypeOK

LEMMA HostStarts == HostInit => HostInvariant
BY InitInvariant, HealthStarts, ReportsStarts, HotelStarts, SecurityStarts, NicStarts,
   MacStarts, NocStarts DEF HostInit, HostInvariant

LEMMA HostKeeps == HostInvariant /\ [HostNext]_hostVars => HostInvariant'
<1> SUFFICES ASSUME HostInvariant, [HostNext]_hostVars PROVE HostInvariant'
  OBVIOUS
<1> USE DEF HostInvariant
<1>1. CASE Queue(Next)
  BY <1>1, NextKeeps, HealthRests, ReportsRests, HotelRests, SecurityRests, NicStill, MacRests,
     NocRests DEF Queue
<1>2. CASE Health(HealthNext)
  BY <1>2, QueueRests, HealthStep, ReportsRests, HotelRests, SecurityRests, NicStill, MacRests,
     NocRests DEF Health
<1>3. CASE Reports(ReportsNext)
  BY <1>3, QueueRests, HealthRests, ReportsStep, HotelRests, SecurityRests, NicStill, MacRests,
     NocRests DEF Reports
<1>4. CASE Hotel(HotelNext)
  BY <1>4, QueueRests, HealthRests, ReportsRests, HotelStep, SecurityRests, NicStill, MacRests,
     NocRests DEF Hotel
<1>5. CASE Security(SecurityNext)
  BY <1>5, QueueRests, HealthRests, ReportsRests, HotelRests, SecurityStep, NicStill, MacRests,
     NocRests DEF Security
<1>6. CASE Nic(NicNext)
  BY <1>6, QueueRests, HealthRests, ReportsRests, HotelRests, SecurityRests, NicStep, MacRests,
     NocRests DEF Nic
<1>7. CASE Mac(MacNext)
  BY <1>7, QueueRests, HealthRests, ReportsRests, HotelRests, SecurityRests, NicStill, MacStep,
     NocRests DEF Mac
<1>8. CASE Noc(NocNext)
  BY <1>8, QueueRests, HealthRests, ReportsRests, HotelRests, SecurityRests, NicStill, MacRests,
     NocStep DEF Noc
<1>9. CASE UNCHANGED hostVars
  BY <1>9, QueueRests, HealthRests, ReportsRests, HotelRests, SecurityRests, NicStill, MacRests,
     NocRests DEF hostVars
<1> QED BY <1>1, <1>2, <1>3, <1>4, <1>5, <1>6, <1>7, <1>8, <1>9 DEF HostNext

(* The inductive invariant holds in every state of the loops.              *)
THEOREM HostInvariantCorrect == HostSpec => []HostInvariant
<1> QED BY HostStarts, HostKeeps, PTL DEF HostSpec

(* The types; of two workers that run the schedulers one could not try the *)
(* lock; a row of the queue tells the truth; a delta of lost packets is    *)
(* never more than what was lost; an hour counts no more than two restarts *)
(* (shomer_poller_leader.py, shomer_telegram_relay.py, shomer_host_health  *)
(* .py, shomer_guardian_server_health.py).                                 *)
THEOREM LoopsSoundCorrect == HostSpec => []LoopsSound
<1>1. HostInvariant => LoopsSound
  <2> SUFFICES ASSUME HostInvariant PROVE LoopsSound
    OBVIOUS
  <2>1. HostTypeOK
    BY DEF HostInvariant, HostTypeOK, QueueInvariant, WanInvariant, ReportsInvariant,
           SecurityInvariant, NicInvariant
  <2>2. OneScheduler
    BY DEF HostInvariant, QueueInvariant, LeadsUnderLock, OneScheduler
  <2>3. MarksAgree /\ RestartsUntold
    BY DEF HostInvariant, QueueInvariant, ReportsInvariant
  <2>4. DeltaNeverOverstates
    BY DeltaSound DEF HostInvariant
  <2> QED BY <2>1, <2>2, <2>3, <2>4 DEF LoopsSound
<1> QED BY <1>1, HostInvariantCorrect, PTL

(* A turn of the watch warns of a burst of failed passwords exactly when   *)
(* the failures that no rotation or restart lost are as many as the        *)
(* threshold and one of them is new (security_watch.py).                   *)
THEOREM BurstWarnedCorrect == HostSpec => BurstWarned
<1>1. HostInvariant /\ [HostNext]_hostVars =>
        [clock' # clock /\ ~KeyHeld /\ ~Outgrown =>
           (keyed' <=> happened[0] > 0 /\ Total(happened) >= BurstFailures)]_securityVars
  <2> SUFFICES ASSUME HostInvariant, HostNext \/ UNCHANGED hostVars, clock' # clock,
                      ~KeyHeld, ~Outgrown
               PROVE  keyed' <=> happened[0] > 0 /\ Total(happened) >= BurstFailures
    OBVIOUS
  <2>1. SecurityNext
    BY DEF HostNext, hostVars, Queue, Health, Reports, Hotel, Security, Nic, Mac, Noc,
           securityVars, burstVars
  <2> QED BY <2>1, SecurityWarns DEF HostInvariant
<1> QED BY <1>1, HostInvariantCorrect, PTL DEF HostSpec, BurstWarned

(* Unless a fault left the marks half written, the internet is announced   *)
(* as lost only when every tick of the last wan_fail_sec saw it lost, and  *)
(* as restored only after that (shomer_guardian_server_health.py).         *)
THEOREM WanNoticesEarnedCorrect == HostSpec => WanNoticesEarned
<1>1. HostInvariant /\ [HostNext]_hostVars =>
        [/\ (~owed /\ owed') => outage = FailSec \/ dirty
         /\ (at = "restored" /\ at' # "restored") => owed \/ dirty]_healthVars
  <2> SUFFICES ASSUME HostInvariant, HostNext \/ UNCHANGED hostVars, ~UNCHANGED healthVars
               PROVE  /\ (~owed /\ owed') => outage = FailSec \/ dirty
                      /\ (at = "restored" /\ at' # "restored") => owed \/ dirty
    OBVIOUS
  <2>1. HealthNext
    BY DEF HostNext, hostVars, Queue, Health, Reports, Hotel, Security, Nic, Mac, Noc
  <2> QED BY <2>1, HealthEarned DEF HostInvariant
<1> QED BY <1>1, HostInvariantCorrect, PTL DEF HostSpec, WanNoticesEarned
=============================================================================
