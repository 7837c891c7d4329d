------------------------ MODULE HunterAutoblockProofs ------------------------
(***************************************************************************)
(* Proofs about HunterAutoblock, for every set of sources and panels,      *)
(* every limit, window and TTL, and everything that may happen.            *)
(***************************************************************************)
EXTENDS HunterAutoblock, FiniteSetTheorems, TLAPS

-----------------------------------------------------------------------------
(* The initial state is of the right type.                                 *)
LEMMA InitType == Init => TypeOK
<1> SUFFICES ASSUME Init PROVE TypeOK
  OBVIOUS
<1>1. log \in Seq(Sources) /\ Len(log) = 0
  BY DEF Init
<1> QED
  BY <1>1, CountAssumption, LimitAssumption DEF Init, TypeOK, Alerts

(* What a request for a block leaves of the right type.                    *)
LEMMA ExecuteType ==
  ASSUME TypeOK, NEW by \in Callers, NEW a \in DOMAIN log, ExecuteBlock(by, a)
  PROVE  /\ blocking' \subseteq [by: Callers, alert: DOMAIN log]
         /\ dedup' \in [Alerts -> 0..DedupTtl]
         /\ hits' \subseteq [alert: DOMAIN log, age: 0..(Window - 1), by: Callers]
<1> DEFINE B == [by |-> by, alert |-> a]
           H == [alert |-> a, age |-> 0, by |-> by]
<1>1. B \in [by: Callers, alert: DOMAIN log] /\ H \in [alert: DOMAIN log, age: 0..(Window - 1), by: Callers]
  BY CountAssumption
<1>2. /\ blocking' = blocking \/ blocking' = blocking \cup {B}
      /\ hits' = hits \/ hits' = hits \cup {H}
      /\ dedup' = dedup \/ dedup' = [dedup EXCEPT ![a] = DedupTtl]
  BY DEF ExecuteBlock, CountAlert, StartBlock, MarkAlert, AddHit, redisVars
<1>3. DedupTtl \in 0..DedupTtl
  BY CountAssumption
<1> HIDE DEF B, H
<1> QED
  BY <1>1, <1>2, <1>3 DEF TypeOK

(* Every step keeps the types.                                             *)
LEMMA TypeStep == TypeOK /\ [Next]_vars => TypeOK'
<1> SUFFICES ASSUME TypeOK, [Next]_vars PROVE TypeOK'
  OBVIOUS
<1> USE DEF TypeOK
<1>0. DOMAIN log = 1..Len(log) /\ Len(log) \in Nat /\ DOMAIN log \subseteq Alerts
  BY LimitAssumption DEF Alerts
<1>1. ASSUME PollerRead PROVE TypeOK'
  BY <1>1 DEF PollerRead, TailOf, alertVars, redisVars, panelVars
<1>2. ASSUME NEW a \in batch, Look(a) PROVE TypeOK'
  <2>1. /\ batch' \subseteq DOMAIN log
        /\ seenAt' \in [Alerts -> Nat] /\ remembered' \in Nat
    BY <1>2 DEF Look, Remember
  <2>2. /\ blocking' \subseteq [by: Callers, alert: DOMAIN log]
        /\ dedup' \in [Alerts -> 0..DedupTtl]
        /\ hits' \subseteq [alert: DOMAIN log, age: 0..(Window - 1), by: Callers]
    <3>1. CASE UNCHANGED <<blocking, redisVars>>
      BY <3>1 DEF redisVars
    <3>2. CASE ExecuteBlock(Poller, a)
      BY <3>2, ExecuteType DEF Callers
    <3> QED
      BY <1>2, <3>1, <3>2 DEF Look
  <2> QED
    BY <1>2, <2>1, <2>2 DEF Look, alertVars, panelVars
<1>3. ASSUME NEW b \in blocking, NEW ok \in BOOLEAN, EndBlock(b, ok) PROVE TypeOK'
  <2>1. log[b.alert] \in Sources
    BY <1>0
  <2> QED
    BY <1>3, <2>1 DEF EndBlock, alertVars, redisVars, pollerVars, panelVars
<1>4. ASSUME NEW p \in Panels, PanelFetch(p) PROVE TypeOK'
  <2> DEFINE new == {a \in TailOf(PanelLimit) \ attempted[p] : log[a] \notin blocked \cup Ignored}
  <2>1. new \subseteq DOMAIN log
    BY DEF TailOf
  <2>2. attempted' = [attempted EXCEPT ![p] = @ \cup new] /\ posts' = posts \cup ({p} \X new)
    BY <1>4 DEF PanelFetch
  <2> HIDE DEF new
  <2>3. attempted' \in [Panels -> SUBSET DOMAIN log] /\ posts' \subseteq Panels \X DOMAIN log
    BY <2>1, <2>2
  <2> QED
    BY <1>4, <2>3 DEF PanelFetch, alertVars, redisVars, pollerVars
<1>5. ASSUME NEW p \in Panels, Reload(p) PROVE TypeOK'
  BY <1>5 DEF Reload, alertVars, redisVars, pollerVars
<1>6. ASSUME NEW p \in Panels, NEW a \in Alerts, PanelPost(p, a) PROVE TypeOK'
  <2>1. a \in DOMAIN log /\ p \in Callers /\ posts' \subseteq Panels \X DOMAIN log
    BY <1>6 DEF PanelPost, Callers
  <2>2. /\ blocking' \subseteq [by: Callers, alert: DOMAIN log]
        /\ dedup' \in [Alerts -> 0..DedupTtl]
        /\ hits' \subseteq [alert: DOMAIN log, age: 0..(Window - 1), by: Callers]
    BY <1>6, <2>1, ExecuteType DEF PanelPost
  <2> QED
    BY <1>6, <2>1, <2>2 DEF PanelPost, alertVars, pollerVars
<1>7. ASSUME NEW s \in Sources, Arrive(s) PROVE TypeOK'
  <2>1. log' \in Seq(Sources) /\ Len(log') = Len(log) + 1 /\ DOMAIN log \subseteq DOMAIN log'
    BY <1>7, <1>0 DEF Arrive
  <2>2. /\ blocking \subseteq [by: Callers, alert: DOMAIN log']
        /\ hits \subseteq [alert: DOMAIN log', age: 0..(Window - 1), by: Callers]
        /\ attempted \in [Panels -> SUBSET DOMAIN log'] /\ posts \subseteq Panels \X DOMAIN log'
        /\ batch \subseteq DOMAIN log'
    BY <2>1
  <2>3. Len(log') <= MaxAlerts /\ oldest \in 0..Len(log')
    BY <1>7, <2>1, <1>0, LimitAssumption DEF Arrive
  <2> QED
    BY <1>7, <2>1, <2>2, <2>3 DEF Arrive, redisVars, pollerVars, panelVars
<1>8. ASSUME NEW s \in Sources, Operator(s) PROVE TypeOK'
  BY <1>8 DEF Operator, alertVars, redisVars, pollerVars, panelVars
<1>9. ASSUME Rotate PROVE TypeOK'
  BY <1>9, <1>0 DEF Rotate, redisVars, pollerVars, panelVars
<1>10. ASSUME Restart PROVE TypeOK'
  BY <1>10 DEF Restart, alertVars, redisVars
<1>11. ASSUME Tick PROVE TypeOK'
  <2>1. hits' \subseteq [alert: DOMAIN log, age: 0..(Window - 1), by: Callers]
    <3> SUFFICES ASSUME NEW h \in hits, h.age + 1 < Window
                 PROVE  [h EXCEPT !.age = h.age + 1] \in [alert: DOMAIN log, age: 0..(Window - 1), by: Callers]
      BY <1>11 DEF Tick
    <3>1. h \in [alert: DOMAIN log, age: 0..(Window - 1), by: Callers]
      OBVIOUS
    <3>2. h.age + 1 \in 0..(Window - 1)
      BY <3>1, CountAssumption
    <3> QED
      BY <3>1, <3>2
  <2>2. dedup' \in [Alerts -> 0..DedupTtl]
    BY <1>11, CountAssumption DEF Tick
  <2> QED
    BY <1>11, <2>1, <2>2 DEF Tick, alertVars, pollerVars, panelVars
<1>12. CASE UNCHANGED vars
  BY <1>12 DEF vars, alertVars, redisVars, pollerVars, panelVars
<1> QED
  BY <1>1, <1>2, <1>3, <1>4, <1>5, <1>6, <1>7, <1>8, <1>9, <1>10, <1>11, <1>12
  DEF Next, PollerStep, Answer, PanelStep

(* Every variable keeps its type (TypeOK).                                 *)
THEOREM AutoblockTypeCorrect == Spec => []TypeOK
<1> QED
  BY InitType, TypeStep, PTL DEF Spec

-----------------------------------------------------------------------------
(* Without a fault of Redis, and with a window no longer than the life of  *)
(* an alert's key, an alert that is counted had no hit left.               *)
LEMMA ExecuteOneHit ==
  ASSUME TypeOK, OneHit, Window <= DedupTtl, "redis" \notin Happens,
         NEW by \in Callers, NEW a \in DOMAIN log, ExecuteBlock(by, a)
  PROVE  OneHit'
<1>0. a \in Alerts
  BY LimitAssumption DEF TypeOK, Alerts
<1>1. CASE UNCHANGED redisVars
  BY <1>1 DEF OneHit, redisVars
<1>2. CASE CountAlert(by, a)
  <2> DEFINE H == [alert |-> a, age |-> 0, by |-> by]
  <2>1. dedup[a] = 0 /\ dedup' = [dedup EXCEPT ![a] = DedupTtl] /\ hits' = hits \cup {H}
    BY <1>2 DEF CountAlert, MarkAlert, AddHit
  <2>2. ASSUME NEW h \in hits PROVE h.alert # a
    <3>1. dedup[h.alert] + h.age = DedupTtl /\ h.age \in 0..(Window - 1)
      BY DEF OneHit, TypeOK
    <3> QED
      BY <2>1, <3>1, CountAssumption
  <2>3. ASSUME NEW h \in hits PROVE h.alert \in Alerts /\ dedup'[h.alert] = dedup[h.alert]
    BY <2>1, <2>2, LimitAssumption DEF TypeOK, Alerts
  <2>4. dedup'[a] = DedupTtl /\ H.alert = a /\ H.age = 0
    BY <1>0, <2>1 DEF TypeOK
  <2> HIDE DEF H
  <2>5. ASSUME NEW h \in hits' PROVE dedup'[h.alert] + h.age = DedupTtl
    BY <2>1, <2>3, <2>4, CountAssumption DEF OneHit
  <2>6. ASSUME NEW h \in hits', NEW g \in hits', g.alert = h.alert PROVE g = h
    BY <2>1, <2>2, <2>4, <2>6 DEF OneHit
  <2> QED
    BY <2>5, <2>6 DEF OneHit
<1> QED
  BY <1>1, <1>2 DEF ExecuteBlock, redisVars

LEMMA OneHitStep ==
  ASSUME Window <= DedupTtl, "redis" \notin Happens
  PROVE  TypeOK /\ OneHit /\ [Next]_vars => OneHit'
<1> SUFFICES ASSUME TypeOK, OneHit, [Next]_vars PROVE OneHit'
  OBVIOUS
<1>1. CASE UNCHANGED redisVars
  BY <1>1 DEF OneHit, redisVars
<1>2. ASSUME NEW a \in batch, Look(a) PROVE OneHit'
  <2>1. CASE ExecuteBlock(Poller, a)
    BY <2>1, ExecuteOneHit DEF TypeOK, Callers
  <2> QED
    BY <1>1, <1>2, <2>1 DEF Look, redisVars
<1>3. ASSUME NEW p \in Panels, NEW a \in Alerts, PanelPost(p, a) PROVE OneHit'
  <2>1. a \in DOMAIN log /\ p \in Callers
    BY <1>3 DEF PanelPost, TypeOK, Callers
  <2> QED
    BY <1>3, <2>1, ExecuteOneHit DEF PanelPost
<1>4. ASSUME Tick PROVE OneHit'
  <2> DEFINE aged(g) == [g EXCEPT !.age = g.age + 1]
  <2>1. ASSUME NEW h \in hits'
        PROVE  \E g \in hits : /\ g.age + 1 < Window /\ h = aged(g)
                               /\ h.alert = g.alert /\ h.age = g.age + 1
    <3>1. PICK g \in hits : g.age + 1 < Window /\ h = aged(g)
      BY <1>4 DEF Tick
    <3>2. g \in [alert: DOMAIN log, age: 0..(Window - 1), by: Callers]
      BY DEF TypeOK
    <3> QED
      BY <3>1, <3>2
  <2>2. ASSUME NEW h \in hits' PROVE dedup'[h.alert] + h.age = DedupTtl
    <3>1. PICK g \in hits : g.age + 1 < Window /\ h.alert = g.alert /\ h.age = g.age + 1
      BY <2>1
    <3>2. /\ g.alert \in Alerts /\ g.age \in 0..(Window - 1)
          /\ dedup[g.alert] \in 0..DedupTtl /\ dedup[g.alert] + g.age = DedupTtl
      BY LimitAssumption DEF TypeOK, Alerts, OneHit
    <3>3. dedup'[g.alert] = IF dedup[g.alert] = 0 THEN 0 ELSE dedup[g.alert] - 1
      BY <1>4, <3>2 DEF Tick
    <3> QED
      BY <3>1, <3>2, <3>3, CountAssumption
  <2>3. ASSUME NEW h \in hits', NEW g \in hits', g.alert = h.alert PROVE g = h
    <3> HIDE DEF aged
    <3>1. PICK h0 \in hits : h = aged(h0) /\ h.alert = h0.alert
      BY <2>1
    <3>2. PICK g0 \in hits : g = aged(g0) /\ g.alert = g0.alert
      BY <2>1
    <3>3. g0 = h0
      BY <2>3, <3>1, <3>2 DEF OneHit
    <3> QED
      BY <3>1, <3>2, <3>3
  <2> QED
    BY <2>2, <2>3 DEF OneHit
<1>5. CASE UNCHANGED vars
  BY <1>1, <1>5 DEF vars
<1> QED
  BY <1>1, <1>2, <1>3, <1>4, <1>5
  DEF Next, PollerStep, Answer, PanelStep, PollerRead, EndBlock, PanelFetch, Reload, Arrive,
      Operator, Rotate, Restart

(* Where each alert has one hit, there are as many alerts as hits.         *)
LEMMA AlertsOfHits ==
  ASSUME NEW S, NEW n \in Nat,
         \A h \in S : h.alert \in 1..n,
         \A h, g \in S : h.alert = g.alert => h = g
  PROVE  Cardinality({h.alert : h \in S}) = Cardinality(S)
<1> DEFINE T == {h.alert : h \in S}
           f == [h \in S |-> h.alert]
<1>1. T \in SUBSET (1..n)
  OBVIOUS
<1>2. IsFiniteSet(T)
  <2>1. IsFiniteSet(1..n)
    BY FS_Interval
  <2> HIDE DEF T
  <2> QED
    BY <1>1, <2>1, FS_Subset
<1>3. f \in [S -> T] /\ \A h, g \in S : f[h] = f[g] => h = g
  OBVIOUS
<1>4. \A t \in T : \E h \in S : f[h] = t
  OBVIOUS
<1> HIDE DEF f, T
<1>5. f \in Bijection(S, T)
  BY <1>3, <1>4 DEF Bijection, Injection, Surjection, IsInjective
<1>6. IsFiniteSet(S)
  BY <1>2, <1>5, FS_Injection DEF Bijection
<1>7. ExistsBijection(S, T)
  BY <1>5 DEF ExistsBijection
<1>8. Cardinality(T) = Cardinality(S)
  BY <1>6, <1>7, FS_Bijection
<1> QED
  BY <1>8 DEF T

(* A block that starts is of the alert that was handled, with enough hits. *)
LEMMA StartsOnHits ==
  ASSUME NEW by, NEW a, ExecuteBlock(by, a), NEW b \in blocking' \ blocking, IsCounted(log[b.alert])
  PROVE  Cardinality(HitsOf(log[b.alert], hits')) >= RecurrenceMin
<1>1. blocking' = blocking \cup {[by |-> by, alert |-> a]}
  BY DEF ExecuteBlock, StartBlock
<1>2. b = [by |-> by, alert |-> a] /\ b.alert = a
  BY <1>1
<1> QED
  BY <1>2 DEF ExecuteBlock

(* Whoever counts, whenever a panel is loaded again or the service         *)
(* restarts, a HIGH source is blocked on different alerts only: true of a  *)
(* window no longer than the key of an alert lives (SustainedAttack).      *)
THEOREM SustainedAttackCorrect ==
  ASSUME Window <= DedupTtl, "redis" \notin Happens
  PROVE  Spec => SustainedAttack
<1> DEFINE Sustained ==
      \A b \in blocking' \ blocking :
        IsCounted(log[b.alert]) =>
          Cardinality({h.alert : h \in HitsOf(log[b.alert], hits')}) >= RecurrenceMin
<1>1. Init => OneHit
  BY DEF Init, OneHit
<1>2. TypeOK /\ TypeOK' /\ OneHit /\ OneHit' /\ [Next]_vars => [Sustained]_vars
  <2> SUFFICES ASSUME TypeOK, TypeOK', OneHit', Next, NEW b \in blocking' \ blocking,
                      IsCounted(log[b.alert])
               PROVE  Cardinality({h.alert : h \in HitsOf(log[b.alert], hits')}) >= RecurrenceMin
    OBVIOUS
  <2>1. PICK by, a : ExecuteBlock(by, a)
    <3>1. \/ \E c \in batch : Look(c)
          \/ \E p \in Panels, c \in Alerts : PanelPost(p, c)
      BY DEF Next, PollerStep, Answer, PanelStep, PollerRead, EndBlock, PanelFetch, Reload, Arrive,
             Operator, Rotate, Restart, Tick
    <3> QED
      BY <3>1 DEF Look, PanelPost
  <2>2. Cardinality(HitsOf(log[b.alert], hits')) >= RecurrenceMin
    BY <2>1, StartsOnHits
  <2> DEFINE S == HitsOf(log[b.alert], hits')
  <2>3. /\ \A h \in S : h.alert \in 1..Len(log')
        /\ \A h, g \in S : h.alert = g.alert => h = g
        /\ Len(log') \in Nat
    BY DEF HitsOf, TypeOK, OneHit
  <2>4. Cardinality({h.alert : h \in HitsOf(log[b.alert], hits')}) = Cardinality(HitsOf(log[b.alert], hits'))
    <3> HIDE DEF S
    <3>1. Cardinality({h.alert : h \in S}) = Cardinality(S)
      BY <2>3, AlertsOfHits
    <3> QED
      BY <3>1 DEF S
  <2> QED
    BY <2>2, <2>4
<1>3. TypeOK /\ OneHit /\ [Next]_vars => TypeOK' /\ OneHit'
  BY TypeStep, OneHitStep
<1> QED
  BY <1>1, <1>2, <1>3, InitType, PTL DEF Spec, SustainedAttack

-----------------------------------------------------------------------------
(* The alerts remembered after a are fewer than the queue holds, so that   *)
(* an alert of the tick that is not in the queue was never remembered.     *)
LEMMA NotSeenIsNew ==
  ASSUME TypeOK, MemoryInvariant, NEW a \in batch, ~Seen(a)
  PROVE  seenAt[a] = 0
<1> SUFFICES ASSUME seenAt[a] > 0 PROVE FALSE
  BY LimitAssumption DEF TypeOK, Alerts
<1>1. /\ a \in DOMAIN log /\ DOMAIN log \subseteq Int /\ Limit \in Nat \ {0}
      /\ remembered \in Nat /\ \A b \in DOMAIN log : seenAt[b] \in Nat
  BY LimitAssumption DEF TypeOK, Alerts
<1>2. Later(a) \in SUBSET (((a - Limit + 1)..(a + Limit - 1)) \ {a})
  <2> SUFFICES ASSUME NEW b \in Later(a) PROVE b \in (a - Limit + 1)..(a + Limit - 1) /\ b # a
    OBVIOUS
  <2>1. b \in DOMAIN log /\ seenAt[b] > seenAt[a]
    BY DEF Later
  <2>2. b + Limit > a
    BY <1>1, <2>1 DEF MemoryInvariant, LaterIsRecent
  <2>3. a + Limit > b
    BY <1>1, <2>1 DEF MemoryInvariant, BatchIsRecent
  <2> QED
    BY <1>1, <2>1, <2>2, <2>3
<1> DEFINE I == (a - Limit + 1)..(a + Limit - 1)
<1>3. IsFiniteSet(I) /\ Cardinality(I) = 2 * Limit - 1 /\ a \in I
  <2> DEFINE lo == a - Limit + 1
             hi == a + Limit - 1
  <2>1. lo \in Int /\ hi \in Int /\ hi - lo + 1 = 2 * Limit - 1 /\ lo <= hi /\ lo <= a /\ a <= hi
    BY <1>1
  <2> HIDE DEF lo, hi
  <2>2. IsFiniteSet(lo..hi) /\ Cardinality(lo..hi) = hi - lo + 1
    BY <2>1, FS_Interval
  <2>3. a \in lo..hi
    BY <1>1, <2>1
  <2>4. I = lo..hi
    BY DEF lo, hi
  <2> QED
    BY <2>1, <2>2, <2>3, <2>4
<1> HIDE DEF I
<1>4. IsFiniteSet(I \ {a}) /\ Cardinality(I \ {a}) = 2 * Limit - 2
  BY <1>1, <1>3, FS_RemoveElement
<1>5. Cardinality(Later(a)) <= 2 * Limit - 2
  <2>1. Later(a) \in SUBSET (I \ {a})
    BY <1>2 DEF I
  <2> QED
    BY <1>4, <2>1, FS_Subset
<1>6. Cardinality(Later(a)) = remembered - seenAt[a]
  BY <1>1 DEF MemoryInvariant, TurnsCounted
<1> QED
  BY <1>1, <1>5, <1>6, SeenAssumption DEF Seen

(* The step that remembers an alert.                                       *)
LEMMA RememberKeeps ==
  ASSUME TypeOK, MemoryInvariant, NEW a \in batch, seenAt[a] = 0,
         Remember(a), batch' = batch \ {a}, log' = log
  PROVE  MemoryInvariant'
<1>1. a \in DOMAIN log /\ a \in Alerts /\ DOMAIN log' = DOMAIN log
  <2>1. DOMAIN log = 1..Len(log) /\ Len(log) \in Nat /\ Len(log) <= MaxAlerts
    BY DEF TypeOK
  <2>2. DOMAIN log \subseteq Alerts
    BY <2>1, LimitAssumption DEF Alerts
  <2> QED
    BY <2>2 DEF TypeOK
<1>2. remembered \in Nat /\ seenAt \in [Alerts -> Nat] /\ Limit \in Nat
      /\ \A b \in DOMAIN log : b \in Alerts /\ b \in Int
  BY LimitAssumption DEF TypeOK, Alerts
<1>3. remembered' = remembered + 1 /\ seenAt'[a] = remembered + 1
      /\ \A b \in Alerts : b # a => seenAt'[b] = seenAt[b]
  BY <1>1, <1>2 DEF Remember
<1> DEFINE old(b) == seenAt[b]
           new(b) == seenAt'[b]
<1>9. /\ old(a) = 0 /\ new(a) = remembered + 1
      /\ \A b \in DOMAIN log : /\ old(b) \in Nat /\ old(b) <= remembered
                               /\ b # a => new(b) = old(b)
  BY <1>1, <1>2, <1>3 DEF MemoryInvariant, TurnsCounted
<1>10. \A b \in DOMAIN log : new(b) \in Nat /\ new(b) <= remembered + 1
  <2> SUFFICES ASSUME NEW b \in DOMAIN log PROVE new(b) \in Nat /\ new(b) <= remembered + 1
    OBVIOUS
  <2> HIDE DEF old, new
  <2>1. CASE b = a
    BY <1>2, <1>9, <2>1
  <2>2. CASE b # a
    BY <1>2, <1>9, <2>2
  <2> QED
    BY <2>1, <2>2
<1>4. TurnsCounted'
  <2> SUFFICES ASSUME NEW b \in DOMAIN log, new(b) > 0
               PROVE  Cardinality(Later(b)') = remembered' - new(b)
    BY <1>3, <1>10 DEF TurnsCounted
  <2>0. Later(b)' = {c \in DOMAIN log : new(c) > new(b)} /\ Later(b) = {c \in DOMAIN log : old(c) > old(b)}
    BY DEF Later
  <2>1. CASE b = a
    <3>1. \A c \in DOMAIN log : ~(new(c) > remembered + 1)
      <4> HIDE DEF old, new
      <4> QED
        BY <1>2, <1>10
    <3>2. Later(b)' = {}
      <4> HIDE DEF old, new
      <4> QED
        BY <1>9, <2>0, <2>1, <3>1
    <3> QED
      BY <1>2, <1>3, <2>1, <3>2, FS_EmptySet
  <2>2. CASE b # a
    <3>0. new(b) = old(b) /\ old(b) > 0
      BY <1>9, <2>2
    <3>1. \A c \in DOMAIN log : new(c) > new(b) <=> old(c) > old(b) \/ c = a
      <4> TAKE c \in DOMAIN log
      <4> HIDE DEF old, new
      <4>1. CASE c = a
        BY <1>2, <1>9, <3>0, <4>1
      <4>2. CASE c # a
        BY <1>9, <3>0, <4>2
      <4> QED
        BY <4>1, <4>2
    <3>2. ~(old(a) > old(b))
      <4> HIDE DEF old, new
      <4> QED
        BY <1>9, <3>0
    <3>3. Later(b)' = Later(b) \cup {a} /\ a \notin Later(b)
      <4> HIDE DEF old, new
      <4> QED
        BY <1>1, <2>0, <3>1, <3>2
    <3>4. IsFiniteSet(Later(b))
      <4>1. Later(b) \in SUBSET (1..Len(log)) /\ Len(log) \in Nat
        BY DEF Later, TypeOK
      <4>2. IsFiniteSet(1..Len(log))
        BY <4>1, FS_Interval
      <4> QED
        BY <4>1, <4>2, FS_Subset
    <3>5. Cardinality(Later(b)') = Cardinality(Later(b)) + 1
      BY <3>3, <3>4, FS_AddElement
    <3>6. Cardinality(Later(b)) = remembered - old(b)
      BY <3>0 DEF MemoryInvariant, TurnsCounted
    <3> HIDE DEF old, new
    <3> QED
      BY <1>2, <1>3, <1>9, <3>0, <3>5, <3>6
  <2> QED
    BY <2>1, <2>2
<1>5. BatchIsRecent'
  <2> SUFFICES ASSUME NEW x \in batch, x # a, NEW y \in DOMAIN log, new(y) > 0 \/ y \in batch
               PROVE  x + Limit > y
    BY <1>1 DEF BatchIsRecent
  <2>1. old(y) > 0 \/ y \in batch
    BY <1>9
  <2> QED
    BY <2>1 DEF MemoryInvariant, BatchIsRecent
<1>6. LaterIsRecent'
  <2> SUFFICES ASSUME NEW x \in DOMAIN log, NEW y \in DOMAIN log, 0 < new(x), new(x) < new(y)
               PROVE  y + Limit > x
    BY <1>1 DEF LaterIsRecent
  <2>1. CASE y = a
    <3>1. x # a /\ old(x) > 0
      <4> HIDE DEF old, new
      <4>1. x # a
        BY <1>10, <2>1
      <4> QED
        BY <1>9, <1>10, <4>1
    <3> QED
      BY <2>1, <3>1 DEF MemoryInvariant, BatchIsRecent
  <2>2. CASE y # a
    <3>1. x # a
      <4> HIDE DEF old, new
      <4> QED
        BY <1>2, <1>9, <2>2
    <3>2. 0 < old(x) /\ old(x) < old(y)
      BY <1>9, <2>2, <3>1
    <3> QED
      BY <3>2 DEF MemoryInvariant, LaterIsRecent
  <2> QED
    BY <2>1, <2>2
<1>7. SeenInLog'
  BY <1>1, <1>3 DEF MemoryInvariant, SeenInLog
<1> QED
  BY <1>4, <1>5, <1>6, <1>7 DEF MemoryInvariant

LEMMA MemoryStep == TypeOK /\ MemoryInvariant /\ [Next]_vars => MemoryInvariant'
<1> SUFFICES ASSUME TypeOK, MemoryInvariant, [Next]_vars PROVE MemoryInvariant'
  OBVIOUS
<1>0. /\ DOMAIN log = 1..Len(log) /\ Len(log) \in Nat /\ DOMAIN log \subseteq Alerts
      /\ Limit \in Nat \ {0} /\ batch \subseteq DOMAIN log /\ seenAt \in [Alerts -> Nat]
  BY LimitAssumption DEF TypeOK, Alerts
<1> USE DEF MemoryInvariant, TurnsCounted, BatchIsRecent, LaterIsRecent, SeenInLog
<1>1. CASE UNCHANGED <<log, batch, seenAt, remembered>>
  BY <1>1 DEF Later
<1>2. CASE PollerRead
  <2>1. ASSUME NEW a \in batch', NEW b \in DOMAIN log PROVE a + Limit > b
    BY <1>0, <1>2, <2>1 DEF PollerRead, TailOf
  <2>2. UNCHANGED <<log, seenAt, remembered>>
    BY <1>2 DEF PollerRead, alertVars
  <2> QED
    BY <2>1, <2>2 DEF Later
<1>3. ASSUME NEW a \in batch, Look(a) PROVE MemoryInvariant'
  <2>1. batch' = batch \ {a} /\ log' = log
    BY <1>3 DEF Look, alertVars
  <2>2. CASE UNCHANGED <<seenAt, remembered>>
    BY <2>1, <2>2 DEF Later
  <2>3. CASE ~Seen(a) /\ Remember(a)
    <3>1. seenAt[a] = 0
      BY <2>3, NotSeenIsNew
    <3> HIDE DEF MemoryInvariant
    <3> QED
      BY <2>1, <2>3, <3>1, RememberKeeps
  <2> QED
    BY <1>3, <2>2, <2>3 DEF Look
<1>4. ASSUME NEW s \in Sources, Arrive(s) PROVE MemoryInvariant'
  <2> DEFINE n == Len(log) + 1
  <2>1. /\ DOMAIN log' = DOMAIN log \cup {n} /\ n \notin DOMAIN log /\ n \in Alerts
        /\ UNCHANGED <<batch, seenAt, remembered>>
    BY <1>0, <1>4, LimitAssumption DEF Arrive, TypeOK, pollerVars, Alerts
  <2>2. seenAt[n] = 0
    BY <1>0, <2>1
  <2> HIDE DEF n
  <2>3. \A b \in DOMAIN log : Later(b)' = Later(b)
    BY <1>0, <2>1, <2>2 DEF Later
  <2>4. \A b \in DOMAIN log : seenAt[b] \in Nat
    BY <1>0
  <2>5. remembered \in Nat
    BY DEF TypeOK
  <2>6. TurnsCounted'
    BY <2>1, <2>2, <2>3, <2>5
  <2>7. BatchIsRecent' /\ LaterIsRecent' /\ SeenInLog'
    BY <1>0, <2>1, <2>2, <2>4
  <2> QED
    BY <2>6, <2>7
<1>5. CASE Restart
  <2>1. batch' = {} /\ remembered' = 0 /\ log' = log /\ \A a \in Alerts : seenAt'[a] = 0
    BY <1>5 DEF Restart, alertVars
  <2>2. \A a \in DOMAIN log : seenAt'[a] = 0
    BY <1>0, <2>1
  <2> QED
    BY <2>1, <2>2
<1>6. CASE UNCHANGED vars
  BY <1>1, <1>6 DEF vars, alertVars, pollerVars
<1> QED
  BY <1>1, <1>2, <1>3, <1>4, <1>5, <1>6
  DEF Next, PollerStep, Answer, PanelStep, EndBlock, PanelFetch, PanelPost, Reload,
      Operator, Rotate, Tick, alertVars, pollerVars

(* The invariant of the poller's memory.                                   *)
THEOREM MemoryInvariantCorrect == Spec => []MemoryInvariant
<1>1. Init => MemoryInvariant
  BY DEF Init, MemoryInvariant, TurnsCounted, BatchIsRecent, LaterIsRecent, SeenInLog, Alerts
<1>2. TypeOK /\ MemoryInvariant /\ [Next]_vars => TypeOK' /\ MemoryInvariant'
  BY TypeStep, MemoryStep
<1> QED
  BY <1>1, <1>2, InitType, PTL DEF Spec

(* The poller acts on an alert once between two restarts, for any limit    *)
(* and a queue at least twice as long less one (HandledOnce).              *)
THEOREM HandledOnceCorrect == Spec => HandledOnce
<1> DEFINE Once == \A a \in Alerts : seenAt'[a] > seenAt[a] => seenAt[a] = 0
<1>1. TypeOK /\ MemoryInvariant /\ [Next]_vars => [Once]_vars
  <2> SUFFICES ASSUME TypeOK, MemoryInvariant, Next, NEW c \in Alerts, seenAt'[c] > seenAt[c]
               PROVE  seenAt[c] = 0
    OBVIOUS
  <2>1. CASE \E a \in batch : Look(a)
    <3>1. PICK a \in batch : Look(a)
      BY <2>1
    <3>2. ~Seen(a) /\ seenAt' = [seenAt EXCEPT ![a] = remembered + 1] /\ c = a
      BY <3>1 DEF Look, Remember, TypeOK
    <3> QED
      BY <3>2, NotSeenIsNew
  <2>2. CASE Restart
    BY <2>2 DEF Restart, TypeOK
  <2>3. CASE UNCHANGED seenAt
    BY <2>3 DEF TypeOK
  <2> QED
    BY <2>1, <2>2, <2>3
    DEF Next, PollerStep, Answer, PanelStep, PollerRead, EndBlock, PanelFetch, PanelPost, Reload,
        Arrive, Operator, Rotate, Tick, pollerVars
<1> QED
  BY <1>1, AutoblockTypeCorrect, MemoryInvariantCorrect, PTL DEF Spec, HandledOnce
=============================================================================
