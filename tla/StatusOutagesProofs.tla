------------------------- MODULE StatusOutagesProofs -------------------------
(***************************************************************************)
(* Proofs about StatusOutages, for any number of devices, rows and faults, *)
(* any window, gap and retention: the types, and that a report is sent     *)
(* once.                                                                   *)
(***************************************************************************)
EXTENDS MCStatusOutages, SequenceTheorems, TLAPS

(* Days: what a day of times is.                                           *)
LEMMA DivBounds ==
  ASSUME NEW a \in Nat, NEW d \in Nat \ {0}
  PROVE  a \div d \in Nat /\ d * (a \div d) <= a /\ a < d * (a \div d) + d
BY SMT

LEMMA DivSmall ==
  ASSUME NEW a \in Nat, NEW d \in Nat \ {0}
  PROVE  a \div d \in 0 .. a
<1>1. a \div d \in Nat /\ d * (a \div d) <= a
  BY DivBounds
<1> DEFINE q == a \div d
<1>2. q <= d * q
  BY <1>1, SMT
<1> QED BY <1>1, <1>2

LEMMA FactorLess ==
  ASSUME NEW d \in Nat \ {0}, NEW p \in Nat, NEW q \in Nat, d * p < d * q + d
  PROVE p <= q
BY SMT

LEMMA DivMonotone ==
  ASSUME NEW a \in Nat, NEW b \in Nat, NEW d \in Nat \ {0}, a <= b
  PROVE  a \div d <= b \div d
<1> DEFINE p == a \div d
           q == b \div d
<1>1. p \in Nat /\ q \in Nat /\ d * p <= a /\ b < d * q + d
  BY DivBounds
<1> HIDE DEF p, q
<1>2. d * p \in Nat /\ d * q \in Nat
  BY <1>1
<1>3. d * p < d * q + d
  BY <1>1, <1>2
<1>4. p <= q
  BY <1>1, <1>3, FactorLess
<1> QED BY <1>4 DEF p, q

LEMMA DivFar ==
  ASSUME NEW a \in Nat, NEW b \in Nat, NEW d \in Nat \ {0}, a + d <= b
  PROVE  a \div d < b \div d
<1> DEFINE p == a \div d
           q == b \div d
<1>1. p \in Nat /\ q \in Nat /\ d * p <= a /\ b < d * q + d
  BY DivBounds
<1> HIDE DEF p, q
<1>2. d * p \in Nat /\ d * q \in Nat /\ d * (p + 1) = d * p + d
  BY <1>1
<1>3. d * (p + 1) < d * q + d
  BY <1>1, <1>2
<1>4. p + 1 <= q
  BY <1>1, <1>3, FactorLess
<1> QED BY <1>1, <1>4 DEF p, q

LEMMA DayOver ==
  ASSUME NEW a \in Nat, NEW c \in Nat, NEW d \in Nat, NEW day \in Nat \ {0}, day <= d, a + d < c
  PROVE  a \div day < c \div day
<1>1. a + day <= c
  OBVIOUS
<1> QED BY <1>1, DivFar

(* What is left of a sequence without its first elements.                  *)
LEMMA RestOf ==
  ASSUME NEW S, NEW s \in Seq(S), NEW f \in 1 .. (Len(s) + 1), NEW k \in DOMAIN SubSeq(s, f, Len(s))
  PROVE  f + k - 1 \in DOMAIN s /\ SubSeq(s, f, Len(s))[k] = s[f + k - 1]
<1> DEFINE l == Len(s)
           t == SubSeq(s, f, l)
<1>1. l \in Nat /\ f \in 1 .. (l + 1) /\ DOMAIN s = 1 .. l
  OBVIOUS
<1>2. \A i \in f .. l : s[i] \in S
  BY <1>1, ElementOfSeq
<1>3. /\ t \in Seq(S) /\ Len(t) = IF f <= l THEN l - f + 1 ELSE 0
      /\ \A i \in 1 .. l - f + 1 : t[i] = s[f + i - 1]
  BY <1>1, <1>2, SubSeqProperties
<1>4. DOMAIN t = 1 .. Len(t) /\ k \in DOMAIN t
  BY <1>3
<1> HIDE DEF l, t
<1>5. f <= l /\ k \in 1 .. (l - f + 1)
  BY <1>1, <1>3, <1>4
<1>6. f + k - 1 \in 1 .. l
  BY <1>1, <1>5
<1> QED BY <1>1, <1>3, <1>5, <1>6 DEF l, t

LEMMA FarBefore ==
  ASSUME NEW a \in Nat, NEW b \in Nat, NEW c \in Nat, NEW d \in Nat, NEW w \in Nat,
         a <= b, b + d < c, w < d
  PROVE  a < c - w
OBVIOUS

-----------------------------------------------------------------------------
USE DeviceAssumption, TimeAssumption, RetentionAssumption, DayAssumption, LimitAssumption

(* A notice that the loop may still find due, and one that it never will:  *)
(* its outage has left the window, or its day is over.                     *)
Current(n) == IF n.type = "summary" THEN Since(Window) <= n.key /\ n.key <= now
                                    ELSE n.key = now \div Day
Past(n)    == IF n.type = "summary" THEN n.key < Since(Window) ELSE n.key < now \div Day

RowsArePast    == \A k \in DOMAIN rows : rows[k].ts <= now
OneAtATime     == marking \subseteq told /\ \A m, n \in marking : m = n
WorkIsCurrent  == \A n \in work \cup marking : Current(n)

(* A mark is as old as what it marks, so that what retention deletes is of *)
(* the past.                                                               *)
MarksAreDated ==
  \A s \in sent : IF s.notice.type = "summary" THEN s.notice.key <= s.at
                                               ELSE s.notice.key = s.at \div Day
ToldIsMarked   == \A n \in told \ (unmarked \cup marking) : IsSent(n) \/ Past(n)

ReportInvariant ==
  TypeOK /\ RowsArePast /\ OneAtATime /\ WorkIsCurrent /\ MarksAreDated /\ ToldIsMarked

LEMMA SinceBounds ==
  ASSUME now \in Nat, NEW d \in Nat
  PROVE  Since(d) \in 0 .. now
BY DEF Since

LEMMA ReportsStart == Init => ReportInvariant
<1> SUFFICES ASSUME Init PROVE ReportInvariant
  OBVIOUS
<1> USE DEF Init
<1>1. TypeOK
  <2>1. rows \in Seq(Row)
    OBVIOUS
  <2>2. now \in 0 .. MaxTime /\ written \in 0 .. MaxRows /\ faults \in 0 .. MaxFaults
    OBVIOUS
  <2> QED BY <2>1, <2>2 DEF TypeOK
<1>2. RowsArePast /\ OneAtATime /\ WorkIsCurrent /\ MarksAreDated /\ ToldIsMarked
  BY DEF RowsArePast, OneAtATime, WorkIsCurrent, MarksAreDated, ToldIsMarked
<1> QED BY <1>1, <1>2 DEF ReportInvariant

LEMMA FaultCounts ==
  ASSUME faults \in 0 .. MaxFaults, NEW kind, Fault(kind)
  PROVE  faults' \in 0 .. MaxFaults
BY DEF Fault

(* What is due is a notice, of an outage in the window or of today.        *)
LEMMA DueIsCurrent ==
  ASSUME TypeOK, RowsArePast, NEW n \in Due
  PROVE  n \in Notices /\ Current(n)
<1>1. now \in 0 .. MaxTime /\ now \in Nat /\ Window \in Nat
  BY DEF TypeOK
<1>2. CASE n \in {Summary(o) : o \in {p \in Outages : Settled(p)}}
  <2>1. PICK h \in Downs : n = Summary(Outage(Cluster(h), rows[h].ts))
    BY <1>2 DEF Outages
  <2>2. n = [type |-> "summary", key |-> rows[h].ts]
    BY <2>1 DEF Summary, Outage
  <2>3. h \in DOMAIN rows /\ rows[h] \in Row /\ rows[h].ts >= Since(Window)
    BY <2>1 DEF Downs, Recent, TypeOK
  <2>4. rows[h].ts \in 0 .. MaxTime /\ rows[h].ts <= now
    BY <2>3 DEF Row, RowsArePast
  <2>5. Since(Window) \in 0 .. now
    BY <1>1, SinceBounds
  <2> QED BY <2>2, <2>3, <2>4, <2>5 DEF Notices, Current
<1>3. CASE n \in {Repeat(c, now \div Day) : c \in Repeats(Outages)}
  <2>1. PICK c \in {"wan_isp", "wan_ok_interno", "sector_parcial"} : n = Repeat(c, now \div Day)
    BY <1>3 DEF Repeats
  <2>2. now \div Day \in 0 .. now
    BY <1>1, DivSmall
  <2> QED BY <1>1, <2>1, <2>2 DEF Repeat, Notices, Current
<1> QED BY <1>2, <1>3 DEF Due

-----------------------------------------------------------------------------
(* The steps: the history, the clock, the retention, the loop.             *)
LEMMA HistoryKeeps ==
  ASSUME ReportInvariant, (\E i \in IPs : Record(i)) \/ WanChanges \/ MaintenanceChanges
  PROVE  ReportInvariant'
<1> USE DEF ReportInvariant
<1>1. UNCHANGED <<now, reportVars>>
  BY DEF Record, WanChanges, MaintenanceChanges
<1>2. faults' \in 0 .. MaxFaults
  BY FaultCounts DEF Record, WanChanges, MaintenanceChanges, TypeOK
<1>3. online' \subseteq IPs /\ written' \in 0 .. MaxRows /\ wan' \in BOOLEAN /\ maint' \in BOOLEAN
  <2>1. CASE \E i \in IPs : Record(i)
    <3>1. written' = written + 1 /\ written < MaxRows /\ UNCHANGED <<wan, maint>>
      BY <2>1 DEF Record
    <3>2. online' \subseteq IPs
      BY <2>1 DEF Record, TypeOK
    <3> QED BY <3>1, <3>2 DEF TypeOK
  <2>2. CASE WanChanges
    BY <2>2 DEF WanChanges, TypeOK
  <2>3. CASE MaintenanceChanges
    BY <2>3 DEF MaintenanceChanges, TypeOK
  <2> QED BY <2>1, <2>2, <2>3
<1>4. rows' \in Seq(Row) /\ RowsArePast'
  <2>1. CASE UNCHANGED rows
    BY <1>1, <2>1 DEF TypeOK, RowsArePast
  <2>2. ASSUME NEW r \in Row, r.ts = now, rows' = Append(rows, r)
        PROVE  rows' \in Seq(Row) /\ RowsArePast'
    <3>1. rows \in Seq(Row) /\ now \in Nat
      BY DEF TypeOK
    <3>2. /\ rows' \in Seq(Row) /\ DOMAIN rows' = 1 .. (Len(rows) + 1) /\ DOMAIN rows = 1 .. Len(rows)
          /\ \A k \in 1 .. Len(rows) : rows'[k] = rows[k]
          /\ rows'[Len(rows) + 1] = r
      BY <2>2, <3>1, AppendProperties
    <3> QED BY <1>1, <2>2, <3>1, <3>2 DEF RowsArePast, reportVars
  <2>3. ASSUME NEW i \in IPs, Record(i), rows' # rows
        PROVE  \E r \in Row : r.ts = now /\ rows' = Append(rows, r)
    <3> DEFINE r == [ip |-> i, up |-> i \notin online, ts |-> now, wan |-> wan, maint |-> maint]
    <3>1. rows' = Append(rows, r)
      BY <2>3 DEF Record
    <3>2. r \in Row /\ r.ts = now
      BY DEF TypeOK, Row
    <3> QED BY <3>1, <3>2
  <2> QED BY <2>1, <2>2, <2>3 DEF WanChanges, MaintenanceChanges
<1>5. TypeOK'
  BY <1>1, <1>2, <1>3, <1>4 DEF TypeOK, reportVars
<1>6. OneAtATime' /\ WorkIsCurrent' /\ MarksAreDated' /\ ToldIsMarked'
  BY <1>1 DEF reportVars, OneAtATime, WorkIsCurrent, MarksAreDated, ToldIsMarked, Current, Past,
              IsSent, Since
<1> QED BY <1>4, <1>5, <1>6

LEMMA TickKeeps ==
  ASSUME ReportInvariant, Tick
  PROVE  ReportInvariant'
<1> USE DEF ReportInvariant
<1>1. now \in Nat /\ now' \in Nat /\ now <= now' /\ now' \in 0 .. MaxTime
  BY DEF Tick, TypeOK
<1>2. UNCHANGED <<statusVars, reportVars, faults>> /\ work = {} /\ marking = {}
  BY DEF Tick
<1>3. TypeOK'
  BY <1>1, <1>2 DEF TypeOK, statusVars, reportVars
<1>4. RowsArePast'
  <2>1. \A k \in DOMAIN rows : rows[k].ts \in Nat
    <3>1. rows \in Seq(Row)
      BY DEF TypeOK
    <3>2. \A k \in DOMAIN rows : rows[k] \in Row
      BY <3>1
    <3> QED BY <3>2 DEF Row
  <2> QED BY <1>1, <1>2, <2>1 DEF RowsArePast, statusVars
<1>5. OneAtATime' /\ WorkIsCurrent' /\ MarksAreDated'
  BY <1>2 DEF OneAtATime, WorkIsCurrent, MarksAreDated, reportVars
<1>6. ASSUME NEW n \in Notices, Past(n)
      PROVE  Past(n)'
  <2>1. Since(Window) <= Since(Window)'
    BY <1>1 DEF Since
  <2>2. now \div Day <= now' \div Day
    BY <1>1, DivMonotone
  <2>3. n.key \in Nat
    BY DEF Notices
  <2>4. now \div Day \in 0 .. now /\ now' \div Day \in 0 .. now'
    BY <1>1, DivSmall
  <2>5. Since(Window) \in Nat /\ Since(Window)' \in Nat
    BY <1>1 DEF Since
  <2> QED BY <1>6, <2>1, <2>2, <2>3, <2>4, <2>5 DEF Past
<1>7. ToldIsMarked'
  BY <1>2, <1>6 DEF ToldIsMarked, reportVars, IsSent, TypeOK
<1> QED BY <1>3, <1>4, <1>5, <1>7

LEMMA PruneKeeps ==
  ASSUME ReportInvariant, Prune
  PROVE  ReportInvariant'
<1> USE DEF ReportInvariant
<1>1. PICK days \in {Retention, Aggressive}, first \in 1 .. (Len(rows) + 1) :
        /\ rows' = SubSeq(rows, first, Len(rows))
        /\ sent' = {s \in sent : s.at >= Since(days)}
  BY DEF Prune
<1>2. /\ UNCHANGED <<now, online, written, wan, maint, work, marking, told, unmarked>>
      /\ faults' \in 0 .. MaxFaults
  BY FaultCounts DEF Prune, TypeOK
<1>3. now \in Nat /\ days \in Nat /\ Window \in Nat /\ Window < days /\ Day <= days
  BY DEF TypeOK
<1>4. rows' \in Seq(Row) /\ RowsArePast'
  <2>1. rows \in Seq(Row) /\ Len(rows) \in Nat /\ first \in 1 .. (Len(rows) + 1)
    BY DEF TypeOK
  <2>2. rows' \in Seq(Row) /\ \A k \in DOMAIN rows' : \E j \in DOMAIN rows : rows'[k] = rows[j]
    <3>1. rows' \in Seq(Row)
      <4>1. \A i \in first .. Len(rows) : rows[i] \in Row
        BY <2>1, ElementOfSeq
      <4> QED BY <1>1, <2>1, <4>1, SubSeqProperties
    <3>2. ASSUME NEW k \in DOMAIN rows'
          PROVE  first + k - 1 \in DOMAIN rows /\ rows'[k] = rows[first + k - 1]
      BY <1>1, <2>1, <3>2, RestOf
    <3> QED BY <3>1, <3>2
  <2> QED BY <1>2, <2>2 DEF RowsArePast
<1>5. TypeOK'
  BY <1>1, <1>2, <1>4 DEF TypeOK
<1>6. OneAtATime' /\ WorkIsCurrent' /\ MarksAreDated'
  BY <1>1, <1>2 DEF OneAtATime, WorkIsCurrent, MarksAreDated, Current, Since
<1>7. ASSUME NEW n \in Notices, IsSent(n)
      PROVE  IsSent(n)' \/ Past(n)
  <2>1. PICK s \in sent : s.notice = n
    BY <1>7 DEF IsSent
  <2>2. s.at \in Nat /\ n.key \in Nat
    BY DEF TypeOK, Notices
  <2>3. CASE s.at >= Since(days)
    BY <1>1, <2>1, <2>3 DEF IsSent
  <2>4. CASE s.at < Since(days)
    <3>1. now >= days /\ s.at + days < now
      BY <1>3, <2>2, <2>4 DEF Since
    <3>2. CASE n.type = "summary"
      <4>1. n.key <= s.at
        BY <2>1, <3>2 DEF MarksAreDated
      <4>2. Since(Window) = now - Window
        BY <1>3, <3>1 DEF Since
      <4>3. n.key < now - Window
        <5>1. n.key <= s.at /\ s.at + days < now /\ Window < days
          BY <1>3, <3>1, <4>1
        <5> QED BY <1>3, <2>2, <5>1, FarBefore
      <4> QED BY <3>2, <4>2, <4>3 DEF Past
    <3>3. CASE n.type # "summary"
      <4>1. n.key = s.at \div Day
        BY <2>1, <3>3 DEF MarksAreDated
      <4>2. s.at \div Day < now \div Day
        <5>1. Day <= days /\ s.at + days < now /\ Day \in Nat \ {0}
          BY <1>3, <3>1
        <5> QED BY <1>3, <2>2, <5>1, DayOver
      <4> QED BY <3>3, <4>1, <4>2 DEF Past
    <3> QED BY <3>2, <3>3
  <2> QED BY <1>3, <2>2, <2>3, <2>4 DEF Since
<1>8. \A n \in Notices : Past(n) => Past(n)'
  BY <1>2 DEF Past, Since
<1>9. ToldIsMarked'
  BY <1>2, <1>7, <1>8 DEF ToldIsMarked, TypeOK
<1> QED BY <1>4, <1>5, <1>6, <1>9

(* In the loop's own steps neither the clock nor the history moves.        *)
LEMMA LoopKeeps ==
  ASSUME ReportInvariant, UNCHANGED <<now, statusVars>>, faults' \in 0 .. MaxFaults,
         sent' \subseteq [notice : Notices, at : 0 .. MaxTime],
         work' \subseteq Notices, marking' \subseteq Notices, told' \subseteq Notices, unmarked' \subseteq told',
         OneAtATime', MarksAreDated', ToldIsMarked', \A n \in work' \cup marking' : Current(n)
  PROVE  ReportInvariant'
<1>1. TypeOK'
  BY DEF ReportInvariant, TypeOK, statusVars
<1>2. RowsArePast' /\ WorkIsCurrent'
  BY DEF ReportInvariant, RowsArePast, WorkIsCurrent, Current, Since, statusVars
<1> QED BY <1>1, <1>2 DEF ReportInvariant

LEMMA LookKeeps ==
  ASSUME ReportInvariant, Look
  PROVE  ReportInvariant'
<1>1. TypeOK /\ RowsArePast /\ OneAtATime /\ WorkIsCurrent /\ MarksAreDated /\ ToldIsMarked
  BY DEF ReportInvariant
<1>2. /\ work' = Due
      /\ UNCHANGED <<now, statusVars, sent, marking, told, unmarked, faults>>
  BY DEF Look
<1>3. \A n \in work' : n \in Notices /\ Current(n)
  BY <1>1, <1>2, DueIsCurrent
<1>4. OneAtATime' /\ MarksAreDated' /\ ToldIsMarked'
  BY <1>1, <1>2 DEF OneAtATime, MarksAreDated, ToldIsMarked, IsSent, Past, Since
<1> QED BY <1>1, <1>2, <1>3, <1>4, LoopKeeps DEF TypeOK, WorkIsCurrent

(* A notice goes out that was never told, or could not be marked: what was *)
(* told is in the table unless it is of the past, and what is of the past  *)
(* is not in hand.                                                         *)
LEMMA NotTwice ==
  ASSUME ReportInvariant, NEW n \in work, marking = {}, ~IsSent(n), n \in told
  PROVE  n \in unmarked
<1>1. n \in Notices /\ Current(n) /\ now \in Nat
  BY DEF ReportInvariant, TypeOK, WorkIsCurrent
<1>2. n.key \in Nat /\ now \div Day \in 0 .. now /\ Since(Window) \in Nat
  BY <1>1, DivSmall DEF Notices, Since
<1>3. ~Past(n)
  BY <1>1, <1>2 DEF Past, Current
<1> QED BY <1>3 DEF ReportInvariant, ToldIsMarked

LEMMA SendKeeps ==
  ASSUME ReportInvariant, Send
  PROVE  ReportInvariant'
<1>1. TypeOK /\ OneAtATime /\ WorkIsCurrent /\ MarksAreDated /\ ToldIsMarked
  BY DEF ReportInvariant
<1>2. PICK n \in work :
        /\ marking = {} /\ work' = work \ {n}
        /\ IF IsSent(n) THEN UNCHANGED <<marking, told>>
                        ELSE marking' = {n} /\ told' = told \cup {n}
        /\ UNCHANGED <<now, statusVars, sent, unmarked, faults>>
  BY DEF Send
<1>3. OneAtATime' /\ MarksAreDated'
  BY <1>1, <1>2 DEF OneAtATime, MarksAreDated
<1>4. ToldIsMarked'
  BY <1>1, <1>2 DEF ToldIsMarked, IsSent, Past, Since
<1>5. work' \subseteq Notices /\ marking' \subseteq Notices /\ told' \subseteq Notices /\ unmarked' \subseteq told'
  BY <1>1, <1>2 DEF TypeOK
<1>6. \A m \in work' \cup marking' : Current(m)
  BY <1>1, <1>2 DEF WorkIsCurrent
<1> QED BY <1>1, <1>2, <1>3, <1>4, <1>5, <1>6, LoopKeeps DEF TypeOK

LEMMA MarkKeeps ==
  ASSUME ReportInvariant, Mark
  PROVE  ReportInvariant'
<1>1. TypeOK /\ OneAtATime /\ WorkIsCurrent /\ MarksAreDated /\ ToldIsMarked
  BY DEF ReportInvariant
<1>2. PICK n \in marking :
        /\ marking' = {}
        /\ \/ /\ sent' = sent \cup {[notice |-> n, at |-> now]}
              /\ unmarked' = unmarked \ {n} /\ UNCHANGED <<work, faults>>
           \/ /\ Fault("mark_fails") /\ work' = {}
              /\ unmarked' = unmarked \cup {n} /\ UNCHANGED sent
        /\ UNCHANGED <<now, statusVars, told>>
  BY DEF Mark
<1>3. marking = {n} /\ n \in told /\ n \in Notices /\ now \in 0 .. MaxTime
  BY <1>1, <1>2 DEF OneAtATime, TypeOK
<1>4. OneAtATime' /\ unmarked' \subseteq told' /\ work' \subseteq work /\ faults' \in 0 .. MaxFaults
  BY <1>1, <1>2, <1>3, FaultCounts DEF OneAtATime, TypeOK
<1>5. CASE sent' = sent \cup {[notice |-> n, at |-> now]} /\ unmarked' = unmarked \ {n}
  <2> DEFINE s == [notice |-> n, at |-> now]
  <2>1. s \in [notice : Notices, at : 0 .. MaxTime] /\ s.notice = n /\ s.at = now
    BY <1>3
  <2>2. Current(n)
    BY <1>1, <1>3 DEF WorkIsCurrent
  <2>3. MarksAreDated'
    BY <1>1, <1>5, <2>1, <2>2 DEF MarksAreDated, Current
  <2>4. IsSent(n)' /\ \A m : IsSent(m) => IsSent(m)'
    BY <1>5, <2>1 DEF IsSent
  <2>5. ToldIsMarked'
    BY <1>1, <1>2, <1>3, <1>5, <2>4 DEF ToldIsMarked, Past, Since
  <2>6. sent' \subseteq [notice : Notices, at : 0 .. MaxTime]
    BY <1>1, <1>5, <2>1 DEF TypeOK
  <2> QED BY <1>1, <1>2, <1>4, <2>3, <2>5, <2>6, LoopKeeps DEF TypeOK, WorkIsCurrent
<1>6. CASE UNCHANGED sent /\ unmarked' = unmarked \cup {n}
  <2>1. MarksAreDated' /\ ToldIsMarked'
    BY <1>1, <1>2, <1>3, <1>6 DEF MarksAreDated, ToldIsMarked, IsSent, Past, Since
  <2> QED BY <1>1, <1>2, <1>4, <1>6, <2>1, LoopKeeps DEF TypeOK, WorkIsCurrent
<1> QED BY <1>2, <1>5, <1>6

LEMMA RestartKeeps ==
  ASSUME ReportInvariant, Restart
  PROVE  ReportInvariant'
<1>1. TypeOK /\ OneAtATime /\ WorkIsCurrent /\ MarksAreDated /\ ToldIsMarked
  BY DEF ReportInvariant
<1>2. /\ work' = {} /\ marking' = {} /\ unmarked' = unmarked \cup marking
      /\ UNCHANGED <<now, statusVars, sent, told>> /\ faults' \in 0 .. MaxFaults
  BY <1>1, FaultCounts DEF Restart, TypeOK
<1>3. OneAtATime' /\ MarksAreDated' /\ unmarked' \subseteq told'
  BY <1>1, <1>2 DEF OneAtATime, MarksAreDated, TypeOK
<1>4. ToldIsMarked'
  BY <1>1, <1>2 DEF ToldIsMarked, IsSent, Past, Since
<1> QED BY <1>1, <1>2, <1>3, <1>4, LoopKeeps DEF TypeOK

LEMMA StutterKeeps ==
  ASSUME ReportInvariant, UNCHANGED vars
  PROVE  ReportInvariant'
BY DEF vars, statusVars, reportVars, ReportInvariant, TypeOK, RowsArePast, OneAtATime, WorkIsCurrent,
       MarksAreDated, ToldIsMarked, Current, Past, Since, IsSent

-----------------------------------------------------------------------------
(* What was told is in the table of what was sent, unless it could not be  *)
(* written there or is of the past; what is in hand is not of the past     *)
(* (process_outage_telegram_reports, run_data_retention_prune).            *)
THEOREM ReportInvariantCorrect == Spec => []ReportInvariant
<1>1. ReportInvariant /\ [Next]_vars => ReportInvariant'
  BY HistoryKeeps, TickKeeps, PruneKeeps, LookKeeps, SendKeeps, MarkKeeps, RestartKeeps, StutterKeeps
  DEF Next, Report
<1> QED BY <1>1, ReportsStart, PTL DEF Spec

(* A report is sent once, whatever is pruned and however the window moves, *)
(* unless the last time it was sent it could not be marked                 *)
(* (process_outage_telegram_reports, _mark_report_sent).                   *)
THEOREM ReportsOnceCorrect == Spec => ReportsOnce
<1>1. ReportInvariant /\ [Next]_vars => [marking' \cap told \subseteq marking \cup unmarked]_vars
  <2> SUFFICES ASSUME ReportInvariant, Next PROVE marking' \cap told \subseteq marking \cup unmarked
    OBVIOUS
  <2>1. CASE Send
    <3>1. PICK n \in work : marking = {} /\ IF IsSent(n) THEN UNCHANGED marking ELSE marking' = {n}
      BY <2>1 DEF Send
    <3> QED BY <3>1, NotTwice
  <2>2. CASE ~Send
    <3>1. marking' \subseteq marking
      BY <2>2 DEF Next, Report, Record, WanChanges, MaintenanceChanges, Tick, Prune, Look, Mark, Restart,
                  reportVars
    <3> QED BY <3>1
  <2> QED BY <2>1, <2>2
<1>2. ReportInvariant => TypeOK
  BY DEF ReportInvariant
<1> QED BY <1>1, <1>2, ReportInvariantCorrect, PTL DEF Spec, ReportsOnce, SentOnce
=============================================================================
