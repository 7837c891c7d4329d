------------------------- MODULE InframonitorProofs -------------------------
(***************************************************************************)
(* Proofs about Inframonitor, for any number of devices, any thresholds    *)
(* and any faults: the types, the agreement of the events with the         *)
(* statuses, and the presence of Guardian's access points.                 *)
(***************************************************************************)
EXTENDS MCInframonitor, FiniteSetTheorems, TLAPS

StatusRows == [IPs -> {"none"} \cup Statuses]
SnmpRows   == [IPs -> [ok : BOOLEAN, fresh : BOOLEAN, fails : 0..Backoff]]
DataRows   == [IPs -> {"gone"} \cup Statuses]

(* What a cycle of the fast loop, and one of the slow loop, has in memory. *)
FastStates ==
  [at : {"idle", "copied", "read", "mirrored", "pinged"},
   rows : [IPs -> {"none", "ap_guardian", "out"} \cup Live], prev : StatusRows,
   skip : SUBSET IPs, seen : [IPs -> Statuses]]
SlowStates ==
  [at : {"idle", "polled", "written"}, res : [IPs -> {"out", "same", "ok", "fail"}],
   read : DataRows]

(* The access points remembered: none, or one set of them.                 *)
CacheOK == apCache = {} \/ \E S \in SUBSET IPs : apCache = {S}

NetworkTypes == down \subseteq IPs /\ lossy \subseteq IPs /\ gwBad \in BOOLEAN /\ gAps \subseteq IPs
                  /\ gStatus \in [IPs -> {"none", "online", "no-internet"}]
DeviceTypes  == profile \in [IPs -> {"none", "ap_guardian"} \cup Live] /\ active \subseteq IPs
StatusTypes  == status \in StatusRows /\ lastEvent \in StatusRows
AnswerTypes  == snmp \in SnmpRows /\ data \in DataRows
LoopTypes    == fast \in FastStates /\ slow \in SlowStates /\ CacheOK /\ streak \in 0..(Cap + 1)
CountTypes   == measured \subseteq IPs /\ mirrored \subseteq IPs /\ missed \subseteq IPs
                  /\ happened \in 0..MaxHappens

Types ==
  NetworkTypes /\ DeviceTypes /\ StatusTypes /\ AnswerTypes /\ LoopTypes /\ CountTypes

(* The fast loop knows the last status of every device but those that      *)
(* Guardian's mirror may have rewritten since it read them: what it        *)
(* compares its answers with is what the last event told.                  *)
PrevIsStatus == \A i \in IPs \ mirrored : fast.prev[i] = status[i]

InfraInvariant == Types /\ PrevIsStatus /\ HistoryMatches /\ ApsCopied

USE ProfileAssumption, StockAssumption, CountAssumption, PulseAssumption
-----------------------------------------------------------------------------
(* One set or none is what the type of the model says of the cache.        *)
LEMMA CacheHasOneSet ==
  ASSUME CacheOK
  PROVE  Cardinality(apCache) <= 1 /\ UNION apCache \subseteq IPs
<1>1. CASE apCache = {}
  BY <1>1, FS_EmptySet
<1>2. ASSUME NEW S \in SUBSET IPs, apCache = {S} PROVE Cardinality(apCache) <= 1 /\ UNION apCache \subseteq IPs
  BY <1>2, FS_Singleton
<1> QED BY <1>1, <1>2 DEF CacheOK

LEMMA TypesGiveTypeOK ==
  ASSUME Types
  PROVE  TypeOK
BY CacheHasOneSet DEF Types, TypeOK, NetworkTypes, DeviceTypes, StatusTypes, AnswerTypes, LoopTypes,
   CountTypes, StatusRows, SnmpRows, DataRows

LEMMA HappenedCounted ==
  ASSUME CountTypes, NEW kind, Happen(kind)
  PROVE  happened' \in 0..MaxHappens
BY DEF CountTypes, Happen

(* A loop at rest is a state of that loop.                                 *)
LEMMA IdleStates ==
  ASSUME StatusTypes
  PROVE  IdleFast \in FastStates /\ IdleSlow \in SlowStates /\ IdleFast.prev = status
BY DEF StatusTypes, IdleFast, IdleSlow, FastStates, SlowStates, StatusRows, DataRows, Statuses

(* The access points remembered are shown, in the words the provers take.  *)
LEMMA ApsOfSets ==
  ApsCopied <=> \A S \in apCache : \A i \in S \ missed : i \in active /\ profile[i] = "ap_guardian"
<1>1. \A i : i \in UNION apCache <=> \E S \in apCache : i \in S
  OBVIOUS
<1> QED BY <1>1 DEF ApsCopied

LEMMA ApsOfSetsNext ==
  ApsCopied' <=> \A S \in apCache' : \A i \in S \ missed' : i \in active' /\ profile'[i] = "ap_guardian"
<1>1. \A i : i \in UNION apCache' <=> \E S \in apCache' : i \in S
  OBVIOUS
<1> QED BY <1>1 DEF ApsCopied

LEMMA InitInvariant == Init => InfraInvariant
<1> SUFFICES ASSUME Init PROVE InfraInvariant
  OBVIOUS
<1>1. StatusTypes
  BY DEF Init, StatusTypes, StatusRows
<1>2. NetworkTypes /\ CountTypes
  <2>1. MaxHappens \in Nat
    OBVIOUS
  <2>2. NetworkTypes
    BY DEF Init, NetworkTypes
  <2>3. CountTypes
    BY <2>1 DEF Init, CountTypes
  <2> QED BY <2>2, <2>3
<1>3. DeviceTypes
  BY DEF Init, DeviceTypes, Live
<1>4. AnswerTypes
  BY DEF Init, AnswerTypes, SnmpRows, DataRows
<1>5. LoopTypes /\ PrevIsStatus
  BY <1>1, IdleStates DEF Init, LoopTypes, CacheOK, PrevIsStatus
<1>6. HistoryMatches /\ ApsCopied
  BY DEF Init, HistoryMatches, ApsCopied
<1> QED BY <1>1, <1>2, <1>3, <1>4, <1>5, <1>6 DEF InfraInvariant, Types
-----------------------------------------------------------------------------
(* The network and Guardian.                                               *)
LEMMA NetworkKeeps ==
  ASSUME InfraInvariant, NetworkChanges
  PROVE  InfraInvariant'
<1> USE DEF NetworkChanges, tableVars, loopVars, ghostVars
<1>1. NetworkTypes'
  BY DEF InfraInvariant, Types, NetworkTypes
<1>2. happened' \in 0..MaxHappens
  BY HappenedCounted DEF InfraInvariant, Types
<1>3. Types'
  BY <1>1, <1>2 DEF InfraInvariant, Types, DeviceTypes, StatusTypes, AnswerTypes, LoopTypes, CacheOK,
     CountTypes
<1>4. PrevIsStatus' /\ HistoryMatches' /\ ApsCopied'
  BY DEF InfraInvariant, PrevIsStatus, HistoryMatches, ApsCopied
<1> QED BY <1>3, <1>4 DEF InfraInvariant

(* The requests of the panel, the expiry of Redis and the age of an answer.*)
LEMMA PanelKeeps ==
  ASSUME InfraInvariant, NEW i \in IPs, Add(i) \/ Remove(i) \/ Edit(i) \/ Flush(i) \/ Ages(i)
  PROVE  InfraInvariant'
<1> USE DEF netVars, tableVars, loopVars, ghostVars
<1>1. Profiles \subseteq {"none", "ap_guardian"} \cup Live
  BY DEF Live
<1>2. CASE Add(i)
  <2>1. PICK p \in Profiles : Add(i)!(p)
    BY <1>2 DEF Add
  <2>2. Types'
    BY <1>1, <2>1, HappenedCounted DEF InfraInvariant, Types, NetworkTypes, DeviceTypes, StatusTypes,
       AnswerTypes, LoopTypes, CacheOK, CountTypes
  <2>3. PrevIsStatus' /\ HistoryMatches'
    BY <2>1 DEF InfraInvariant, PrevIsStatus, HistoryMatches
  <2>4. ApsCopied'
    BY <2>1 DEF InfraInvariant, ApsCopied, Types, DeviceTypes
  <2> QED BY <2>2, <2>3, <2>4 DEF InfraInvariant
<1>3. CASE Remove(i)
  <2>2. Types'
    BY <1>3, HappenedCounted DEF Remove, InfraInvariant, Types, NetworkTypes, DeviceTypes, StatusTypes,
       AnswerTypes, LoopTypes, CacheOK, CountTypes
  <2>3. PrevIsStatus' /\ HistoryMatches' /\ ApsCopied'
    BY <1>3, ApsOfSets, ApsOfSetsNext DEF Remove, InfraInvariant, PrevIsStatus, HistoryMatches
  <2> QED BY <2>2, <2>3 DEF InfraInvariant
<1>4. CASE Edit(i)
  <2>1. PICK p \in Profiles : Edit(i)!(p)
    BY <1>4 DEF Edit
  <2>2. Types'
    BY <1>1, <2>1, HappenedCounted DEF InfraInvariant, Types, NetworkTypes, DeviceTypes, StatusTypes,
       AnswerTypes, LoopTypes, CacheOK, CountTypes
  <2>3. PrevIsStatus' /\ HistoryMatches'
    BY <2>1 DEF InfraInvariant, PrevIsStatus, HistoryMatches
  <2>4. ApsCopied'
    <3>1. \A j : j # i => profile'[j] = profile[j]
      BY <2>1 DEF InfraInvariant, Types, DeviceTypes
    <3> QED BY <2>1, <3>1, ApsOfSets, ApsOfSetsNext DEF InfraInvariant
  <2> QED BY <2>2, <2>3, <2>4 DEF InfraInvariant
<1>5. CASE Flush(i)
  <2>1. data' \in DataRows
    BY <1>5 DEF Flush, InfraInvariant, Types, AnswerTypes, DataRows
  <2>2. Types'
    BY <1>5, <2>1, HappenedCounted DEF Flush, InfraInvariant, Types, NetworkTypes, DeviceTypes,
       StatusTypes, AnswerTypes, LoopTypes, CacheOK, CountTypes
  <2>3. PrevIsStatus' /\ HistoryMatches' /\ ApsCopied'
    BY <1>5 DEF Flush, InfraInvariant, PrevIsStatus, HistoryMatches, ApsCopied
  <2> QED BY <2>2, <2>3 DEF InfraInvariant
<1>6. CASE Ages(i)
  <2>1. snmp' \in SnmpRows
    BY <1>6 DEF Ages, InfraInvariant, Types, AnswerTypes, SnmpRows
  <2>2. Types'
    BY <1>6, <2>1 DEF Ages, InfraInvariant, Types, NetworkTypes, DeviceTypes, StatusTypes, AnswerTypes,
       LoopTypes, CacheOK, CountTypes
  <2>3. PrevIsStatus' /\ HistoryMatches' /\ ApsCopied'
    BY <1>6 DEF Ages, InfraInvariant, PrevIsStatus, HistoryMatches, ApsCopied
  <2> QED BY <2>2, <2>3 DEF InfraInvariant
<1> QED BY <1>2, <1>3, <1>4, <1>5, <1>6
-----------------------------------------------------------------------------
(* A copy of Guardian's access points shows those it remembers, or its     *)
(* failure is what they miss.                                              *)
LEMMA CopyKeeps ==
  ASSUME Types, ApsCopied, CopyAps
  PROVE  DeviceTypes' /\ CacheOK' /\ (missed' \subseteq IPs) /\ (happened' \in 0..MaxHappens) /\ ApsCopied'
<1>1. DeviceTypes' /\ (missed' \subseteq IPs)
  BY DEF CopyAps, Types, DeviceTypes, NetworkTypes, CountTypes
<1>2. CacheOK'
  BY DEF CopyAps, Types, NetworkTypes, LoopTypes, CacheOK
<1>3. happened' \in 0..MaxHappens
  BY HappenedCounted DEF CopyAps, Types, CountTypes
<1>4. ApsCopied'
  <2>1. CASE UNCHANGED <<apCache, profile, active, missed>>
    BY <2>1 DEF ApsCopied
  <2>2. CASE apCache' = {gAps} /\ missed' = missed \cup gAps
    BY <2>2, ApsOfSetsNext
  <2>3. CASE /\ apCache' = {gAps} /\ gAps \subseteq active'
             /\ \A i \in gAps : profile'[i] = "ap_guardian"
    BY <2>3, ApsOfSetsNext
  <2> QED BY <2>1, <2>2, <2>3 DEF CopyAps, Types, NetworkTypes
<1> QED BY <1>1, <1>2, <1>3, <1>4

LEMMA CopiesKeep ==
  ASSUME InfraInvariant, ListDevices \/ FastCopies
  PROVE  InfraInvariant'
<1> USE DEF InfraInvariant, netVars, ListDevices, FastCopies
<1>1. DeviceTypes' /\ CacheOK' /\ (missed' \subseteq IPs) /\ (happened' \in 0..MaxHappens) /\ ApsCopied'
  BY CopyKeeps
<1>2. fast' \in FastStates /\ (PrevIsStatus => PrevIsStatus')
  BY IdleStates DEF Types, LoopTypes, PrevIsStatus, FastStates, StatusTypes
<1>3. NetworkTypes' /\ StatusTypes' /\ AnswerTypes'
  BY DEF Types, NetworkTypes, StatusTypes, AnswerTypes
<1>4. Types'
  BY <1>1, <1>2, <1>3 DEF Types, LoopTypes, CountTypes
<1>5. HistoryMatches'
  BY DEF HistoryMatches
<1> QED BY <1>1, <1>2, <1>4, <1>5
-----------------------------------------------------------------------------
(* The fast loop.                                                          *)
LEMMA ReadsKeep ==
  ASSUME InfraInvariant, FastReads
  PROVE  InfraInvariant'
<1> USE DEF InfraInvariant, FastReads, netVars, tableVars, ghostVars
<1>1. fast' \in FastStates /\ fast'.prev = status
  BY IdleStates DEF Types, DeviceTypes, StatusTypes, FastStates
<1>2. Types'
  BY <1>1 DEF Types, NetworkTypes, DeviceTypes, StatusTypes, AnswerTypes, LoopTypes, CacheOK, CountTypes
<1>3. PrevIsStatus' /\ HistoryMatches' /\ ApsCopied'
  BY <1>1 DEF PrevIsStatus, HistoryMatches, ApsCopied
<1> QED BY <1>2, <1>3

LEMMA MirrorsKeep ==
  ASSUME InfraInvariant, FastMirrors
  PROVE  InfraInvariant'
<1> USE DEF InfraInvariant, FastMirrors, netVars
<1>1. fast' \in FastStates /\ fast'.prev = fast.prev
  BY DEF Types, LoopTypes, FastStates
<1>2. status' \in StatusRows /\ \A i \in IPs \ mirrored' : status'[i] = status[i]
  BY DEF Types, StatusTypes, NetworkTypes, StatusRows, Statuses, Mirrored, InfraStatus
<1>3. (mirrored' \subseteq IPs) /\ (mirrored \subseteq mirrored') /\ (happened' \in 0..MaxHappens)
  BY HappenedCounted DEF Types, DeviceTypes, CountTypes, Mirrored
<1>4. Types'
  BY <1>1, <1>2, <1>3
     DEF Types, NetworkTypes, DeviceTypes, StatusTypes, AnswerTypes, LoopTypes, CacheOK, CountTypes
<1>5. PrevIsStatus' /\ HistoryMatches' /\ ApsCopied'
  BY <1>1, <1>2, <1>3 DEF PrevIsStatus, HistoryMatches, ApsCopied
<1> QED BY <1>4, <1>5

LEMMA PingsKeep ==
  ASSUME InfraInvariant, FastPings
  PROVE  InfraInvariant'
<1> USE DEF InfraInvariant, FastPings, netVars, tableVars, ghostVars
<1>1. fast' \in FastStates /\ fast'.prev = fast.prev
  <2>1. \A i \in IPs : Ping(i) \in Statuses
    BY DEF Ping, Statuses
  <2>2. PICK skip \in SUBSET IPs : FastPings!2!(skip)
    OBVIOUS
  <2>3. fast \in FastStates
    BY DEF Types, LoopTypes
  <2>4. fast'.seen \in [IPs -> Statuses]
    BY <2>1, <2>2, <2>3 DEF FastStates, Statuses
  <2> QED BY <2>2, <2>3, <2>4 DEF FastStates
<1>2. (streak' \in 0..(Cap + 1)) /\ (happened' \in 0..MaxHappens)
  BY HappenedCounted DEF Blip, Types, LoopTypes, CountTypes
<1>3. Types'
  BY <1>1, <1>2
     DEF Types, NetworkTypes, DeviceTypes, StatusTypes, AnswerTypes, LoopTypes, CacheOK, CountTypes
<1>4. PrevIsStatus' /\ HistoryMatches' /\ ApsCopied'
  BY <1>1 DEF PrevIsStatus, HistoryMatches, ApsCopied
<1> QED BY <1>3, <1>4

(* What derive_liveness makes of an answer is a status.                    *)
LEMMA LivenessIsStatus ==
  ASSUME Types, NEW i \in IPs
  PROVE  Liveness(i) \in Statuses
BY DEF Types, LoopTypes, FastStates, Liveness, Statuses

(* The row and the event of a device are written together, and no event is *)
(* left out unless the status stays, or is the first.                      *)
LEMMA PersistsKeep ==
  ASSUME InfraInvariant, FastPersists
  PROVE  InfraInvariant'
<1> USE DEF InfraInvariant, FastPersists, netVars, ghostVars
<1>1. \A i \in IPs : Liveness(i) \in Statuses
  BY LivenessIsStatus
<1>2. status' \in StatusRows /\ lastEvent' \in StatusRows
  BY <1>1 DEF Types, StatusTypes, StatusRows, Statuses
<1>3. data' \in DataRows
  BY <1>1 DEF Types, AnswerTypes, DataRows, Statuses
<1>4. fast' \in FastStates /\ fast'.prev = status'
  BY <1>2, IdleStates DEF Types, FastStates
<1>5. (measured' \subseteq IPs) /\ (happened' \in 0..MaxHappens)
  BY HappenedCounted DEF Types, CountTypes, Written, Polled
<1>6. Types'
  BY <1>2, <1>3, <1>4, <1>5
     DEF Types, NetworkTypes, DeviceTypes, StatusTypes, AnswerTypes, LoopTypes, CacheOK, CountTypes
<1>7. HistoryMatches'
  <2> SUFFICES ASSUME NEW i \in IPs \ mirrored PROVE lastEvent'[i] \in {"none", status'[i]}
    BY DEF HistoryMatches
  <2>1. fast.prev[i] = status[i] /\ lastEvent[i] \in {"none", status[i]}
    BY DEF PrevIsStatus, HistoryMatches
  <2>2. CASE UNCHANGED <<status, lastEvent>>
    BY <2>1, <2>2
  <2>3. CASE i \notin Written
    BY <2>1, <2>3 DEF Changed
  <2>4. CASE i \in Changed /\ ~UNCHANGED <<status, lastEvent>>
    BY <2>4 DEF Changed
  <2>5. CASE i \in Written \ Changed /\ ~UNCHANGED <<status, lastEvent>>
    <3>1. fast.prev[i] \in {"none", Liveness(i)}
      BY <2>5 DEF Changed
    <3>2. lastEvent'[i] = lastEvent[i] /\ status'[i] = Liveness(i)
      BY <2>5
    <3> QED BY <2>1, <3>1, <3>2
  <2> QED BY <2>2, <2>3, <2>4, <2>5
<1>8. PrevIsStatus' /\ ApsCopied'
  BY <1>4 DEF PrevIsStatus, ApsCopied
<1> QED BY <1>6, <1>7, <1>8
-----------------------------------------------------------------------------
(* The slow loop, and the end of the process.                              *)
LEMMA SlowKeeps ==
  ASSUME InfraInvariant, Slow
  PROVE  InfraInvariant'
<1> USE DEF InfraInvariant, netVars, tableVars, ghostVars
<1>1. CASE SlowPolls
  <2>1. slow' \in SlowStates
    <3>1. \A i \in IPs : SnmpAnswer(i) \in {"ok", "fail"}
      BY DEF SnmpAnswer
    <3>2. slow' = [IdleSlow EXCEPT !.at = slow'.at, !.res = slow'.res] /\ slow'.at = "polled"
            /\ slow'.res \in [IPs -> {"out", "same", "ok", "fail"}]
      BY <1>1, <3>1, IdleStates DEF SlowPolls, SlowStates, Types, IdleSlow
    <3> QED BY <3>2, IdleStates DEF SlowStates, Types
  <2>2. Types'
    BY <1>1, <2>1 DEF SlowPolls, Types, NetworkTypes, DeviceTypes, StatusTypes, AnswerTypes, LoopTypes,
       CacheOK, CountTypes
  <2> QED BY <1>1, <2>2 DEF SlowPolls, PrevIsStatus, HistoryMatches, ApsCopied
<1>2. CASE SlowWrites
  <2>1. slow' \in SlowStates
    BY <1>2, IdleStates DEF SlowWrites, SlowStates, Types, AnswerTypes, LoopTypes
  <2>2. snmp' \in SnmpRows
    <3>1. snmp \in SnmpRows /\ Backoff \in Nat
      BY DEF Types, AnswerTypes
    <3>2. \A i \in IPs : SnmpAfter(i, slow.res[i]) \in [ok : BOOLEAN, fresh : BOOLEAN, fails : 0..Backoff]
      BY <3>1 DEF SnmpAfter, SnmpRows
    <3> QED BY <1>2, <3>1, <3>2 DEF SlowWrites, SnmpRows
  <2>3. happened' \in 0..MaxHappens
    BY <1>2, HappenedCounted DEF SlowWrites, Types, CountTypes
  <2>4. Types'
    BY <1>2, <2>1, <2>2, <2>3 DEF SlowWrites, Types, NetworkTypes, DeviceTypes, StatusTypes, AnswerTypes,
       LoopTypes, CacheOK, CountTypes
  <2> QED BY <1>2, <2>4 DEF SlowWrites, PrevIsStatus, HistoryMatches, ApsCopied
<1>3. CASE SlowRewrites
  <2>1. data' \in DataRows
    BY <1>3 DEF SlowRewrites, SlowStates, Types, AnswerTypes, LoopTypes, DataRows, Statuses
  <2>2. happened' \in 0..MaxHappens
    BY <1>3, HappenedCounted DEF SlowRewrites, Types, CountTypes
  <2>3. Types'
    BY <1>3, <2>1, <2>2, IdleStates DEF SlowRewrites, Types, NetworkTypes, DeviceTypes, StatusTypes,
       AnswerTypes, LoopTypes, CacheOK, CountTypes
  <2> QED BY <1>3, <2>3 DEF SlowRewrites, PrevIsStatus, HistoryMatches, ApsCopied
<1> QED BY <1>1, <1>2, <1>3 DEF Slow

LEMMA RestartKeeps ==
  ASSUME InfraInvariant, Restart
  PROVE  InfraInvariant'
<1> USE DEF InfraInvariant, Restart, netVars, tableVars, ghostVars
<1>1. fast' \in FastStates /\ slow' \in SlowStates /\ fast'.prev = status
  BY IdleStates DEF Types
<1>2. Types'
  BY <1>1, HappenedCounted DEF Types, NetworkTypes, DeviceTypes, StatusTypes, AnswerTypes, LoopTypes,
     CacheOK, CountTypes
<1>3. PrevIsStatus' /\ HistoryMatches' /\ ApsCopied'
  BY <1>1 DEF PrevIsStatus, HistoryMatches, ApsCopied
<1> QED BY <1>2, <1>3

LEMMA StutterKeeps ==
  ASSUME InfraInvariant, UNCHANGED vars
  PROVE  InfraInvariant'
BY DEF vars, netVars, tableVars, loopVars, ghostVars, InfraInvariant, Types, NetworkTypes, DeviceTypes,
   StatusTypes, AnswerTypes, LoopTypes, CacheOK, CountTypes, PrevIsStatus, HistoryMatches, ApsCopied

(* The invariant holds of every behaviour of the poller, with its panel,   *)
(* its faults and its restarts.                                            *)
THEOREM InfraInvariantCorrect == Spec => []InfraInvariant
<1>1. InfraInvariant /\ [Next]_vars => InfraInvariant'
  BY NetworkKeeps, PanelKeeps, CopiesKeep, ReadsKeep, MirrorsKeep, PingsKeep, PersistsKeep, SlowKeeps,
     RestartKeeps, StutterKeeps DEF Next, Fast
<1> QED BY InitInvariant, <1>1, PTL DEF Spec

(* The last event of a device tells its status, unless Guardian's mirror   *)
(* wrote it: the uptime the panel computes from the events is that of the  *)
(* statuses (_persist_poll_results of shomer_inframonitor_poller.py).      *)
THEOREM EventsMatchCorrect == Spec => []EventsMatch
<1>1. InfraInvariant => EventsMatch
  BY TypesGiveTypeOK DEF InfraInvariant, EventsMatch
<1> QED BY <1>1, InfraInvariantCorrect, PTL

(* Guardian's access points are shown while their set is remembered, but   *)
(* for those whose copy failed or that the panel changed                   *)
(* (_sync_guardian_aps of shomer_inframonitor_poller.py).                  *)
THEOREM ApsCopiedCorrect == Spec => []ApsCopied
<1>1. InfraInvariant => ApsCopied
  BY DEF InfraInvariant
<1> QED BY <1>1, InfraInvariantCorrect, PTL
=============================================================================
