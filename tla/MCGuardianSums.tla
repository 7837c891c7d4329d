---------------------------- MODULE MCGuardianSums ----------------------------
(***************************************************************************)
(* Instances of GuardianNodes checked side by side: the one the cfg gives, *)
(* and of the other two those it names in Instances: Copies, whose three   *)
(* copies of a status are in question, and Live, whose cycles must get     *)
(* somewhere.  An initial state belongs to one of them, and so do all the  *)
(* states that follow.                                                     *)
(***************************************************************************)
EXTENDS GuardianNodes

CONSTANT Instances

VARIABLE instance

Copies ==
  INSTANCE GuardianNodes WITH
    Routers <- {}, SnmpNodes <- Nodes, PreventiveTicks <- 0,
    Calls <- {"heartbeat", "reset"}, Faults <- {"sqlite"},
    Expiring <- {"offline_streak", "degraded_streak"}

Live ==
  INSTANCE GuardianNodes WITH
    Threshold <- 2, Calls <- {"devices"}, Faults <- {"mirror", "all_ips_read"}

MCInit ==
  /\ instance \in Instances
  /\ \/ instance = "given" /\ Init
     \/ instance = "copies" /\ Copies!Init
     \/ instance = "live" /\ Live!Init

MCNext ==
  /\ UNCHANGED instance
  /\ \/ instance = "given" /\ Next
     \/ instance = "copies" /\ Copies!Next
     \/ instance = "live" /\ Live!Next

mcVars == <<vars, instance>>

LiveStep(A) == instance = "live" /\ A /\ UNCHANGED instance

(* The fairness of Live!FairSpec.                                          *)
MCSpec ==
  /\ MCInit /\ [][MCNext]_mcVars
  /\ WF_mcVars(LiveStep(Live!CycleStep)) /\ WF_mcVars(LiveStep(Live!Tick))

(* Between cycles the panel's copy of a status and the last event of the   *)
(* history say what Redis says, when the cycles are cut by a database that *)
(* fails before the commit, by heartbeats, resets and expiring streaks:    *)
(* the four places a tick writes a status in (shomer_guardian_nodes.py     *)
(* 716) each have a rule of their own for the states not yet confirmed.    *)
CopiesAgree == instance = "copies" => Copies!PanelAgrees /\ Copies!HistoryAgrees

(* The liveness of GuardianNodes, of the instance that is fair: a node     *)
(* that stays offline is rebooted again and again, one that stays online   *)
(* ends up so with clean counters, one that stays degraded is escalated    *)
(* and left, a deleted node's status goes (shomer_guardian_nodes.py 646,   *)
(* 716, 797; shomer_guardian_devices.py 326).                              *)
LiveFailsafeFires       == instance = "live" => Live!FailsafeFires
LiveRecoveryReached     == instance = "live" => Live!RecoveryReached
LivePreventiveEnds      == instance = "live" => Live!PreventiveEnds
LiveOrphanStatusCleared == instance = "live" => Live!OrphanStatusCleared
=============================================================================
