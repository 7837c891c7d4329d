-------------------------- MODULE MCHunterAutoblock --------------------------
(***************************************************************************)
(* Two instances of HunterAutoblock checked side by side: the cfg gives    *)
(* the one whose poller forgets, Counted is the one where a poller and a   *)
(* panel count the alerts of one source.  An initial state belongs to one  *)
(* of them, and so do all the states that follow.                          *)
(***************************************************************************)
EXTENDS HunterAutoblock

VARIABLE instance

Counted ==
  INSTANCE HunterAutoblock WITH
    Sources <- Sources \ (Critical \cup Ignored), Critical <- {}, Ignored <- {},
    Panels <- {"tab"}, PanelLimit <- 3, Window <- 2, DedupTtl <- 2,
    Happens <- {"restart", "reload", "block_fails", "operator"}

mcVars == <<vars, instance>>

MCInit ==
  \/ instance = "forgets" /\ Init
  \/ instance = "counted" /\ Counted!Init

(* Bound: three alerts for Counted.                                        *)
MCNext ==
  /\ UNCHANGED instance
  /\ \/ instance = "forgets" /\ Next
     \/ instance = "counted" /\ Counted!Next /\ Len(log') <= 3

Forgets(A) == instance = "forgets" /\ A /\ UNCHANGED instance

(* The fairness of FairSpec.                                               *)
MCSpec ==
  MCInit /\ [][MCNext]_mcVars /\ WF_mcVars(Forgets(PollerStep)) /\ WF_mcVars(Forgets(Answer))
=============================================================================
