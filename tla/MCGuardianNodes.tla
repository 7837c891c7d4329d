--------------------------- MODULE MCGuardianNodes ---------------------------
(***************************************************************************)
(* GuardianNodes for TLC.  The claim below is what the documents of the    *)
(* repository say and the code does not do.                                *)
(***************************************************************************)
EXTENDS GuardianNodes

(* reboot_node's docstring: the manual reboot stamps last_reboot so that   *)
(* the poller respects the cooldown and fires no redundant AUTO-REBOOT on  *)
(* an AP that is still booting.  The poller compares the snapshot.         *)
AutoRebootRespectsManual ==
  [][\A n \in Nodes : StartReboot(n) => redis[n].lastReboot >= Cooldown]_vars
=============================================================================
