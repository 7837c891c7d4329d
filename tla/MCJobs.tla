-------------------------------- MODULE MCJobs --------------------------------
(***************************************************************************)
(* The jobs that an hour, an operator or a poller starts, and that end:    *)
(* backups and restore drills (two workers, a device over SSH and one over *)
(* SMB), the processing of a host, the audit of the network, the probe and *)
(* the reboot of a node, the calls of the panel's users, the blocks that   *)
(* the policy lets through.  They share no state, so an initial state      *)
(* belongs to one of them, its name in job, and so do all the states that  *)
(* follow.                                                                 *)
(***************************************************************************)
EXTENDS ProtectorDrill, HostProcessing, NetworkAudit, NodeProbe, NodeReboot,
        PanelUsers, AutoblockPolicy, TLC

VARIABLE job

Symmetry == Permutations(Slots) \cup Permutations(DrillSlots)

jobVars == <<job, vars, processVars, auditVars, probeVars, rebootVars, panelVars, policyVars>>

(* A step of one of them leaves the others alone.                          *)
Backup(A)  == /\ job = "backup" /\ A /\ UNCHANGED job
              /\ UNCHANGED <<processVars, auditVars, probeVars, rebootVars, panelVars, policyVars>>
Process(A) == /\ job = "process" /\ A /\ UNCHANGED job
              /\ UNCHANGED <<vars, auditVars, probeVars, rebootVars, panelVars, policyVars>>
Audit(A)   == /\ job = "audit" /\ A /\ UNCHANGED job
              /\ UNCHANGED <<vars, processVars, probeVars, rebootVars, panelVars, policyVars>>
Probe(A)   == /\ job = "probe" /\ A /\ UNCHANGED job
              /\ UNCHANGED <<vars, processVars, auditVars, rebootVars, panelVars, policyVars>>
Reboot(A)  == /\ job = "reboot" /\ A /\ UNCHANGED job
              /\ UNCHANGED <<vars, processVars, auditVars, probeVars, panelVars, policyVars>>
Panel(A)   == /\ job = "panel" /\ A /\ UNCHANGED job
              /\ UNCHANGED <<vars, processVars, auditVars, probeVars, rebootVars, policyVars>>
Policy(A)  == /\ job = "policy" /\ A /\ UNCHANGED job
              /\ UNCHANGED <<vars, processVars, auditVars, probeVars, rebootVars, panelVars>>

JobsInit ==
  /\ job \in {"backup", "process", "audit", "probe", "reboot", "panel", "policy"}
  /\ Init /\ ProcessInit /\ AuditInit /\ ProbeInit /\ RebootInit /\ PanelInit
  /\ PolicyInit
  /\ job = "backup" => toCloud = Devices
  /\ job # "backup" => toCloud = {} /\ rows = {} /\ cloudPath
  /\ job # "audit" => exposed = {}
  /\ job # "panel" => ~legacy
  /\ job # "policy" => ~policy.enabled /\ policy.minSeverity = 1 /\ ~policy.onlyExternal
                        /\ policy.exceptions = {}

JobsNext ==
  \/ Backup(Next) \/ Process(ProcessNext) \/ Audit(AuditNext) \/ Probe(ProbeNext)
  \/ Reboot(RebootNext) \/ Panel(PanelNext) \/ Policy(PolicyNext)

JobsSpec == JobsInit /\ [][JobsNext]_jobVars
-----------------------------------------------------------------------------
JobsTypeOK ==
  /\ TypeOK /\ ProcessTypeOK /\ AuditTypeOK /\ ProbeTypeOK /\ RebootTypeOK /\ PanelTypeOK
  /\ PolicyTypeOK

(* A backup reported ok is whole, and what is due once is done at most     *)
(* once: the copy of a device in a day, the drill in a month               *)
(* (backups.py 1004 and 1177, restore_drill.py 20).                        *)
BackupsSound == OkIsWhole /\ OnceADay /\ OneMonthlyDrill

(* What Shomer does by itself is earned: the label a reboot is decided on, *)
(* and what is told of it; a block that no person asked for.               *)
ActsEarned == VerdictEarned /\ EveryWayTried /\ BlocksAllowed
=============================================================================
