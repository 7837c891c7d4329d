-------------------------------- MODULE MCHost --------------------------------
(***************************************************************************)
(* The loops that run beside the pollers, checked side by side: they share *)
(* no state, so an initial state belongs to one of them, its name in       *)
(* component, and so do all the states that follow.                        *)
(***************************************************************************)
EXTENDS TelegramQueue, ServerHealth, HealthReports, HotelWan, SecurityWatch,
        NicCounters, MacReconcile, NocProblems

VARIABLE component

Home == [r \in Rows |-> r]

hostVars ==
  <<component, vars, healthVars, reportVars, hotelVars, securityVars, nicVars, macVars, nocVars>>

(* A step of one of them leaves the others alone.                          *)
Queue(A)    == /\ component = "queue" /\ A /\ UNCHANGED component
               /\ UNCHANGED <<healthVars, reportVars, hotelVars, securityVars, nicVars, macVars, nocVars>>
Health(A)   == /\ component = "health" /\ A /\ UNCHANGED component
               /\ UNCHANGED <<vars, reportVars, hotelVars, securityVars, nicVars, macVars, nocVars>>
Reports(A)  == /\ component = "reports" /\ A /\ UNCHANGED component
               /\ UNCHANGED <<vars, healthVars, hotelVars, securityVars, nicVars, macVars, nocVars>>
Hotel(A)    == /\ component = "hotel" /\ A /\ UNCHANGED component
               /\ UNCHANGED <<vars, healthVars, reportVars, securityVars, nicVars, macVars, nocVars>>
Security(A) == /\ component = "security" /\ A /\ UNCHANGED component
               /\ UNCHANGED <<vars, healthVars, reportVars, hotelVars, nicVars, macVars, nocVars>>
Nic(A)      == /\ component = "nic" /\ A /\ UNCHANGED component
               /\ UNCHANGED <<vars, healthVars, reportVars, hotelVars, securityVars, macVars, nocVars>>
Mac(A)      == /\ component = "mac" /\ A /\ UNCHANGED component
               /\ UNCHANGED <<vars, healthVars, reportVars, hotelVars, securityVars, nicVars, nocVars>>
Noc(A)      == /\ component = "noc" /\ A /\ UNCHANGED component
               /\ UNCHANGED <<vars, healthVars, reportVars, hotelVars, securityVars, nicVars, macVars>>

HostInit ==
  /\ component \in {"queue", "health", "reports", "hotel", "security", "nic", "mac", "noc"}
  /\ Init /\ HealthInit /\ ReportsInit /\ HotelInit /\ SecurityInit /\ NicInit /\ MacInit
  /\ NocInit

HostNext ==
  \/ Queue(Next) \/ Health(HealthNext) \/ Reports(ReportsNext) \/ Hotel(HotelNext)
  \/ Security(SecurityNext) \/ Nic(NicNext) \/ Mac(MacNext) \/ Noc(NocNext)

(* The fairness of FairSpec for the queue; the other loops come round, and *)
(* what each has begun goes on; the hourly monitor asks for its reading.   *)
HostFairness ==
  /\ \A n \in Notices : WF_hostVars(Queue(MinutePasses(n)))
  /\ \A w \in Workers : WF_hostVars(Queue(WorkerStarts(w))) /\ WF_hostVars(Queue(Relay(w)))
  /\ WF_hostVars(Health(HealthTick))
  /\ WF_hostVars(Reports(HeartbeatTick)) /\ WF_hostVars(Reports(HourPasses))
  /\ \A q \in Requests : WF_hostVars(Hotel(TakeReading(q)))
  /\ WF_hostVars(Mac(Pass))
  /\ \A g \in GuardianRows : WF_hostVars(Mac(GuardianPolls(g)))
  /\ \A i \in InfraRows : WF_hostVars(Mac(InfraPolls(i)))
  /\ \A n \in Displays : WF_hostVars(Noc(Display(n)))

HostSpec == HostInit /\ [][HostNext]_hostVars /\ HostFairness
-----------------------------------------------------------------------------
HostTypeOK ==
  /\ TypeOK /\ HealthTypeOK /\ ReportsTypeOK /\ HotelTypeOK /\ SecurityTypeOK
  /\ NicTypeOK /\ MacTypeOK /\ NocTypeOK

(* The types; one worker leads, a row of the queue tells the truth, a      *)
(* delta of lost packets is never more than what was lost, and what an     *)
(* hour of restarts can count is known.                                    *)
LoopsSound ==
  HostTypeOK /\ OneScheduler /\ MarksAgree /\ DeltaNeverOverstates /\ RestartsUntold

(* An outage of the internet is announced when it is one, and only then.   *)
WanNotices == WanNoticesEarned /\ WanOutageAnnounced

(* HeartbeatKept, of the loop that reports.                                *)
HeartbeatsKept == component = "reports" => HeartbeatKept
=============================================================================
