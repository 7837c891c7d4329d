----------------------------- MODULE NocProblems -----------------------------
(***************************************************************************)
(* The open problems of the NOC display and their acknowledgements         *)
(* (shomer_noc.py).  A problem has no row of its own: it is what Guardian, *)
(* the Inframonitor or the Pulse say now, and its id is its source and its *)
(* address.  An acknowledgement is a row under that id; the listing of any *)
(* display deletes those of problems it did not find.                      *)
(*                                                                         *)
(* Two displays may list at once, in two workers: each reads the rows,     *)
(* asks the sources and deletes.  A source that raises lists nothing, and  *)
(* its acknowledgements go as if its problems were over.                   *)
(*                                                                         *)
(* Abstracted: the three sources are read in one step; what is shown of a  *)
(* problem.  Incidents, which keep their acknowledgement in their own row, *)
(* are those of HunterBlocking.                                            *)
(***************************************************************************)
EXTENDS Naturals

CONSTANTS
  Aps,          \* devices Guardian polls, mirrored in the Inframonitor
  Others,       \* the other devices of the Inframonitor
  Displays,     \* screens that show the NOC
  MaxNocFaults  \* bound: sources and listings that raise

ASSUME NocAssumption == MaxNocFaults \in Nat

VARIABLES
  down,     \* the ids of what the sources say is not well
  acks,     \* noc_problem_acks
  display,  \* of each display: its listing under way
  nocFaults

nocVars == <<down, acks, display, nocFaults>>

ProblemIds == ({"g", "i"} \X Aps) \cup ({"i", "p"} \X Others)
NoListing  == [at |-> "idle", rows |-> {}]   \* rows: those it read; those it will delete
-----------------------------------------------------------------------------
(* An AP is listed once; what degrades is listed while it is still online. *)
GuardianProblems(d) == {x \in d : x[1] = "g"}
InfraProblems(d)    == {x \in d : x[1] = "i" /\ <<"g", x[2]>> \notin d}
PulseProblems(d)    == {x \in d : x[1] = "p" /\ <<"i", x[2]>> \notin d}
Listed(d)           == GuardianProblems(d) \cup InfraProblems(d) \cup PulseProblems(d)

StatusMoves ==
  /\ \E x \in ProblemIds : down' = IF x \in down THEN down \ {x} ELSE down \cup {x}
  /\ UNCHANGED <<acks, display, nocFaults>>

(* noc_data, which every display asks for again and again: _load_acks, the *)
(* sources, the deletions.                                                 *)
LoadAcks(n) ==
  /\ display[n].at = "idle"
  /\ display' = [display EXCEPT ![n].at = "loaded", ![n].rows = acks]
  /\ UNCHANGED <<down, acks, nocFaults>>

(* Mutant of Over: what is not well now is not over.                       *)
Over_Down(n, found) == display[n].rows \cap down

(* The acknowledgements of problems that were not found.                   *)
Over(n, found) == display[n].rows \ found

Asked(n, found) == display' = [display EXCEPT ![n] = [at |-> "asked", rows |-> Over(n, found)]]
AskSources(n) ==
  /\ display[n].at = "loaded" /\ Asked(n, Listed(down))
  /\ UNCHANGED <<down, acks, nocFaults>>
SourceRaises(n) ==
  /\ display[n].at = "loaded" /\ nocFaults < MaxNocFaults /\ nocFaults' = nocFaults + 1
  /\ \E silent \in {"g", "i", "p"} : Asked(n, {x \in Listed(down) : x[1] # silent})
  /\ UNCHANGED <<down, acks>>
CleanAcks(n) ==
  /\ display[n].at = "asked" /\ acks' = acks \ display[n].rows
  /\ display' = [display EXCEPT ![n] = NoListing]
  /\ UNCHANGED <<down, nocFaults>>
(* The listing raises as a whole: the display shows no problem.            *)
ListingRaises(n) ==
  /\ display[n].at # "idle" /\ nocFaults < MaxNocFaults /\ nocFaults' = nocFaults + 1
  /\ display' = [display EXCEPT ![n] = NoListing]
  /\ UNCHANGED <<down, acks>>

(* noc_ack_problem: the problem may be over by then, or never have been.   *)
AckProblem ==
  /\ \E x \in ProblemIds \ acks : acks' = acks \cup {x}
  /\ UNCHANGED <<down, display, nocFaults>>

Display(n) == LoadAcks(n) \/ AskSources(n) \/ CleanAcks(n)
-----------------------------------------------------------------------------
NocInit ==
  /\ down = {} /\ acks = {} /\ display = [n \in Displays |-> NoListing] /\ nocFaults = 0

NocNext ==
  \/ StatusMoves \/ AckProblem
  \/ \E n \in Displays : Display(n) \/ SourceRaises(n) \/ ListingRaises(n)

NocSpec == NocInit /\ [][NocNext]_nocVars /\ \A n \in Displays : WF_nocVars(Display(n))
-----------------------------------------------------------------------------
NocTypeOK ==
  /\ down \subseteq ProblemIds /\ acks \subseteq ProblemIds /\ nocFaults \in 0..MaxNocFaults
  /\ display \in [Displays -> [at : {"idle", "loaded", "asked"}, rows : SUBSET ProblemIds]]

(* An acknowledgement does not outlive its problem for ever and hide the   *)
(* next one of that address ("Limpiar ACKs de problemas que ya no existen",*)
(* shomer_noc.py:637), while displays go on listing.                       *)
AckExpires == \A x \in ProblemIds : []<>(x \in acks => x \in Listed(down))
=============================================================================
