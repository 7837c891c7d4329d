------------------------------- MODULE HotelWan -------------------------------
(***************************************************************************)
(* The internet of the hotel, measured from its router                     *)
(* (shomer_wan_hotel.py).  Every request of the panel and of the hourly    *)
(* monitor takes a reading: it asks the router over SSH, stores the use it *)
(* measured and compares it with the one stored before, then registers the *)
(* reading unless one was registered a short while ago.                    *)
(*                                                                         *)
(* Requests interleave where one waits for the router, two workers share   *)
(* the database, and the use that one request stores is what the next one, *)
(* whoever asked for it, compares with.                                    *)
(*                                                                         *)
(* Abstracted: the use is high (more than 20 sessions) or low (less than a *)
(* fifth of that); sessions and guests are one use; loss, interface and    *)
(* address are one state of the line; INTERVALO_MINIMO_SEG has passed or   *)
(* not; the other columns of a registered reading.                         *)
(***************************************************************************)
EXTENDS Naturals

CONSTANTS
  Requests,    \* requests that may overlap
  NoUse,       \* no use stored yet
  MaxFailures  \* bound: faults of a behaviour

ASSUME FailuresAssumption == MaxFailures \in Nat

VARIABLES
  traffic,     \* use of the guests
  reading,     \* what each request knows
  storedUse,   \* wan_uso_historial
  registered,  \* the last reading in wan_hotel_lecturas, was it ok
  recent,      \* it is younger than INTERVALO_MINIMO_SEG
  fall,        \* history: the stored use is high, the traffic fell, no one was told
  cutShort,    \* history: a reading was lost after it stored its use
  failures     \* faults so far

hotelVars == <<traffic, reading, storedUse, registered, recent, fall, cutShort, failures>>

Uses      == {"high", "low"}
Problems  == {"line", "collapse"}
NoReading == [step |-> "none", use |-> NoUse, problems |-> {}]

FailsOnce == failures < MaxFailures /\ failures' = failures + 1
-----------------------------------------------------------------------------
TrafficChanges ==
  /\ traffic' \in Uses \ {traffic}
  /\ fall' = (traffic' = "low" /\ storedUse = "high")
  /\ UNCHANGED <<reading, storedUse, registered, recent, cutShort, failures>>

IntervalPasses ==
  /\ recent /\ recent' = FALSE
  /\ UNCHANGED <<traffic, reading, storedUse, registered, fall, cutShort, failures>>

(* medir_wan_hotel asks the router, whose line may have a problem.  A      *)
(* router that cannot be asked ends the request with nothing stored.       *)
AskRouter(q) == \E found \in SUBSET {"line"} :
  /\ reading[q].step = "none"
  /\ reading' = [reading EXCEPT ![q] =
       [step |-> "measured", use |-> traffic, problems |-> found]]
  /\ UNCHANGED <<traffic, storedUse, registered, recent, fall, cutShort, failures>>

(* Mutant of Before: the use of the reading is stored first.               *)
Before_Stored(q) == reading[q].use

(* The use the reading is compared with.                                   *)
Before(q) == storedUse

Compared(q) ==
  IF Before(q) = "high" /\ reading[q].use = "low" THEN {"collapse"} ELSE {}

(* _guardar_uso; when the database fails there is nothing to compare with. *)
StoreUse(q) ==
  /\ reading[q].step = "measured"
  /\ \/ /\ storedUse' = reading[q].use
        /\ reading' = [reading EXCEPT ![q].step = "stored", ![q].problems = @ \cup Compared(q)]
        /\ UNCHANGED failures
     \/ /\ FailsOnce /\ UNCHANGED storedUse
        /\ reading' = [reading EXCEPT ![q].step = "stored"]
  /\ UNCHANGED <<traffic, registered, recent, fall, cutShort>>

(* Hunter may block a destination of the test (blocked_ips).  The reading  *)
(* is registered (_registrar_lectura) and answered.                        *)
AnswerReading(q) == \E blocked \in SUBSET {"essential"} :
  LET found == reading[q].problems \cup blocked IN
  /\ reading[q].step = "stored"
  /\ \/ recent /\ UNCHANGED <<registered, recent, failures>>
     \/ ~recent /\ registered' = (found = {}) /\ recent' = TRUE /\ UNCHANGED failures
     \/ ~recent /\ FailsOnce /\ UNCHANGED <<registered, recent>>
  /\ fall' = (fall /\ "collapse" \notin found)
  /\ reading' = [reading EXCEPT ![q] = NoReading]
  /\ UNCHANGED <<traffic, storedUse, cutShort>>

(* The worker stops, or the caller goes away, before the answer.           *)
ReadingLost(q) ==
  /\ reading[q].step # "none" /\ FailsOnce
  /\ cutShort' = (cutShort \/ reading[q].step = "stored")
  /\ reading' = [reading EXCEPT ![q] = NoReading]
  /\ UNCHANGED <<traffic, storedUse, registered, recent, fall>>
-----------------------------------------------------------------------------
HotelInit ==
  /\ traffic = "high"
  /\ reading = [q \in Requests |-> NoReading]
  /\ storedUse = NoUse /\ registered = FALSE /\ recent = FALSE
  /\ fall = FALSE /\ cutShort = FALSE /\ failures = 0

TakeReading(q) == AskRouter(q) \/ StoreUse(q) \/ AnswerReading(q)

HotelNext ==
  \/ TrafficChanges \/ IntervalPasses
  \/ \E q \in Requests : TakeReading(q) \/ ReadingLost(q)

HotelSpec == HotelInit /\ [][HotelNext]_hotelVars
-----------------------------------------------------------------------------
HotelTypeOK ==
  /\ traffic \in Uses /\ {registered, recent, fall, cutShort} \subseteq BOOLEAN
  /\ reading \in [Requests -> [step: {"none", "measured", "stored"},
                               use: Uses \cup {NoUse}, problems: SUBSET Problems]]
  /\ storedUse \in Uses \cup {NoUse}
  /\ failures \in 0..MaxFailures

(* A collapse of the guests' traffic ("un desplome acá es la señal más     *)
(* honesta", shomer_wan_hotel.py:15) is told by some reading, although     *)
(* every reading replaces what the next one compares with, unless a        *)
(* reading was lost between the store and its answer.                      *)
CollapseTold == fall ~> (~fall \/ cutShort)
=============================================================================
