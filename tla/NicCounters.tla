------------------------------ MODULE NicCounters ------------------------------
(***************************************************************************)
(* What the daily summary says of the packets the network card dropped     *)
(* (shomer_host_health.py): samples of a counter of the kernel, at most    *)
(* one an interval and one at each start of the service, and the           *)
(* difference between the first and the last of a window.                  *)
(*                                                                         *)
(* The counter begins again at each boot of the host.  Abstracted: three   *)
(* counters that are treated alike are one; time passes in intervals;      *)
(* samples older than the window, which nothing reads.                     *)
(***************************************************************************)
EXTENDS Naturals, Sequences

CONSTANTS
  NicWindow,   \* hours of the summary, in intervals
  MaxDrops,    \* bound: packets dropped in a behaviour
  MaxSamples   \* bound: samples of a window

ASSUME NicAssumption == NicWindow \in Nat \ {0} /\ {MaxDrops, MaxSamples} \subseteq Nat

VARIABLES
  counter,     \* rx_dropped of the kernel
  drops,       \* history: packets dropped since the beginning
  samples,     \* host_nic_samples, oldest first
  sampledNow   \* _last_nic_sample_ts lies within this interval

nicVars == <<counter, drops, samples, sampledNow>>

NoDelta == MaxDrops + 1
-----------------------------------------------------------------------------
PacketDropped ==
  /\ drops < MaxDrops
  /\ counter' = counter + 1 /\ drops' = drops + 1
  /\ UNCHANGED <<samples, sampledNow>>

Sampled == samples' = Append(samples, [value |-> counter, drops |-> drops, age |-> 0])

(* maybe_sample_nic_counters; the counter may not be readable, and then    *)
(* the interval goes without a sample (persist_nic_sample).                *)
SampleNic ==
  /\ ~sampledNow /\ sampledNow' = TRUE /\ Len(samples) < MaxSamples
  /\ Sampled \/ UNCHANGED samples
  /\ UNCHANGED <<counter, drops>>

(* The service starts again, with force=True, or the host does.            *)
ServiceRestarts ==
  /\ Len(samples) < MaxSamples /\ Sampled /\ sampledNow' = TRUE
  /\ UNCHANGED <<counter, drops>>

HostReboots ==
  /\ counter' = 0 /\ sampledNow' = FALSE
  /\ UNCHANGED <<drops, samples>>

(* The first k samples leave the window.                                   *)
IntervalEnds ==
  /\ sampledNow' = FALSE
  /\ \E k \in 0 .. Len(samples) :
       /\ \A i \in 1 .. Len(samples) : i > k <=> samples[i].age + 1 < NicWindow
       /\ samples' = [i \in 1 .. Len(samples) - k |-> [samples[i + k] EXCEPT !.age = @ + 1]]
  /\ UNCHANGED <<counter, drops>>

(* _nic_delta_in_window.                                                   *)
Delta ==
  LET first == samples[1].value  last == samples[Len(samples)].value IN
  IF Len(samples) < 2 THEN NoDelta ELSE IF last > first THEN last - first ELSE 0
-----------------------------------------------------------------------------
NicInit == counter = 0 /\ drops = 0 /\ samples = <<>> /\ sampledNow = FALSE

NicNext == PacketDropped \/ SampleNic \/ ServiceRestarts \/ HostReboots \/ IntervalEnds

NicSpec == NicInit /\ [][NicNext]_nicVars
-----------------------------------------------------------------------------
NicTypeOK ==
  /\ counter \in 0..drops /\ drops \in 0..MaxDrops /\ sampledNow \in BOOLEAN
  /\ samples \in Seq([value: 0..MaxDrops, drops: 0..MaxDrops, age: 0..(NicWindow - 1)])

(* "+{delta} en 24h" (shomer_host_health.py:360) is never more than what   *)
(* was dropped between the two samples, reboots of the host or not.        *)
DeltaNeverOverstates ==
  Delta # NoDelta => Delta <= samples[Len(samples)].drops - samples[1].drops
=============================================================================
