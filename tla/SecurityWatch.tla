---------------------------- MODULE SecurityWatch ----------------------------
(***************************************************************************)
(* The watch over the host itself (security_watch.py): a loop that reads   *)
(* what was appended to auth.log since its last turn, counts the failed    *)
(* passwords of a sliding window and warns once per window of the clock;   *)
(* and warns of what /proc shows, copies of sensitive files and devices.   *)
(*                                                                         *)
(* A failure has the time of the turn that reads it; the log may be        *)
(* rotated between any two turns, and the new file may outgrow the old     *)
(* offset before the next one; a restart begins at the end of the log.     *)
(*                                                                         *)
(* Abstracted: every line of the log is a failed password (the logins at   *)
(* night are read in the same way, and judged by the hour of the turn);    *)
(* time is counted in turns of the loop; what a warning says.              *)
(***************************************************************************)
EXTENDS Naturals, FiniteSets, FiniteSetsExt

CONSTANTS
  BurstWindow,   \* BRUTE_FORCE_WINDOW_SEC, in turns
  BurstFailures, \* BRUTE_FORCE_THRESHOLD
  MaxLines,      \* bound: lines of a file
  Things,        \* copies under way and devices mounted
  Trusted        \* those of deploy.sh, and network mounts

ASSUME BurstAssumption == BurstWindow \in Nat \ {0} /\ MaxLines \in Nat

VARIABLES
  lines,       \* lines of auth.log
  offset,      \* _auth_log_offset
  started,     \* the offset was set, 180 s after the start
  failTimes,   \* _auth_fail_times: how many of each age
  clock,       \* turn of the clock within the window of the key
  keyed,       \* the key of this window is in _brute_warned_keys
  present,     \* what /proc shows
  warned,      \* _copy_warned_keys and _usb_warned
  rotated,     \* history: the file was rotated since the last turn
  happened     \* history: failures by age that no rotation or restart lost

logVars      == <<lines, offset, started>>
burstVars    == <<failTimes, clock, keyed>>
securityVars == <<logVars, burstVars, present, warned, rotated, happened>>

Ages     == 0..(BurstWindow - 1)
NoneFail == [a \in Ages |-> 0]
Total(f) == MapThenSumSet(LAMBDA a : f[a], Ages)

(* A turn later: what leaves the window goes, new failures have age 0.     *)
TurnLater(f, new) == [a \in Ages |-> IF a = 0 THEN new ELSE f[a - 1]]
-----------------------------------------------------------------------------
PasswordFails ==
  /\ lines < MaxLines /\ lines' = lines + 1
  /\ happened' = IF started THEN [happened EXCEPT ![0] = @ + 1] ELSE happened
  /\ UNCHANGED <<offset, started, burstVars, present, warned, rotated>>

LogRotates ==
  /\ lines > 0 /\ ~rotated /\ rotated' = TRUE /\ lines' = 0
  /\ happened' = [happened EXCEPT ![0] = 0]
  /\ UNCHANGED <<offset, started, burstVars, present, warned>>

ThingChanges ==
  /\ \E t \in Things : present' = IF t \in present THEN present \ {t} ELSE present \cup {t}
  /\ UNCHANGED <<logVars, burstVars, warned, rotated, happened>>

(* _init_auth_log_offset.                                                  *)
StartsAtEnd ==
  /\ ~started /\ started' = TRUE /\ offset' = lines /\ rotated' = FALSE
  /\ UNCHANGED <<lines, burstVars, present, warned, happened>>

(* Mutant of ReadFrom: a file that shrank is not noticed.                  *)
ReadFrom_Offset == offset

(* _read_new_auth_lines: a file shorter than the offset was rotated.       *)
ReadFrom == IF lines < offset THEN 0 ELSE offset

NewLines == IF lines < ReadFrom THEN 0 ELSE lines - ReadFrom

(* The new file is as long as the old one was: its first lines are skipped.*)
Outgrown == rotated /\ lines >= offset

(* _check_brute_force, which is not called when there is no new line: the  *)
(* times age, and are pruned at the next call.                             *)
Counted == TurnLater(failTimes, NewLines)

WarnsBurst(key) == NewLines > 0 /\ Total(Counted) >= BurstFailures /\ ~key

(* The key of this turn: a new window of the clock has none.               *)
KeyHeld == keyed /\ clock # BurstWindow - 1

Turn ==
  /\ started
  /\ offset' = lines /\ failTimes' = Counted
  /\ clock' = (clock + 1) % BurstWindow /\ keyed' = (KeyHeld \/ WarnsBurst(KeyHeld))
  /\ warned' = warned \cup (present \ Trusted)      \* _check_sensitive_copy, _check_usb
  /\ rotated' = FALSE
  /\ happened' = TurnLater([happened EXCEPT ![0] = IF Outgrown THEN NewLines ELSE @], 0)
  /\ UNCHANGED <<lines, started, present>>

WatchRestarts ==
  /\ started' = FALSE /\ failTimes' = NoneFail /\ happened' = NoneFail
  /\ keyed' = FALSE /\ warned' = {} /\ rotated' = FALSE
  /\ UNCHANGED <<lines, offset, clock, present>>
-----------------------------------------------------------------------------
SecurityInit ==
  /\ lines = 0 /\ offset = 0 /\ started = FALSE
  /\ failTimes = NoneFail /\ clock = 0 /\ keyed = FALSE
  /\ present = {} /\ warned = {} /\ rotated = FALSE /\ happened = NoneFail

SecurityNext ==
  \/ PasswordFails \/ LogRotates \/ ThingChanges
  \/ StartsAtEnd \/ Turn \/ WatchRestarts

SecuritySpec == SecurityInit /\ [][SecurityNext]_securityVars
-----------------------------------------------------------------------------
SecurityTypeOK ==
  /\ lines \in 0..MaxLines /\ offset \in 0..MaxLines
  /\ failTimes \in [Ages -> 0..MaxLines] /\ happened \in [Ages -> 0..MaxLines]
  /\ clock \in Ages /\ {started, keyed, rotated} \subseteq BOOLEAN
  /\ present \subseteq Things /\ warned \subseteq Things \ Trusted

(* A turn warns of a burst of failed passwords exactly when a failure came *)
(* since the last turn, as many as the threshold came within the window,   *)
(* and none was warned of in this window of the clock                      *)
(* (BRUTE_FORCE_THRESHOLD, security_watch.py:39).  Failures that fell in a *)
(* rotation, a restart or the wait after it do not count.                  *)
BurstWarned ==
  [][clock' # clock /\ ~KeyHeld /\ ~Outgrown =>
       (keyed' <=> happened[0] > 0 /\ Total(happened) >= BurstFailures)]_securityVars
=============================================================================
