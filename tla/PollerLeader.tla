---------------------------- MODULE PollerLeader ----------------------------
(***************************************************************************)
(* Which worker of a service runs its schedulers (shomer_poller_leader.py, *)
(* and the lifespan of main.py that calls it).                             *)
(*                                                                         *)
(* Every worker asks once, as it starts, for an exclusive lock on a file.  *)
(* The one that gets it runs the schedulers and keeps the lock for as long *)
(* as its process lives; a worker that finds it held runs none.  Any other *)
(* error makes the worker run the schedulers without the lock.             *)
(***************************************************************************)
EXTENDS Naturals, FiniteSets

CONSTANTS
  Workers,     \* the workers of the service
  NoWorker     \* the lock is free

ASSUME WorkerAssumption == NoWorker \notin Workers

VARIABLES
  up,          \* workers that run
  lock,        \* holder of the lock on the file
  leads,       \* workers that run the schedulers
  lockErrors   \* workers that run them because the lock could not be tried

leaderVars == <<up, lock, leads, lockErrors>>

LeaderInit ==
  /\ up = {} /\ lock = NoWorker /\ leads = {} /\ lockErrors = {}

(* Mutant of Start: the lock is not exclusive.                             *)
Start_Shared(w) ==
  /\ w \notin up /\ up' = up \cup {w}
  /\ lock' = w /\ leads' = leads \cup {w}
  /\ UNCHANGED lockErrors

(* A worker starts: it takes the lock, or finds it held.                   *)
Start(w) ==
  /\ w \notin up /\ up' = up \cup {w}
  /\ IF lock = NoWorker
       THEN lock' = w /\ leads' = leads \cup {w}
       ELSE UNCHANGED <<lock, leads>>
  /\ UNCHANGED lockErrors

(* The lock file cannot be opened or locked for another reason.            *)
StartUnlocked(w) ==
  /\ w \notin up /\ up' = up \cup {w}
  /\ leads' = leads \cup {w} /\ lockErrors' = lockErrors \cup {w}
  /\ UNCHANGED lock

(* The process ends: the kernel closes its files and the lock with them.   *)
Stop(w) ==
  /\ w \in up /\ up' = up \ {w}
  /\ lock' = IF lock = w THEN NoWorker ELSE lock
  /\ leads' = leads \ {w} /\ lockErrors' = lockErrors \ {w}
-----------------------------------------------------------------------------
LeaderTypeOK ==
  /\ up \subseteq Workers /\ lock \in Workers \cup {NoWorker}
  /\ leads \subseteq up /\ lockErrors \subseteq leads

(* "Un solo worker uvicorn ejecuta pollers/schedulers": two workers that   *)
(* run them mean that one of them could not try the lock.                  *)
OneScheduler ==
  \A v, w \in leads : v = w \/ v \in lockErrors \/ w \in lockErrors
=============================================================================
