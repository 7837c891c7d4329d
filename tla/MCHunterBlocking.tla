-------------------------- MODULE MCHunterBlocking --------------------------
(* HunterBlocking for the model checker.                                   *)
EXTENDS HunterBlocking, TLC

(* Addresses and requests are interchangeable.                             *)
Symmetry == Permutations(IPs) \cup Permutations(Requests)
=============================================================================
