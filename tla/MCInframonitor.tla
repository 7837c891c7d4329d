--------------------------- MODULE MCInframonitor ---------------------------
(* Inframonitor on a small network.                                        *)
EXTENDS Inframonitor

(* HistoryMatches, and the types.                                          *)
EventsMatch == TypeOK /\ HistoryMatches
=============================================================================
