--------------------------- MODULE MCStatusOutages ---------------------------
(* StatusOutages for the model checker.                                    *)
EXTENDS StatusOutages

(* SentOnce, and the types.                                                *)
ReportsOnce == []TypeOK /\ SentOnce
=============================================================================
