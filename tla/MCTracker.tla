------------------------------ MODULE MCTracker ------------------------------
(* TrackerInventory for the model checker.                                 *)
EXTENDS TrackerInventory

(* ScansSpareRows, and the types.                                          *)
RowsSpared == []TypeOK /\ ScansSpareRows
=============================================================================
