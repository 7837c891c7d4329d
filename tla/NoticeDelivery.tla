--------------------------- MODULE NoticeDelivery ---------------------------
(***************************************************************************)
(* What the queue of notices promises to Guardian, Hunter and Protector: a *)
(* notice it accepted is delivered, or it is given up and the row says so; *)
(* a notice it refused is never delivered.  A notice given up may still    *)
(* arrive, from a bot that had it in hand.                                 *)
(***************************************************************************)
CONSTANT Notices
VARIABLE status

Init == status = [n \in Notices |-> "new"]

Move(n, from, to) == status[n] \in from /\ status' = [status EXCEPT ![n] = to]

Accept(n) == Move(n, {"new"}, "accepted")
Refuse(n) == Move(n, {"new"}, "refused")
Settle(n) == Move(n, {"accepted"}, "delivered") \/ Move(n, {"accepted"}, "given_up")
Arrive(n) == Move(n, {"given_up"}, "delivered")

Next == \E n \in Notices : Accept(n) \/ Refuse(n) \/ Settle(n) \/ Arrive(n)

Spec == Init /\ [][Next]_status /\ \A n \in Notices : WF_status(Settle(n))
=============================================================================
