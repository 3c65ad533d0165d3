--------------------------- MODULE MCCreditLedger ---------------------------
(* Two requests, two packs of two credits, a disputed refund of the first. *)
EXTENDS CreditLedger

CONSTANTS q1, q2, r1

MCEstimate == [q \in Request |-> IF q = q1 THEN 1 ELSE 2]
MCRefundedOrder == [r \in Refund |-> 1]
MCRequested == [r \in Refund |-> Credits]
=============================================================================
