SPECIFICATION Spec
CONSTANTS
  q1 = q1
  q2 = q2
  r1 = r1
  None = None
  Request = {q1, q2}
  Orders = 2
  Refund = {r1}
  Disputed = {}
  Delivery = {d1, d2}
  Credits = 2
  Overrun = 0
  Estimate <- MCEstimate
  RefundedOrder <- MCRefundedOrder
  Requested <- MCRequested
INVARIANT NoConsumedRefund
CHECK_DEADLOCK FALSE
