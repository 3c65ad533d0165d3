SPECIFICATION Spec
CONSTANTS
  q1 = q1
  q2 = q2
  r1 = r1
  None = None
  Request = {q1, q2}
  Orders = 2
  Refund = {r1}
  Disputed = {r1}
  Delivery = {d1}
  Credits = 2
  Overrun = 1
  Estimate <- MCEstimate
  RefundedOrder <- MCRefundedOrder
  Requested <- MCRequested
INVARIANTS
  HeldIsActive
  LotsCoverBalance
  ResolvedOnce
  NoFreeInference
CHECK_DEADLOCK FALSE
