SPECIFICATION FairSpec
CONSTANTS
  q1 = q1
  q2 = q2
  r1 = r1
  None = None
  Request = {q1}
  Orders = 2
  Refund = {r1}
  Disputed = {r1}
  Delivery = {d1, d2}
  Credits = 2
  Overrun = 1
  Estimate <- MCEstimate
  RefundedOrder <- MCRefundedOrder
  Requested <- MCRequested
INVARIANTS BalanceIsLedger DisputeFreezes
PROPERTY EveryHoldEnds
CHECK_DEADLOCK FALSE
