-------------------------------- MODULE Fifo --------------------------------
(***************************************************************************)
(* What every ring at the browser boundary promises, with the ring left    *)
(* out: a producer passes the items of Stream, in order and in batches, to *)
(* a consumer that is never more than Bound items behind.  The modules     *)
(* that model the shared-memory rings are shown to implement this one.     *)
(***************************************************************************)
EXTENDS Naturals

CONSTANTS
  Total,   \* how many items the producer has to pass at most
  Stream,  \* Stream[i] is item number i, counted from 0
  Bound    \* how many items may be on their way

VARIABLES
  sent,      \* items handed over by the producer
  received,  \* items the consumer has taken
  out        \* out[i] is item number i as the consumer got it

vars == <<sent, received, out>>

Init == sent = 0 /\ received = 0 /\ out = [i \in {} |-> i]

Put(n) ==
  /\ sent + n <= Total
  /\ sent + n <= received + Bound
  /\ sent' = sent + n
  /\ UNCHANGED <<received, out>>

Get(n) ==
  /\ received + n <= sent
  /\ received' = received + n
  /\ out' = [i \in 0 .. received + n - 1 |-> Stream[i]]
  /\ UNCHANGED sent

Next == \E n \in 1 .. Bound : Put(n) \/ Get(n)

Spec == Init /\ [][Next]_vars

=============================================================================
