-------------------------- MODULE SpscRing_proofs --------------------------
(***************************************************************************)
(* Proofs about the ring, for every capacity of at least two slots, every  *)
(* stream and every interleaving of the two sides.                         *)
(***************************************************************************)
EXTENDS SpscRing, TLAPS

\* What Distance and Advance do on slots, without the remainder.
LEMMA DistanceInRange ==
  ASSUME NEW p \in Slot, NEW s \in Slot
  PROVE  Distance(p, s) \in 0 .. Capacity - 1
  BY CapacityAssumption DEF Distance, Slot

LEMMA ModuloBelow ==
  ASSUME NEW x \in Nat, x < Capacity
  PROVE  x % Capacity = x
  BY CapacityAssumption

LEMMA ModuloOnce ==
  ASSUME NEW x \in Nat, x >= Capacity, x < 2 * Capacity
  PROVE  x % Capacity = x - Capacity
  BY CapacityAssumption

LEMMA AdvanceIs ==
  ASSUME NEW p \in Slot, NEW n \in 0 .. Capacity - 1
  PROVE  /\ Advance(p, n) = IF p + n < Capacity THEN p + n ELSE p + n - Capacity
         /\ Advance(p, n) \in Slot
  BY CapacityAssumption, ModuloBelow, ModuloOnce DEF Advance, Slot

LEMMA InitRingInv == Init => RingInv
  BY CapacityAssumption, TotalAssumption
  DEF Init, RingInv, TypeOK, CountsAreSafe, PublishedIntact, FilledIntact,
      HandIntact, ItemsInOrder, Nothing, Used, Free, Distance, Slot

\* The producer's three steps.
LEMMA ProducerLookInv == RingInv /\ ProducerLook => RingInv'
  <1> SUFFICES ASSUME RingInv, ProducerLook PROVE RingInv'
    OBVIOUS
  <1> USE CapacityAssumption DEF RingInv, ProducerLook, consumer
  <1>1. Free(readPos, writePos) \in 0 .. Capacity - 1
    BY DistanceInRange DEF TypeOK, Free, Used
  <1>2. TypeOK'
    BY <1>1 DEF TypeOK
  <1>3. CountsAreSafe'
    BY <1>1 DEF CountsAreSafe, Free, Used, Distance
  <1>4. PublishedIntact' /\ FilledIntact' /\ HandIntact' /\ ItemsInOrder'
    BY DEF PublishedIntact, FilledIntact, HandIntact, ItemsInOrder, Used, Distance
  <1>5. QED
    BY <1>2, <1>3, <1>4

LEMMA ProducerFillInv ==
  ASSUME NEW n \in 1 .. Capacity - 1, RingInv, ProducerFill(n)
  PROVE  RingInv'
  <1> USE CapacityAssumption, TotalAssumption DEF RingInv, ProducerFill, consumer
  <1>1. \A k \in 0 .. n - 1 : Stream[sent + k] \in Item
    BY DEF Item, TypeOK
  <1>2. \A s \in Slot : Distance(writePos, s) \in 0 .. Capacity - 1
    BY DistanceInRange DEF TypeOK
  <1>3. ring' \in [Slot -> Item \cup {NoItem}]
    <2>1. ASSUME NEW s \in Slot, Distance(writePos, s) < n
          PROVE  Stream[sent + Distance(writePos, s)] \in Item
      <3>1. Distance(writePos, s) \in 0 .. n - 1
        BY <1>2, <2>1
      <3>2. QED
        BY <1>1, <3>1
    <2>2. QED
      BY <2>1 DEF TypeOK
  <1>4. TypeOK'
    BY <1>3 DEF TypeOK
  <1>5. CountsAreSafe'
    BY DEF CountsAreSafe, Free, Used, Distance, TypeOK
  <1>6. PublishedIntact'
    <2> SUFFICES ASSUME NEW s \in Slot, Distance(readPos, s) < Used(readPos, writePos)
                 PROVE  ring'[s] = Stream[received + Distance(readPos, s)]
      BY DEF PublishedIntact, Used, Distance
    <2>1. ~(Distance(writePos, s) < n)
      BY DEF TypeOK, CountsAreSafe, Free, Used, Distance, Slot
    <2>2. QED
      BY <2>1 DEF PublishedIntact
  <1>7. FilledIntact'
    BY DEF FilledIntact, Distance
  <1>8. HandIntact' /\ ItemsInOrder'
    BY DEF HandIntact, ItemsInOrder
  <1>9. QED
    BY <1>4, <1>5, <1>6, <1>7, <1>8

LEMMA ProducerPublishInv == RingInv /\ ProducerPublish => RingInv'
  <1> SUFFICES ASSUME RingInv, ProducerPublish PROVE RingInv'
    OBVIOUS
  <1> USE CapacityAssumption, TotalAssumption DEF RingInv, ProducerPublish, consumer
  <1>1. /\ writePos' = IF writePos + filled < Capacity THEN writePos + filled
                                                       ELSE writePos + filled - Capacity
        /\ writePos' \in Slot
    BY AdvanceIs DEF TypeOK
  <1>2. TypeOK'
    BY <1>1 DEF TypeOK, CountsAreSafe
  <1>3. Used(readPos, writePos') = Used(readPos, writePos) + filled
    BY <1>1 DEF TypeOK, CountsAreSafe, Free, Used, Distance, Slot
  <1>4. CountsAreSafe'
    BY <1>1, <1>3 DEF TypeOK, CountsAreSafe, Free, Used, Distance, Slot
  <1>5. PublishedIntact'
    <2> SUFFICES ASSUME NEW s \in Slot, Distance(readPos, s) < Used(readPos, writePos')
                 PROVE  ring[s] = Stream[received + Distance(readPos, s)]
      BY DEF PublishedIntact, Used, Distance
    <2>1. CASE Distance(readPos, s) < Used(readPos, writePos)
      BY <2>1 DEF PublishedIntact
    <2>2. CASE ~(Distance(readPos, s) < Used(readPos, writePos))
      <3>1. Distance(writePos, s) = Distance(readPos, s) - Used(readPos, writePos)
        BY <2>2, <1>3 DEF TypeOK, CountsAreSafe, Free, Used, Distance, Slot
      <3>2. Distance(writePos, s) < filled
        BY <3>1, <1>3, DistanceInRange DEF TypeOK, Used
      <3>3. sent + Distance(writePos, s) = received + Distance(readPos, s)
        BY <3>1, DistanceInRange DEF TypeOK, CountsAreSafe, Used
      <3>4. QED
        BY <3>2, <3>3 DEF FilledIntact
    <2>3. QED
      BY <2>1, <2>2
  <1>6. FilledIntact'
    <2>1. \A s \in Slot : Distance(writePos', s) >= 0
      BY <1>1, DistanceInRange
    <2>2. \A s \in Slot : ~(Distance(writePos', s) < filled')
      BY <2>1, DistanceInRange, <1>1
    <2>3. QED
      BY <2>2 DEF FilledIntact, Distance
  <1>7. HandIntact' /\ ItemsInOrder'
    BY DEF HandIntact, ItemsInOrder
  <1>8. QED
    BY <1>2, <1>4, <1>5, <1>6, <1>7

\* The consumer's three steps.
LEMMA ConsumerLookInv == RingInv /\ ConsumerLook => RingInv'
  <1> SUFFICES ASSUME RingInv, ConsumerLook PROVE RingInv'
    OBVIOUS
  <1> USE CapacityAssumption DEF RingInv, ConsumerLook, producer
  <1>1. Used(readPos, writePos) \in 0 .. Capacity - 1
    BY DistanceInRange DEF TypeOK, Used
  <1>2. TypeOK'
    BY <1>1 DEF TypeOK
  <1>3. CountsAreSafe'
    BY <1>1 DEF CountsAreSafe, Free, Used, Distance
  <1>4. PublishedIntact' /\ FilledIntact' /\ HandIntact' /\ ItemsInOrder'
    BY DEF PublishedIntact, FilledIntact, HandIntact, ItemsInOrder, Used, Distance
  <1>5. QED
    BY <1>2, <1>3, <1>4

LEMMA ConsumerCopyInv ==
  ASSUME NEW n \in 1 .. Capacity - 1, RingInv, ConsumerCopy(n)
  PROVE  RingInv'
  <1> USE CapacityAssumption DEF RingInv, ConsumerCopy, producer
  <1>1. ASSUME NEW k \in 0 .. n - 1
        PROVE  /\ readPos + k \in Slot
               /\ ring[readPos + k] = Stream[received + k]
    <2>1. readPos + k \in Slot /\ Distance(readPos, readPos + k) = k
      BY DEF TypeOK, Slot, Distance
    <2>2. k < Used(readPos, writePos)
      BY DistanceInRange DEF CountsAreSafe, TypeOK, Used
    <2>3. QED
      BY <2>1, <2>2 DEF PublishedIntact
  <1>2. TypeOK'
    BY <1>1 DEF TypeOK
  <1>3. HandIntact'
    BY <1>1 DEF HandIntact
  <1>4. CountsAreSafe' /\ PublishedIntact' /\ FilledIntact' /\ ItemsInOrder'
    BY DEF CountsAreSafe, PublishedIntact, FilledIntact, ItemsInOrder, Free, Used, Distance
  <1>5. QED
    BY <1>2, <1>3, <1>4

LEMMA ConsumerReleaseInv == RingInv /\ ConsumerRelease => RingInv'
  <1> SUFFICES ASSUME RingInv, ConsumerRelease PROVE RingInv'
    OBVIOUS
  <1> USE CapacityAssumption, TotalAssumption DEF RingInv, ConsumerRelease, producer
  <1>1. /\ readPos' = IF readPos + taken < Capacity THEN readPos + taken
                                                    ELSE readPos + taken - Capacity
        /\ readPos' \in Slot
    BY AdvanceIs DEF TypeOK
  <1>2. Used(readPos', writePos) = Used(readPos, writePos) - taken
    BY <1>1 DEF TypeOK, CountsAreSafe, Used, Distance, Slot
  <1>3. CountsAreSafe'
    BY <1>1, <1>2 DEF TypeOK, CountsAreSafe, Free, Used, Distance, Slot
  <1> DEFINE delivered == [i \in 0 .. received + taken - 1 |->
                             IF i < received THEN out[i] ELSE hand[i - received]]
  <1> HIDE DEF delivered
  <1>0. out' = delivered /\ received' = received + taken
    BY DEF delivered
  <1>4. out' \in [0 .. received' - 1 -> Item \cup {NoItem}]
    <2>1. ASSUME NEW i \in 0 .. received + taken - 1
          PROVE  (IF i < received THEN out[i] ELSE hand[i - received]) \in Item \cup {NoItem}
      BY DEF TypeOK
    <2>2. delivered \in [0 .. received + taken - 1 -> Item \cup {NoItem}]
      BY <2>1 DEF delivered
    <2>3. received' - 1 = received + taken - 1
      BY <1>0 DEF TypeOK
    <2>4. QED
      BY <1>0, <2>2, <2>3
  <1>5. received' \in 0 .. sent
    BY DistanceInRange DEF TypeOK, CountsAreSafe, Used
  <1>6. TypeOK'
    BY <1>1, <1>4, <1>5 DEF TypeOK, Nothing
  <1>7. PublishedIntact'
    <2> SUFFICES ASSUME NEW s \in Slot, Distance(readPos', s) < Used(readPos', writePos)
                 PROVE  ring[s] = Stream[received' + Distance(readPos', s)]
      BY DEF PublishedIntact, Used, Distance
    <2>1. Distance(readPos, s) = Distance(readPos', s) + taken
      BY <1>1, <1>2 DEF TypeOK, CountsAreSafe, Used, Distance, Slot
    <2>2. Distance(readPos', s) \in Int /\ Used(readPos, writePos) \in Int
      BY <1>1, DistanceInRange DEF TypeOK, Used
    <2>3. Distance(readPos, s) < Used(readPos, writePos)
      BY <1>2, <2>1, <2>2 DEF TypeOK
    <2>4. received' + Distance(readPos', s) = received + Distance(readPos, s)
      BY <2>1, <2>2 DEF TypeOK
    <2>5. QED
      BY <2>3, <2>4 DEF PublishedIntact
  <1>8. FilledIntact' /\ HandIntact'
    BY DEF FilledIntact, HandIntact, Distance
  <1>9. ItemsInOrder'
    <2>1. ASSUME NEW i \in 0 .. received + taken - 1
          PROVE  (IF i < received THEN out[i] ELSE hand[i - received]) = Stream[i]
      BY DEF TypeOK, HandIntact, ItemsInOrder
    <2>2. \A i \in 0 .. received + taken - 1 : delivered[i] = Stream[i]
      BY <2>1 DEF delivered
    <2>3. received' - 1 = received + taken - 1
      BY <1>0 DEF TypeOK
    <2>4. QED
      BY <1>0, <2>2, <2>3 DEF ItemsInOrder
  <1>10. QED
    BY <1>3, <1>6, <1>7, <1>8, <1>9

LEMMA NextRingInv == RingInv /\ [Next]_vars => RingInv'
  <1> SUFFICES ASSUME RingInv, [Next]_vars PROVE RingInv'
    OBVIOUS
  <1>1. CASE Producer
    BY <1>1, ProducerLookInv, ProducerFillInv, ProducerPublishInv DEF Producer
  <1>2. CASE Consumer
    BY <1>2, ConsumerLookInv, ConsumerCopyInv, ConsumerReleaseInv DEF Consumer
  <1>3. CASE UNCHANGED vars
    BY <1>3 DEF vars, producer, consumer, RingInv, TypeOK, CountsAreSafe, PublishedIntact,
                FilledIntact, HandIntact, ItemsInOrder, Free, Used, Distance
  <1>4. QED
    BY <1>1, <1>2, <1>3 DEF Next

\* The inductive invariant of the ring holds in every reachable state: whatever
\* the capacity and the timing, the counts are safe and every copy is the item
\* its place stands for.
THEOREM RingInvariant == Spec => []RingInv
  <1>1. QED
    BY InitRingInv, NextRingInv, PTL DEF Spec

\* Positions, counts and slots keep their types: no position leaves the slot
\* array and no count is ever negative or as large as the ring.
THEOREM TypeCorrect == Spec => []TypeOK
  <1>1. RingInv => TypeOK
    BY DEF RingInv
  <1>2. QED
    BY <1>1, RingInvariant, PTL

\* The consumer receives the producer's items in order, each once.
THEOREM InOrder == Spec => []ItemsInOrder
  <1>1. RingInv => ItemsInOrder
    BY DEF RingInv
  <1>2. QED
    BY <1>1, RingInvariant, PTL

\* No slot is open to both memcpys at once.
THEOREM NoTornItem == Spec => []NoSharedSlot
  <1>1. RingInv => NoSharedSlot
    BY CapacityAssumption
    DEF RingInv, NoSharedSlot, CountsAreSafe, TypeOK, Free, Used, Distance, Slot
  <1>2. QED
    BY <1>1, RingInvariant, PTL

\* The ring implements the abstract channel: its initial states are the
\* channel's, storing WRITE_POS is a Put, storing READ_POS is a Get and every
\* other step of either side is invisible.
THEOREM ImplementsFifo == Spec => FifoSpec
  <1> USE CapacityAssumption, TotalAssumption
  <1>1. Init => Fifo!Init
    BY DEF Init, Fifo!Init, Nothing
  <1>2. RingInv /\ ProducerPublish => Fifo!Next
    <2> SUFFICES ASSUME RingInv, ProducerPublish PROVE Fifo!Next
      OBVIOUS
    <2>1. filled \in 1 .. Capacity - 1
      BY DEF RingInv, TypeOK, ProducerPublish
    <2>2. Fifo!Put(filled)
      BY <2>1 DEF RingInv, TypeOK, CountsAreSafe, Free, ProducerPublish, consumer,
                  Fifo!Put, Used, Distance, Slot
    <2>3. QED
      BY <2>1, <2>2 DEF Fifo!Next
  <1>3. RingInv /\ ConsumerRelease => Fifo!Next
    <2> SUFFICES ASSUME RingInv, ConsumerRelease PROVE Fifo!Next
      OBVIOUS
    <2>1. taken \in 1 .. Capacity - 1
      BY DEF RingInv, TypeOK, ConsumerRelease
    <2>2. received + taken <= sent
      BY DEF RingInv, TypeOK, CountsAreSafe, Used, Distance, Slot
    <2>3. ASSUME NEW i \in 0 .. received + taken - 1
          PROVE  (IF i < received THEN out[i] ELSE hand[i - received]) = Stream[i]
      BY DEF RingInv, TypeOK, HandIntact, ItemsInOrder
    <2>4. out' = [i \in 0 .. received + taken - 1 |-> Stream[i]]
      BY <2>3 DEF ConsumerRelease
    <2>5. Fifo!Get(taken)
      BY <2>2, <2>4 DEF Fifo!Get, ConsumerRelease, producer
    <2>6. QED
      BY <2>1, <2>5 DEF Fifo!Next
  <1>4. RingInv /\ [Next]_vars => [Fifo!Next]_(Fifo!vars)
    <2> SUFFICES ASSUME RingInv, [Next]_vars PROVE [Fifo!Next]_(Fifo!vars)
      OBVIOUS
    <2>1. CASE Producer
      BY <2>1, <1>2 DEF Producer, ProducerLook, ProducerFill, consumer, Fifo!vars
    <2>2. CASE Consumer
      BY <2>2, <1>3 DEF Consumer, ConsumerLook, ConsumerCopy, producer, Fifo!vars
    <2>3. CASE UNCHANGED vars
      BY <2>3 DEF vars, producer, consumer, Fifo!vars
    <2>4. QED
      BY <2>1, <2>2, <2>3 DEF Next
  <1>5. QED
    BY <1>1, <1>4, RingInvariant, PTL DEF Spec, FifoSpec, Fifo!Spec
=============================================================================
