------------------------------ MODULE SpscRing ------------------------------
(***************************************************************************)
(* The single-producer/single-consumer ring in shared WebAssembly memory   *)
(* that every browser-backed block shares with its Web Worker: a slot      *)
(* array, a read position only the consumer stores and a write position    *)
(* only the producer stores, one slot always left empty.  A C++ block is   *)
(* one side and a JavaScript worker the other; the File Source's reader    *)
(* and BrowserFileSource::work() are the pair this module is read from,    *)
(* BrowserFileSink::work() and the File Sink's writer use the same code    *)
(* with the roles exchanged.                                               *)
(*                                                                         *)
(* Each side takes three steps, because between any two of them the other  *)
(* side may run: look at the other's position, copy items, store its own   *)
(* position.  What is learnt by looking is stale when it is used.          *)
(***************************************************************************)
EXTENDS Integers

CONSTANTS
  Capacity,  \* slots in the ring
  Total,     \* bound: how many items the producer has to pass at most
  Stream,    \* Stream[i] is item number i of what the producer passes
  NoItem     \* what a slot holds before it is first written

ASSUME CapacityAssumption == Capacity \in Nat /\ Capacity >= 2
ASSUME TotalAssumption == Total \in Nat

Slot == 0 .. Capacity - 1
Item == {Stream[i] : i \in 0 .. Total - 1}

VARIABLES
  ring,      \* the slots
  readPos,   \* control word READ_POS, stored by the consumer
  writePos,  \* control word WRITE_POS, stored by the producer
  budget,    \* free slots the producer counted and has not published into
  filled,    \* items the producer has copied in and not published yet
  avail,     \* items the consumer counted and has not released
  taken,     \* how many items the consumer has copied out, not released yet
  hand,      \* those items
  sent, received, out   \* history: what was published, released, handed on

producer == <<writePos, budget, filled, sent>>
consumer == <<readPos, avail, taken, hand, received, out>>
vars == <<ring, producer, consumer>>

-----------------------------------------------------------------------------
Advance(p, n) == (p + n) % Capacity

\* How many slots s lies after p, going round.
Distance(p, s) == IF s >= p THEN s - p ELSE Capacity - (p - s)

Used(r, w) == Distance(r, w)

\* One slot is always left empty, so equal positions mean an empty ring.
Free(r, w) == Capacity - Used(r, w) - 1

Nothing == [i \in {} |-> i]

-----------------------------------------------------------------------------
Init ==
  /\ ring = [s \in Slot |-> NoItem]
  /\ readPos = 0 /\ writePos = 0
  /\ budget = 0 /\ filled = 0
  /\ avail = 0 /\ taken = 0 /\ hand = Nothing
  /\ sent = 0 /\ received = 0 /\ out = Nothing

\* Faulty variants, each a slip this code could have.
\* The empty slot is forgotten.
ProducerLook_NoGap ==
  /\ filled = 0 /\ budget = 0
  /\ budget' \in 0 .. Free(readPos, writePos) + 1
  /\ UNCHANGED <<ring, writePos, filled, sent, consumer>>

\* Everything counted is released, not what was copied before the wrap.
ConsumerRelease_All ==
  /\ taken > 0
  /\ readPos' = Advance(readPos, avail)
  /\ avail' = 0
  /\ received' = received + taken
  /\ out' = [i \in 0 .. received + taken - 1 |->
               IF i < received THEN out[i] ELSE hand[i - received]]
  /\ taken' = 0 /\ hand' = Nothing
  /\ UNCHANGED <<ring, producer>>

\* The consumer waits for a full ring.
ConsumerLook_WhenFull ==
  /\ taken = 0 /\ avail = 0
  /\ avail' \in {0} \cup (IF Free(readPos, writePos) = 0 THEN {Capacity - 1} ELSE {})
  /\ UNCHANGED <<ring, readPos, taken, hand, received, out, producer>>

-----------------------------------------------------------------------------
\* The producer loads READ_POS, counts the free slots and decides how many of
\* them to use (a chunk is limited, and so is what is left of a file).
ProducerLook ==
  /\ filled = 0 /\ budget = 0
  /\ budget' \in 0 .. Free(readPos, writePos)
  /\ UNCHANGED <<ring, writePos, filled, sent, consumer>>

\* It copies the next n items into slots of that free range, across the wrap if
\* it has to.
ProducerFill(n) ==
  /\ filled = 0
  /\ n <= budget
  /\ sent + n <= Total
  /\ ring' = [s \in Slot |->
               IF Distance(writePos, s) < n THEN Stream[sent + Distance(writePos, s)]
                                            ELSE ring[s]]
  /\ filled' = n
  /\ UNCHANGED <<writePos, budget, sent, consumer>>

\* It stores WRITE_POS, which publishes them.  The file reader goes on with the
\* same count until its request is complete, the sink block counts again.
ProducerPublish ==
  /\ filled > 0
  /\ writePos' = Advance(writePos, filled)
  /\ budget' \in {0, budget - filled}
  /\ sent' = sent + filled
  /\ filled' = 0
  /\ UNCHANGED <<ring, consumer>>

\* The consumer loads WRITE_POS and counts the items it may take this time.
ConsumerLook ==
  /\ taken = 0 /\ avail = 0
  /\ avail' \in 0 .. Used(readPos, writePos)
  /\ UNCHANGED <<ring, readPos, taken, hand, received, out, producer>>

\* It copies the first n of them out, up to the end of the slot array at most.
ConsumerCopy(n) ==
  /\ taken = 0
  /\ n <= avail
  /\ readPos + n <= Capacity
  /\ taken' = n
  /\ hand' = [k \in 0 .. n - 1 |-> ring[readPos + k]]
  /\ UNCHANGED <<ring, readPos, avail, received, out, producer>>

\* It stores READ_POS, which gives the slots back.
ConsumerRelease ==
  /\ taken > 0
  /\ readPos' = Advance(readPos, taken)
  /\ avail' = 0
  /\ received' = received + taken
  /\ out' = [i \in 0 .. received + taken - 1 |->
               IF i < received THEN out[i] ELSE hand[i - received]]
  /\ taken' = 0 /\ hand' = Nothing
  /\ UNCHANGED <<ring, producer>>

Producer == ProducerLook \/ ProducerPublish \/ \E n \in 1 .. Capacity - 1 : ProducerFill(n)
Consumer == ConsumerLook \/ ConsumerRelease \/ \E n \in 1 .. Capacity - 1 : ConsumerCopy(n)

Next == Producer \/ Consumer

Spec == Init /\ [][Next]_vars

(***************************************************************************)
(* Both sides are threads of their own that poll: the block's scheduler    *)
(* pthread wakes at least every 100 ms, the worker every second.  A look   *)
(* that finds something is followed by a copy, and a copy by a store.      *)
(***************************************************************************)
FairSpec ==
  /\ Spec
  /\ WF_vars(ConsumerLook /\ avail' > 0)
  /\ WF_vars(\E n \in 1 .. Capacity - 1 : ConsumerCopy(n))
  /\ WF_vars(ConsumerRelease)
  /\ WF_vars(ProducerLook /\ budget' > 0)
  /\ WF_vars(\E n \in 1 .. Capacity - 1 : ProducerFill(n))
  /\ WF_vars(ProducerPublish)

-----------------------------------------------------------------------------
TypeOK ==
  /\ ring \in [Slot -> Item \cup {NoItem}]
  /\ readPos \in Slot /\ writePos \in Slot
  /\ budget \in 0 .. Capacity - 1 /\ filled \in 0 .. budget
  /\ avail \in 0 .. Capacity - 1 /\ taken \in 0 .. avail
  /\ sent \in 0 .. Total /\ received \in 0 .. sent
  /\ hand \in [0 .. taken - 1 -> Item \cup {NoItem}]
  /\ out \in [0 .. received - 1 -> Item \cup {NoItem}]

\* The items come out as they went in: none lost, repeated, reordered or read
\* from a slot that did not hold it yet (the copies of work() and publish()).
ItemsInOrder == \A i \in 0 .. received - 1 : out[i] = Stream[i]

\* The slots the producer may still write and those the consumer may still read
\* never meet, so neither memcpy can see a torn item: the two sides use counts
\* taken before the other moved, and that is safe.
NoSharedSlot ==
  \A s \in Slot : ~(Distance(writePos, s) < budget /\ Distance(readPos, s) < avail)

\* The inductive invariant behind both.  The two counts a side works with never
\* promise more than there is, the distance between the positions is the number
\* of items on their way, and each copy holds the item its place stands for.
CountsAreSafe ==
  /\ sent - received = Used(readPos, writePos)
  /\ budget <= Free(readPos, writePos)
  /\ avail <= Used(readPos, writePos)
  /\ sent + filled <= Total

PublishedIntact ==
  \A s \in Slot : Distance(readPos, s) < Used(readPos, writePos)
                   => ring[s] = Stream[received + Distance(readPos, s)]

FilledIntact ==
  \A s \in Slot : Distance(writePos, s) < filled
                   => ring[s] = Stream[sent + Distance(writePos, s)]

HandIntact == \A k \in 0 .. taken - 1 : hand[k] = Stream[received + k]

RingInv ==
  TypeOK /\ CountsAreSafe /\ PublishedIntact /\ FilledIntact /\ HandIntact /\ ItemsInOrder

\* Every item is handed on in the end: neither side is left looking at a count
\* that the other one's store has made stale, however small the ring.
EverythingArrives == <>(received = Total)

Fifo == INSTANCE Fifo WITH Bound <- Capacity - 1
FifoSpec == Fifo!Spec
=============================================================================
