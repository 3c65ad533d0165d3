------------------------ MODULE BrowserFileSink_proofs ------------------------
(***************************************************************************)
(* The File Sink and its writer, for every ring, chunk, call and buffer    *)
(* size.  First block and worker are shown to implement the ring, so that  *)
(* what is proved of the ring holds of them: the items come out of it in   *)
(* order.  On that rests the rest: the file is in order, CLOSED means that *)
(* it is complete, the metadata counts its items, and a stop() that        *)
(* reports nothing has left the reader the whole recording.                *)
(***************************************************************************)
EXTENDS BrowserFileSink, SequenceTheorems, TLAPS

Content == 0 .. Total - 1 \cup {None}
Working == wpc \in {"state", "load", "copy", "publish"}
Stopped == wpc \in {"wait", "verdict", "terminate", "stopped"}
Dead == kpc \in {"none", "failing", "gone"}
Ending == kpc \in {"finish", "meta", "close"}

Types ==
  /\ readPos \in Slot /\ writePos \in Slot /\ ring \in [Slot -> Content]
  /\ wanted \in Nat /\ consumed \in Nat /\ take \in 0 .. Capacity - 1 /\ filled \in Nat
  /\ accepted \in Nat /\ avail \in 0 .. Capacity - 1 /\ taken \in Nat
  /\ chunk \in Seq(Content) /\ drained \in Seq(Content)

\* Where each side is says which of its counts are in use.
Sides ==
  /\ wpc = "new" => kpc = "none" /\ ~registered
  /\ wpc = "copy" =>
       take >= 1 /\ filled = 0 /\ take <= wanted - consumed /\ take <= Capacity - writePos
  /\ wpc = "publish" => take >= 1 /\ filled = take
  /\ wpc \notin {"copy", "publish"} => take = 0 /\ filled = 0
  /\ Working => consumed <= wanted /\ accepted + (wanted - consumed) + filled <= Total
  /\ wpc \in {"state", "load"} => consumed < wanted
  /\ kpc = "copy" => avail >= 1 /\ taken = 0
  /\ kpc = "release" => taken >= 1 /\ Len(chunk) = taken
  /\ kpc \notin {"copy", "release", "gone"} => avail = 0 /\ taken = 0

-----------------------------------------------------------------------------
(* The operators.                                                            *)

LEMMA MinOfThree ==
  ASSUME NEW a \in Int, NEW b \in Int, NEW c \in Int
  PROVE  /\ Min({a, b, c}) \in {a, b, c}
         /\ Min({a, b, c}) <= a /\ Min({a, b, c}) <= b /\ Min({a, b, c}) <= c
<1>1. \E x \in {a, b, c} : \A y \in {a, b, c} : x <= y
  OBVIOUS
<1> QED BY <1>1 DEF Min

LEMMA AdvanceInSlot ==
  ASSUME NEW p \in Nat, NEW n \in Nat
  PROVE  Advance(p, n) \in Slot
  BY SinkAssumption DEF Advance, Slot, SinkAssumption

LEMMA CountsInRing ==
  ASSUME Types
  PROVE  Used \in 0 .. Capacity - 1 /\ Free \in 0 .. Capacity - 1
  BY SinkAssumption DEF Types, Used, Free, Slot, SinkAssumption

-----------------------------------------------------------------------------
(* The two sides of the ring.                                                *)

LEMMA InitSides == Init => Types /\ Sides
  BY SinkAssumption, EmptySeq
  DEF Init, Types, Sides, Slot, Content, Working, SinkAssumption

\* How many items the block decides to copy in.
LEMMA TakeIs ==
  ASSUME Types, Sides, WorkLoad, Free # 0
  PROVE  take' \in 1 .. Free /\ take' <= wanted - consumed /\ take' <= Capacity - writePos
<1> DEFINE a == Free
           b == wanted - consumed
           c == Capacity - writePos
<1>1. /\ a \in Int /\ b \in Int /\ c \in Int /\ a >= 1 /\ b >= 1 /\ c >= 1
      /\ take' = Min({a, b, c})
  BY CountsInRing, SinkAssumption DEF WorkLoad, Types, Sides, Slot, SinkAssumption
<1> HIDE DEF a, b, c
<1>2. take' \in {a, b, c} /\ take' <= a /\ take' <= b /\ take' <= c
  BY <1>1, MinOfThree
<1>3. take' \in 1 .. a
  BY <1>1, <1>2
<1> QED BY <1>2, <1>3 DEF a, b, c

\* The block's steps.
LEMMA BlockSides ==
  ASSUME Types, Sides, Block \/ (\E n \in 1 .. MaxInput : Work(n)) \/ StopFlowgraph
  PROVE  Types' /\ Sides'
<1> USE DEF Types, Sides, Working
<1>1. CASE Start
  BY <1>1 DEF Start, call, drain, page
<1>2. CASE StopFlowgraph
  BY <1>2 DEF StopFlowgraph, shared, call, worker, drain, page
<1>3. ASSUME NEW n \in 1 .. MaxInput, Work(n) PROVE Types' /\ Sides'
  BY <1>3, SinkAssumption DEF Work, shared, worker, drain, page, SinkAssumption
<1>4. CASE WorkState
  BY <1>4 DEF WorkState, shared, call, worker, drain, page
<1>5. CASE WorkLoad
  <2>1. CASE Free = 0
    BY <1>5, <2>1 DEF WorkLoad, shared, worker, drain, page
  <2>2. CASE Free # 0
    <3>1. /\ take' \in 1 .. Free /\ take' <= wanted - consumed /\ take' <= Capacity - writePos
          /\ Free \in 1 .. Capacity - 1
      BY <1>5, <2>2, TakeIs, CountsInRing
    <3> QED BY <1>5, <2>2, <3>1, SinkAssumption DEF WorkLoad, shared, worker, drain, page, SinkAssumption
  <2> QED BY <2>1, <2>2
<1>6. CASE WorkCopy
  <2>1. ring' \in [Slot -> Content]
    BY <1>6, SinkAssumption DEF WorkCopy, Content, Slot, SinkAssumption
  <2> QED BY <1>6, <2>1 DEF WorkCopy, worker, drain, page
<1>7. CASE WorkPublish
  <2>1. writePos' \in Slot
    BY <1>7, AdvanceInSlot, SinkAssumption DEF WorkPublish, Slot, SinkAssumption
  <2> QED BY <1>7, <2>1, SinkAssumption DEF WorkPublish, worker, drain, page, SinkAssumption
<1>8. CASE StopStep
  BY <1>8 DEF StopStep, StopPayload, StopStore, StopWait, StopVerdict, StopTerminate, shared, call,
              worker, drain, page
<1> QED BY <1>1, <1>2, <1>3, <1>4, <1>5, <1>6, <1>7, <1>8 DEF Block, WorkStep

\* What the writer copies out at a time.
Portion == Min({avail, MaxChunk, Capacity - readPos})

LEMMA ChunkIs ==
  ASSUME Types, Sides, Copy
  PROVE  /\ Portion \in 1 .. avail /\ readPos + Portion <= Capacity
         /\ taken' = Portion /\ chunk' \in Seq(Content) /\ Len(chunk') = Portion
         /\ \A i \in 1 .. Portion : chunk'[i] = ring[readPos + i - 1]
<1> DEFINE slots == [s \in 1 .. Capacity |-> ring[s - 1]]
<1>1. /\ avail \in 1 .. Capacity - 1 /\ readPos \in 0 .. Capacity - 1 /\ Capacity \in Nat
      /\ MaxChunk \in Nat \ {0}
  BY SinkAssumption DEF SinkAssumption, Types, Sides, Copy, Slot
<1>2. Portion \in 1 .. avail /\ Portion <= Capacity - readPos
  <2> DEFINE room == Capacity - readPos
  <2>1. avail \in Int /\ MaxChunk \in Int /\ room \in Int /\ avail >= 1 /\ MaxChunk >= 1 /\ room >= 1
    BY <1>1
  <2>2. Portion = Min({avail, MaxChunk, room})
    BY DEF Portion
  <2> HIDE DEF room
  <2>3. Portion \in {avail, MaxChunk, room} /\ Portion <= avail /\ Portion <= room
    BY <2>1, <2>2, MinOfThree
  <2>4. Portion \in 1 .. avail /\ Portion <= room
    BY <2>1, <2>3
  <2> QED BY <2>4 DEF room
<1>3. taken' = Portion /\ chunk' = SubSeq(slots, readPos + 1, readPos + Portion)
  BY DEF Copy, Portion
<1>4. \A i \in readPos + 1 .. readPos + Portion : slots[i] = ring[i - 1] /\ slots[i] \in Content
  BY <1>1, <1>2 DEF Types, Slot
<1> HIDE DEF slots
<1>5. /\ chunk' \in Seq(Content)
      /\ Len(chunk') = IF readPos + 1 <= readPos + Portion
                       THEN (readPos + Portion) - (readPos + 1) + 1 ELSE 0
      /\ \A i \in 1 .. (readPos + Portion) - (readPos + 1) + 1 :
             chunk'[i] = slots[(readPos + 1) + i - 1]
  <2>1. readPos + 1 \in Int /\ readPos + Portion \in Int
    BY <1>1, <1>2
  <2> QED BY <1>3, <1>4, <2>1, SubSeqProperties
<1>6. Len(chunk') = Portion
  BY <1>1, <1>2, <1>5
<1>7. ASSUME NEW i \in 1 .. Portion PROVE chunk'[i] = ring[readPos + i - 1]
  <2>1. /\ i \in 1 .. (readPos + Portion) - (readPos + 1) + 1 /\ (readPos + 1) + i - 1 = readPos + i
        /\ (readPos + i) - 1 = readPos + i - 1 /\ readPos + i \in readPos + 1 .. readPos + Portion
    BY <1>1, <1>2
  <2>2. chunk'[i] = slots[(readPos + 1) + i - 1]
    BY <1>5, <2>1
  <2>3. slots[readPos + i] = ring[(readPos + i) - 1]
    BY <1>4, <2>1
  <2> QED BY <2>1, <2>2, <2>3
<1>8. readPos + Portion <= Capacity
  BY <1>1, <1>2
<1> QED BY <1>2, <1>3, <1>5, <1>6, <1>7, <1>8

\* The worker's and the page's.
LEMMA WorkerSides ==
  ASSUME Types, Sides, Writer \/ Page \/ Finish
  PROVE  Types' /\ Sides'
<1> USE DEF Types, Sides, Working
<1>1. CASE Boot
  BY <1>1 DEF Boot, shared, block, call, page, drain
<1>2. CASE Open
  BY <1>2 DEF Open, Fail, block, call, page, drain
<1>3. CASE LoadState \/ Wake
  BY <1>3 DEF LoadState, Wake, shared, block, call, page, drain
<1>4. CASE Look
  BY <1>4, CountsInRing DEF Look, AfterLook, shared, block, call, page
<1>5. CASE Copy
  <2>1. taken' \in Nat /\ taken' >= 1 /\ Len(chunk') = taken' /\ chunk' \in Seq(Content)
    BY <1>5, ChunkIs
  <2> QED BY <1>5, <2>1 DEF Copy, shared, block, call, page
<1>6. CASE Release
  <2>1. readPos' \in Slot
    BY <1>6, AdvanceInSlot, SinkAssumption DEF Release, Slot, SinkAssumption
  <2>2. drained' \in Seq(Content)
    BY <1>6, ConcatProperties DEF Release
  <2> QED BY <1>6, <2>1, <2>2, SinkAssumption DEF Release, block, call, page, SinkAssumption
<1>7. CASE Write
  BY <1>7, EmptySeq DEF Write, Fail, shared, block, call, page, drain
<1>8. CASE FinishDownload \/ FinishData \/ FinishMeta \/ Close \/ TellFailure
  BY <1>8 DEF FinishDownload, FinishData, FinishMeta, Close, TellFailure, Fail, shared, block, call, page,
              drain
<1>9. CASE Finish
  BY <1>9 DEF Finish, shared, block, call, page, drain
<1>10. CASE ServeMessage
  BY <1>10 DEF ServeMessage, shared, block, call, worker, drain
<1>11. CASE ServeTerminate
  BY <1>11 DEF ServeTerminate, shared, block, call, drain
<1> QED BY <1>1, <1>2, <1>3, <1>4, <1>5, <1>6, <1>7, <1>8, <1>9, <1>10, <1>11 DEF Writer, Page

LEMMA NextSides ==
  ASSUME Types, Sides, [Next]_vars
  PROVE  Types' /\ Sides'
<1>1. CASE UNCHANGED vars
  BY <1>1 DEF vars, shared, block, call, page, worker, drain, Types, Sides, Working
<1> QED BY <1>1, BlockSides, WorkerSides DEF Next, Over

\* Each side uses its counts only where its code is between counting and storing, and
\* never promises more than the call, the ring or the buffer has (work(), run()).
THEOREM SidesHold == Spec => [](Types /\ Sides)
  BY InitSides, NextSides, PTL DEF Spec

-----------------------------------------------------------------------------
(* Every step is a step of the ring, or none.                                *)

Hand == IF taken = 0 THEN [i \in {} |-> i] ELSE [i \in 0 .. taken - 1 |-> chunk[i + 1]]
Out == [i \in 0 .. Len(drained) - 1 |-> drained[i + 1]]
Numbers == [i \in 0 .. Total - 1 |-> i]

LEMMA InitRing == Init => Ring!Init
<1> SUFFICES ASSUME Init PROVE Ring!Init
  OBVIOUS
<1>1. Len(drained) = 0 /\ taken = 0
  BY EmptySeq DEF Init
<1>2. Out = [i \in {} |-> i]
  <2>1. 0 .. Len(drained) - 1 = {}
    BY <1>1
  <2> QED BY <2>1 DEF Out
<1> QED BY <1>1, <1>2 DEF Init, Ring!Init, Ring!Nothing, Ring!Slot, Slot, Out

\* The block's side of the ring is left alone, or the writer's.
LEMMA WriterIdle ==
  ASSUME UNCHANGED <<readPos, avail, taken, drained>>, taken # 0 => chunk' = chunk
  PROVE  UNCHANGED Ring!consumer
  BY DEF Ring!consumer

LEMMA BlockRing ==
  ASSUME Types, Sides, Block \/ (\E n \in 1 .. MaxInput : Work(n)) \/ StopFlowgraph
  PROVE  [Ring!Next]_Ring!vars
<1>1. UNCHANGED Ring!consumer
  BY WriterIdle
  DEF Block, Start, WorkStep, WorkState, WorkLoad, WorkCopy, WorkPublish, StopStep, StopPayload,
      StopStore, StopWait, StopVerdict, StopTerminate, Work, StopFlowgraph, shared, worker, drain
<1>2. CASE UNCHANGED <<ring, writePos, take, filled, accepted>>
  BY <1>1, <1>2 DEF Ring!vars, Ring!producer
<1>3. CASE Start \/ StopFlowgraph \/ WorkState \/ StopStep \/ \E n \in 1 .. MaxInput : Work(n)
  BY <1>2, <1>3 DEF Start, StopFlowgraph, WorkState, StopStep, StopPayload, StopStore, StopWait,
                    StopVerdict, StopTerminate, Work, shared, call
<1>4. CASE WorkLoad
  <2>1. CASE Free = 0
    BY <1>2, <1>4, <2>1 DEF WorkLoad, shared
  <2>2. CASE Free # 0
    <3>1. take' \in 0 .. Free /\ take = 0 /\ filled = 0 /\ UNCHANGED <<ring, writePos, filled, accepted>>
      BY <1>4, <2>2, TakeIs, CountsInRing DEF WorkLoad, Sides, shared
    <3>2. Ring!ProducerLook
      BY <1>1, <3>1 DEF Ring!ProducerLook, Ring!Free, Ring!Used, Ring!Distance, Free, Used
    <3> QED BY <3>2 DEF Ring!Next, Ring!Producer
  <2> QED BY <2>1, <2>2
<1>5. CASE WorkCopy
  <2>1. /\ take \in 1 .. Capacity - 1 /\ filled = 0 /\ accepted + take <= Total
        /\ take <= Capacity - writePos /\ writePos \in Slot /\ accepted \in Nat
        /\ UNCHANGED <<writePos, take, accepted>> /\ filled' = take
    BY <1>5, SinkAssumption DEF WorkCopy, Types, Sides, Working, SinkAssumption
  <2>2. ASSUME NEW s \in Slot
        PROVE  /\ (s \in writePos .. writePos + take - 1) <=> Ring!Distance(writePos, s) < take
               /\ s \in writePos .. writePos + take - 1
                    => Numbers[accepted + Ring!Distance(writePos, s)] = accepted + (s - writePos)
    BY <2>1, SinkAssumption DEF Ring!Distance, Slot, Numbers, SinkAssumption
  <2>3. ring' = [s \in Slot |-> IF Ring!Distance(writePos, s) < take
                               THEN Numbers[accepted + Ring!Distance(writePos, s)] ELSE ring[s]]
    BY <1>5, <2>2 DEF WorkCopy
  <2>4. Ring!ProducerFill(take)
    BY <1>1, <2>1, <2>3 DEF Ring!ProducerFill, Ring!Slot, Slot, Numbers
  <2> QED BY <2>1, <2>4 DEF Ring!Next, Ring!Producer
<1>6. CASE WorkPublish
  <2>1. Ring!ProducerPublish
    BY <1>1, <1>6 DEF WorkPublish, Ring!ProducerPublish, Ring!Advance, Advance, Sides, Types
  <2> QED BY <2>1 DEF Ring!Next, Ring!Producer
<1> QED BY <1>3, <1>4, <1>5, <1>6 DEF Block, WorkStep

LEMMA WorkerRing ==
  ASSUME Types, Sides, Writer \/ Page \/ Finish
  PROVE  [Ring!Next]_Ring!vars
<1>1. UNCHANGED Ring!producer /\ (~Copy => UNCHANGED ring)
  BY DEF Writer, Page, Boot, Open, LoadState, Look, Wake, Copy, Release, Write, FinishDownload,
         FinishData, FinishMeta, Close, TellFailure, Fail, Finish, ServeMessage, ServeTerminate,
         shared, block, call, Ring!producer
<1>2. CASE UNCHANGED <<ring, readPos, avail, taken, drained>> /\ (taken # 0 => chunk' = chunk)
  BY <1>1, <1>2, WriterIdle DEF Ring!vars
<1>3. CASE \/ Boot \/ Open \/ LoadState \/ Wake \/ Write \/ FinishDownload \/ FinishData \/ FinishMeta
           \/ Close \/ TellFailure \/ Finish \/ Page
  BY <1>2, <1>3 DEF Page, Boot, Open, LoadState, Wake, Write, FinishDownload, FinishData, FinishMeta,
                    Close, TellFailure, Fail, Finish, ServeMessage, ServeTerminate, shared, worker,
                    drain, Sides
<1>4. CASE Look
  <2>1. /\ avail = 0 /\ taken = 0 /\ avail' = Used /\ Used \in 0 .. Capacity - 1
        /\ UNCHANGED <<ring, readPos, taken, drained>>
    BY <1>4, CountsInRing DEF Look, Sides, shared
  <2>2. Ring!ConsumerLook
    BY <1>1, <2>1 DEF Ring!ConsumerLook, Ring!Used, Ring!Distance, Used
  <2> QED BY <2>2 DEF Ring!Next, Ring!Consumer
<1>5. CASE Copy
  <2>1. /\ Portion \in 1 .. avail /\ readPos + Portion <= Capacity /\ taken' = Portion
        /\ \A i \in 1 .. Portion : chunk'[i] = ring[readPos + i - 1]
    BY <1>5, ChunkIs
  <2>2. /\ Portion \in Nat /\ Portion \in 1 .. Capacity - 1 /\ readPos \in Nat /\ taken = 0
        /\ UNCHANGED <<ring, readPos, avail, drained>>
    BY <1>5, <2>1, SinkAssumption DEF Copy, Types, Sides, Slot, shared, SinkAssumption
  <2>3. ASSUME NEW k \in 0 .. Portion - 1 PROVE chunk'[k + 1] = ring[readPos + k]
    <3>1. k + 1 \in 1 .. Portion /\ readPos + (k + 1) - 1 = readPos + k
      BY <2>2
    <3> QED BY <2>1, <3>1
  <2>4. Hand' = [k \in 0 .. Portion - 1 |-> ring[readPos + k]]
    <3>1. Portion # 0
      BY <2>2
    <3> QED BY <2>1, <2>3, <3>1 DEF Hand
  <2>5. PICK n \in 1 .. Capacity - 1 : n = Portion
    BY <2>2
  <2>6. Ring!ConsumerCopy(n)
    BY <1>1, <1>5, <2>1, <2>2, <2>4, <2>5 DEF Ring!ConsumerCopy, Hand
  <2> QED BY <2>6 DEF Ring!Next, Ring!Consumer
<1>6. CASE Release
  <2>1. /\ taken \in Nat /\ taken >= 1 /\ Len(chunk) = taken /\ taken' = 0 /\ avail' = 0
        /\ readPos' = Advance(readPos, taken) /\ drained' = drained \o chunk /\ UNCHANGED ring
    BY <1>6 DEF Release, Types, Sides
  <2>2. /\ drained \in Seq(Content) /\ chunk \in Seq(Content)
        /\ Len(drained) \in Nat /\ Len(drained') = Len(drained) + taken
        /\ \A i \in 1 .. Len(drained) + taken :
              drained'[i] = IF i <= Len(drained) THEN drained[i] ELSE chunk[i - Len(drained)]
    BY <2>1, ConcatProperties, LenProperties DEF Types
  <2>3. ASSUME NEW i \in 0 .. Len(drained) + taken - 1
        PROVE  drained'[i + 1] = IF i < Len(drained) THEN Out[i] ELSE Hand[i - Len(drained)]
    <3>1. i + 1 \in 1 .. Len(drained) + taken
      BY <2>1, <2>2
    <3>2. CASE i < Len(drained)
      <4>1. i + 1 <= Len(drained) /\ i \in 0 .. Len(drained) - 1
        BY <2>2, <3>2
      <4> QED BY <2>2, <3>1, <3>2, <4>1 DEF Out
    <3>3. CASE ~(i < Len(drained))
      <4>1. /\ ~(i + 1 <= Len(drained)) /\ i - Len(drained) \in 0 .. taken - 1
            /\ (i - Len(drained)) + 1 = (i + 1) - Len(drained)
        BY <2>1, <2>2, <3>3
      <4>2. drained'[i + 1] = chunk[(i + 1) - Len(drained)]
        BY <2>2, <3>1, <4>1
      <4> QED BY <2>1, <3>3, <4>1, <4>2 DEF Hand
    <3> QED BY <3>2, <3>3
  <2>4. Out' = [i \in 0 .. Len(drained) + taken - 1 |->
                 IF i < Len(drained) THEN Out[i] ELSE Hand[i - Len(drained)]]
    <3>1. Len(drained') - 1 = Len(drained) + taken - 1
      BY <2>1, <2>2
    <3>2. Out' = [i \in 0 .. Len(drained') - 1 |-> drained'[i + 1]]
      BY DEF Out
    <3> HIDE DEF Out, Hand
    <3> QED BY <2>3, <3>1, <3>2
  <2>5. Ring!ConsumerRelease
    BY <1>1, <2>1, <2>2, <2>4
    DEF Ring!ConsumerRelease, Ring!Advance, Ring!Nothing, Advance, Out, Hand
  <2> QED BY <2>5 DEF Ring!Next, Ring!Consumer
<1> QED BY <1>3, <1>4, <1>5, <1>6 DEF Writer

LEMMA NextRing ==
  ASSUME Types, Sides, [Next]_vars
  PROVE  [Ring!Next]_Ring!vars
<1>1. CASE UNCHANGED vars
  BY <1>1, WriterIdle DEF vars, shared, block, call, worker, drain, Ring!vars, Ring!producer
<1> QED BY <1>1, BlockRing, WorkerRing DEF Next, Over

\* Block and writer implement the ring, the block as its producer: what each side
\* counted before the other moved is never more than there is (work() and run()).
THEOREM ImplementsRing == Spec => RingSpec
  BY InitRing, NextRing, SidesHold, PTL DEF Spec, RingSpec, Ring!Spec

-----------------------------------------------------------------------------
(* What is proved of the ring holds of block and writer.                     *)

RingProofs == INSTANCE SpscRing_proofs WITH
                Stream <- Numbers,
                NoItem <- None,
                budget <- take,
                hand <- Hand,
                sent <- accepted,
                received <- Len(drained),
                out <- Out

LEMMA SameRing ==
  /\ Ring!Init => RingProofs!Init
  /\ [Ring!Next]_Ring!vars => [RingProofs!Next]_RingProofs!vars
<1>1. Ring!Init => RingProofs!Init
  BY DEF Ring!Init, RingProofs!Init, Ring!Slot, RingProofs!Slot, Ring!Nothing, RingProofs!Nothing,
         Hand, Out
<1>2. /\ Ring!ProducerLook => RingProofs!ProducerLook
      /\ Ring!ProducerPublish => RingProofs!ProducerPublish
      /\ \A n \in 1 .. Capacity - 1 : Ring!ProducerFill(n) => RingProofs!ProducerFill(n)
  BY DEF Ring!ProducerLook, RingProofs!ProducerLook, Ring!ProducerPublish,
         RingProofs!ProducerPublish, Ring!ProducerFill, RingProofs!ProducerFill, Ring!Free,
         RingProofs!Free, Ring!Used, RingProofs!Used, Ring!Distance, RingProofs!Distance,
         Ring!Advance, RingProofs!Advance, Ring!consumer, RingProofs!consumer, Ring!Slot,
         RingProofs!Slot, Hand, Out, Numbers
<1>3. /\ Ring!ConsumerLook => RingProofs!ConsumerLook
      /\ Ring!ConsumerRelease => RingProofs!ConsumerRelease
      /\ \A n \in 1 .. Capacity - 1 : Ring!ConsumerCopy(n) => RingProofs!ConsumerCopy(n)
  BY DEF Ring!ConsumerLook, RingProofs!ConsumerLook, Ring!ConsumerRelease,
         RingProofs!ConsumerRelease, Ring!ConsumerCopy, RingProofs!ConsumerCopy, Ring!Used,
         RingProofs!Used, Ring!Distance, RingProofs!Distance, Ring!Advance, RingProofs!Advance,
         Ring!Nothing, RingProofs!Nothing, Ring!producer, RingProofs!producer, Hand, Out
<1>4. UNCHANGED Ring!vars => UNCHANGED RingProofs!vars
  BY DEF Ring!vars, RingProofs!vars, Ring!producer, RingProofs!producer, Ring!consumer,
         RingProofs!consumer, Hand, Out
<1> QED BY <1>1, <1>2, <1>3, <1>4
        DEF Ring!Next, RingProofs!Next, Ring!Producer, RingProofs!Producer, Ring!Consumer,
            RingProofs!Consumer

\* The ring's invariant holds of block and writer: what is between the positions is
\* what was accepted and not drained, and every copy holds the items it stands for.
THEOREM RingHolds == Spec => []RingProofs!RingInv
<1>1. RingSpec => RingProofs!Spec
  BY SameRing, PTL DEF RingSpec, Ring!Spec, RingProofs!Spec
<1>2. RingProofs!Spec => []RingProofs!RingInv
  BY SinkAssumption, RingProofs!RingInvariant
<1> QED BY <1>1, <1>2, ImplementsRing, PTL

\* The items released are the first ones accepted, and the rest is in the ring.
LEMMA RingSays ==
  ASSUME Types, RingProofs!RingInv
  PROVE  /\ drained = Prefix(Len(drained)) /\ Len(drained) \in Nat
         /\ accepted - Len(drained) = Used
<1>1. Len(drained) \in 0 .. accepted /\ accepted \in 0 .. Total
  BY SinkAssumption
  DEF RingProofs!RingInv, RingProofs!TypeOK, SinkAssumption
<1>2. accepted - Len(drained) = Used
  BY DEF RingProofs!RingInv, RingProofs!CountsAreSafe, RingProofs!Used, RingProofs!Distance, Used
<1>3. ASSUME NEW i \in 1 .. Len(drained) PROVE drained[i] = i - 1
  <2>1. i - 1 \in 0 .. Len(drained) - 1 /\ i - 1 \in 0 .. Total - 1 /\ (i - 1) + 1 = i
    BY <1>1, SinkAssumption DEF SinkAssumption
  <2>2. Out[i - 1] = Numbers[i - 1]
    BY <2>1 DEF RingProofs!RingInv, RingProofs!ItemsInOrder
  <2> QED BY <2>1, <2>2 DEF Out, Numbers
<1>4. drained \in Seq(Content) /\ Len(drained) \in Nat
  BY <1>1 DEF Types
<1>5. drained = [i \in 1 .. Len(drained) |-> drained[i]]
  BY <1>4
<1>6. drained = Prefix(Len(drained))
  BY <1>3, <1>5 DEF Prefix
<1> QED BY <1>1, <1>2, <1>6

-----------------------------------------------------------------------------
(* The file and the promises about it.                                       *)

\* The block's accounts.  An error ends the worker before work() can throw it,
\* and only stop() tells the worker to finish.
Books ==
  /\ accepted \in Nat /\ itemsWritten \in Nat /\ consumed \in Nat /\ filled \in Nat
  /\ wpc = "new" => kpc = "none" /\ ~registered /\ ~thrown /\ state = "INITIAL"
  /\ state = "ERROR" \/ thrown => Dead
  /\ Working => accepted + filled = itemsWritten + consumed
  /\ ~Working => filled = 0 /\ (~thrown => accepted = itemsWritten)
  /\ state \in {"FINISHING", "CLOSED"} \/ seen = "FINISHING" \/ Ending => Stopped
  /\ finishRequested \/ posted # None => posted = itemsWritten /\ (Stopped \/ wpc = "finish")

\* What is released is in the file, but for the chunk being written.
Files ==
  /\ FileInOrder
  /\ kpc = "write" => drained = file \o chunk
  /\ kpc \notin {"write", "failing", "gone"} => drained = file

Whole == file = Prefix(accepted) /\ accepted = itemsWritten /\ posted = itemsWritten
Saved == savedData = Prefix(accepted) /\ savedMeta = itemsWritten
Task == {"done", "error", "terminate"}
Announced == \E i \in 1 .. Len(tasks) : tasks[i] = "done"
Parting == kpc \in {"close", "gone"}

\* The worker comes to an end with the whole file, which the reader then has, or
\* will have once the page serves "done".
Savings ==
  /\ tasks \in Seq(Task)
  /\ Ending => Whole /\ Stopped /\ finishRequested
  /\ state = "CLOSED" => Whole /\ Stopped /\ kpc = "gone"
  /\ Announced => Whole /\ Stopped /\ Parting
  /\ kpc = "meta" => savedData = file
  /\ savedMeta # None => Saved /\ Whole /\ Stopped /\ Parting
  /\ kpc = "close" \/ state = "CLOSED" => Saved \/ (Mode = "download" /\ Announced)

\* Without a report the wait ended because STATE was CLOSED.
Silence ==
  /\ wpc \in {"terminate", "stopped"} /\ ~thrown /\ reports = {} => state = "CLOSED"
  /\ wpc = "verdict" /\ reports = {} => state \in {"CLOSED", "ERROR"}

LEMMA InitFiles == Init => Books /\ Files /\ Savings /\ Silence
<1> SUFFICES ASSUME Init PROVE Books /\ Files /\ Savings /\ Silence
  OBVIOUS
<1>1. Len(file) = 0 /\ file = <<>> /\ drained = <<>> /\ Len(tasks) = 0
  BY DEF Init
<1>2. Prefix(0) = <<>>
  BY DEF Prefix
<1>3. Books /\ Silence
  BY DEF Init, Books, Silence, Working, Stopped, Dead, Ending
<1>4. Files
  BY <1>1, <1>2 DEF Init, Files, FileInOrder
<1>5. Savings
  BY <1>1 DEF Init, Savings, Announced, Ending
<1> QED BY <1>3, <1>4, <1>5

LEMMA BooksStep ==
  ASSUME Types, Sides, Books, [Next]_vars, Ending' => Stopped'
  PROVE  Books'
<1> USE DEF Types, Sides, Books, Working, Stopped, Dead
<1>1. CASE Start
  BY <1>1 DEF Start, call, drain, ended, Ending
<1>2. CASE StopFlowgraph \/ UNCHANGED vars
  BY <1>2 DEF StopFlowgraph, vars, shared, call, block, worker, drain, page, ended, Ending
<1>3. ASSUME NEW n \in 1 .. MaxInput, Work(n) PROVE Books'
  BY <1>3 DEF Work, shared, worker, drain, page, ended, Ending
<1>4. CASE WorkState
  BY <1>4 DEF WorkState, shared, call, worker, drain, page, ended, Ending
<1>5. CASE WorkLoad
  BY <1>5 DEF WorkLoad, shared, worker, drain, page, ended, Ending
<1>6. CASE WorkCopy
  BY <1>6 DEF WorkCopy, worker, drain, page, ended, Ending
<1>7. CASE WorkPublish
  BY <1>7 DEF WorkPublish, Counted, worker, drain, page, ended, Ending
<1>8. CASE StopStep
  <2>1. CASE StopPayload
    BY <2>1 DEF StopPayload, shared, call, worker, drain, page, ended, Ending
  <2>2. CASE StopStore
    BY <2>2 DEF StopStore, shared, call, worker, drain, page, ended, Ending
  <2>3. CASE StopWait \/ StopVerdict
    BY <2>3 DEF StopWait, StopVerdict, shared, call, worker, drain, page, ended, Ending
  <2>4. CASE StopTerminate
    BY <2>4 DEF StopTerminate, shared, call, worker, drain, page, ended, Ending
  <2> QED BY <1>8, <2>1, <2>2, <2>3, <2>4 DEF StopStep
<1>9. CASE Writer
  <2>1. CASE Boot
    BY <2>1 DEF Boot, shared, block, call, ended, drain, page, Ending
  <2>2. CASE Open
    BY <2>2 DEF Open, Fail, shared, block, call, ended, drain, page, Ending
  <2>3. CASE LoadState
    BY <2>3 DEF LoadState, shared, block, call, ended, drain, page, Ending
  <2>4. CASE Wake
    BY <2>4 DEF Wake, shared, block, call, ended, drain, page, Ending
  <2>5. CASE Copy
    BY <2>5 DEF Copy, shared, block, call, ended, drain, page, Ending
  <2>6. CASE Release
    BY <2>6 DEF Release, shared, block, call, ended, drain, page, Ending
  <2>7. CASE Look
    BY <2>7 DEF Look, AfterLook, shared, block, call, ended, drain, page, Ending
  <2>8. CASE Write
    <3>1. /\ UNCHANGED <<block, seen, finishRequested, page>> /\ kpc = "write"
          /\ \/ kpc' = "head" /\ state' = state
             \/ kpc' = "failing" /\ state' = "ERROR"
      BY <2>8 DEF Write, Fail, shared, drain
    <3> QED BY <3>1 DEF block, call, ended, page, Ending
  <2>9. CASE FinishDownload
    BY <2>9 DEF FinishDownload, shared, block, call, ended, drain, page, Ending
  <2>10. CASE FinishData
    BY <2>10 DEF FinishData, Fail, shared, block, call, ended, drain, page, Ending
  <2>11. CASE FinishMeta
    BY <2>11 DEF FinishMeta, Fail, shared, block, call, ended, drain, page, Ending
  <2>12. CASE Close
    BY <2>12 DEF Close, shared, block, call, ended, drain, page, Ending
  <2>13. CASE TellFailure
    BY <2>13 DEF TellFailure, shared, block, call, ended, drain, page, Ending
  <2> QED BY <1>9, <2>1, <2>2, <2>3, <2>4, <2>5, <2>6, <2>7, <2>8, <2>9, <2>10, <2>11, <2>12, <2>13 DEF Writer
<1>10. CASE Finish
  BY <1>10 DEF Finish, shared, block, call, ended, drain, page, Ending
<1>11. CASE ServeMessage
  BY <1>11 DEF ServeMessage, shared, block, call, ended, worker, drain, Ending
<1>12. CASE ServeTerminate
  BY <1>12 DEF ServeTerminate, shared, block, call, ended, drain, Ending
<1> QED BY <1>1, <1>2, <1>3, <1>4, <1>5, <1>6, <1>7, <1>8, <1>9, <1>10, <1>11, <1>12
        DEF Next, Block, WorkStep, Page, Over

LEMMA FilesStep ==
  ASSUME Types, Sides, Books, Files, RingProofs!RingInv, [Next]_vars
  PROVE  Files'
<1>1. ASSUME UNCHANGED <<file, drained, kpc, chunk>> PROVE Files'
  BY <1>1 DEF Files, FileInOrder
<1>2. ASSUME UNCHANGED <<file, drained>>, kpc' # "write",
             kpc' \in {"failing", "gone"} \/ kpc \notin {"write", "failing", "gone"}
      PROVE  Files'
  BY <1>2 DEF Files, FileInOrder
<1>3. CASE StopFlowgraph \/ (\E n \in 1 .. MaxInput : Work(n)) \/ WorkStep \/ StopStep \/ Finish
           \/ ServeMessage \/ UNCHANGED vars
  BY <1>1, <1>3
  DEF StopFlowgraph, Work, WorkStep, WorkState, WorkLoad, WorkCopy, WorkPublish, StopStep,
      StopPayload, StopStore, StopWait, StopVerdict, StopTerminate, Finish, ServeMessage, vars,
      worker, drain
<1>4. CASE Start
  BY <1>2, <1>4 DEF Start, drain, Books
<1>5. CASE ServeTerminate
  BY <1>1, <1>2, <1>5 DEF ServeTerminate, drain
<1>6. CASE Boot \/ Open \/ LoadState \/ Wake
  BY <1>2, <1>6 DEF Boot, Open, Fail, LoadState, Wake, drain
<1>7. CASE Look \/ Copy
  BY <1>2, <1>7 DEF Look, AfterLook, Copy
<1>8. CASE Release
  BY <1>8 DEF Release, Files, FileInOrder
<1>9. CASE Write
  <2>1. CASE kpc' = "head" /\ file' = file \o chunk /\ drained' = drained /\ kpc = "write"
    <3>1. file' = drained
      BY <2>1 DEF Files
    <3>2. FileInOrder'
      BY <3>1, RingSays DEF FileInOrder
    <3> QED BY <2>1, <3>1, <3>2 DEF Files
  <2>2. CASE kpc' = "failing" /\ UNCHANGED <<file, drained>>
    BY <1>2, <2>2
  <2> QED BY <1>9, <2>1, <2>2 DEF Write, Fail, drain
<1>10. CASE FinishDownload \/ FinishData \/ FinishMeta \/ Close \/ TellFailure
  BY <1>2, <1>10 DEF FinishDownload, FinishData, FinishMeta, Close, TellFailure, Fail, drain
<1> QED BY <1>3, <1>4, <1>5, <1>6, <1>7, <1>8, <1>9, <1>10 DEF Next, Block, Writer, Page, Over

\* The page's queue.
LEMMA TaskAdded ==
  ASSUME tasks \in Seq(Task), NEW task \in Task, tasks' = Append(tasks, task)
  PROVE  tasks' \in Seq(Task) /\ (Announced' <=> Announced \/ task = "done")
<1>1. Len(tasks) \in Nat
  BY LenProperties
<1>2. tasks' \in Seq(Task) /\ Len(tasks') = Len(tasks) + 1
  BY AppendProperties
<1>3. \A i \in 1 .. Len(tasks) : tasks'[i] = tasks[i]
  BY AppendProperties
<1>4. tasks'[Len(tasks) + 1] = task
  BY AppendProperties
<1> QED BY <1>1, <1>2, <1>3, <1>4 DEF Announced

LEMMA TaskServed ==
  ASSUME tasks \in Seq(Task), tasks # <<>>, tasks' = Tail(tasks)
  PROVE  /\ tasks' \in Seq(Task)
         /\ Announced <=> Announced' \/ Head(tasks) = "done"
<1>1. Len(tasks) \in Nat /\ Len(tasks) >= 1
  BY LenProperties, EmptySeq
<1>2. tasks' \in Seq(Task) /\ Len(tasks') = Len(tasks) - 1 /\ Head(tasks) = tasks[1]
  BY <1>1, HeadTailProperties
<1>3. \A i \in 1 .. Len(tasks) - 1 : tasks'[i] = tasks[i + 1]
  BY <1>1, HeadTailProperties
<1>4. Announced => Announced' \/ Head(tasks) = "done"
  <2> SUFFICES ASSUME NEW i \in 1 .. Len(tasks), tasks[i] = "done", i # 1 PROVE Announced'
    BY <1>2 DEF Announced
  <2>1. i - 1 \in 1 .. Len(tasks) - 1 /\ (i - 1) + 1 = i
    BY <1>1
  <2> QED BY <1>2, <1>3, <2>1 DEF Announced
<1>5. Announced' => Announced
  <2> SUFFICES ASSUME NEW i \in 1 .. Len(tasks) - 1, tasks'[i] = "done" PROVE Announced
    BY <1>2 DEF Announced
  <2>1. i + 1 \in 1 .. Len(tasks)
    BY <1>1
  <2> QED BY <1>3, <2>1 DEF Announced
<1>6. Head(tasks) = "done" => Announced
  BY <1>1, <1>2 DEF Announced
<1> QED BY <1>2, <1>4, <1>5, <1>6

\* Once the worker is told to finish the accounts do not change any more.
LEMMA SettledStep ==
  ASSUME Books, Stopped, [Next]_vars
  PROVE  Stopped' /\ UNCHANGED <<accepted, itemsWritten, posted>>
<1> USE DEF Stopped
<1>1. CASE Start \/ WorkStep
  BY <1>1 DEF Start, WorkStep, WorkState, WorkLoad, WorkCopy, WorkPublish
<1>2. CASE StopStep
  BY <1>2 DEF StopStep, StopPayload, StopStore, StopWait, StopVerdict, StopTerminate, page
<1>3. CASE Writer
  BY <1>3 DEF Writer, Boot, Open, LoadState, Look, Wake, Copy, Release, Write, FinishDownload,
              FinishData, FinishMeta, Close, TellFailure, Fail, block, page
<1>4. CASE Page \/ Finish \/ StopFlowgraph \/ (\E n \in 1 .. MaxInput : Work(n)) \/ UNCHANGED vars
  BY <1>4 DEF Page, ServeMessage, ServeTerminate, Finish, StopFlowgraph, Work, block, page, vars
<1> QED BY <1>1, <1>2, <1>3, <1>4 DEF Next, Block, Over

LEMMA SavingsStep ==
  ASSUME Types, Sides, Books, Files, Savings, RingProofs!RingInv, [Next]_vars
  PROVE  Savings'
<1>1. ASSUME Stopped, Whole, UNCHANGED file PROVE Whole' /\ Stopped'
  BY <1>1, SettledStep DEF Whole
<1>2. ASSUME Stopped, Saved, UNCHANGED saved PROVE Saved'
  BY <1>2, SettledStep DEF Saved, saved
<1>3. Stopped => Stopped'
  BY SettledStep
<1> HIDE DEF Whole, Saved, Stopped, Announced
\* The worker's end has not begun, or does not come nearer.
<1>4. ASSUME ~Parting, ~Ending', state' # "CLOSED", UNCHANGED savedMeta, ~Announced',
             tasks' \in Seq(Task)
      PROVE  Savings'
  BY <1>4 DEF Savings, Ending
<1>5. ASSUME UNCHANGED <<state, kpc, tasks, file, saved, finishRequested, kind>> PROVE Savings'
  <2>1. Announced' <=> Announced
    BY <1>5 DEF Announced
  <2> QED BY <1>1, <1>2, <1>5, <2>1 DEF Savings, Books, Ending, Parting, Mode, saved
<1>6. UNCHANGED tasks => (Announced' <=> Announced) /\ tasks' \in Seq(Task)
  BY DEF Announced, Savings
<1>7. CASE Start
  BY <1>4, <1>6, <1>7 DEF Start, Books, Savings, Parting, Ending, Stopped, saved
<1>8. CASE \/ StopFlowgraph \/ (\E n \in 1 .. MaxInput : Work(n)) \/ UNCHANGED vars
           \/ ((WorkStep \/ StopPayload \/ StopWait \/ StopVerdict) /\ UNCHANGED kind)
  BY <1>5, <1>8
  DEF StopFlowgraph, Work, WorkStep, WorkState, WorkLoad, WorkCopy, WorkPublish, StopPayload,
      StopWait, StopVerdict, vars, shared, worker, drain, page
<1>9. CASE StopStore
  BY <1>4, <1>5, <1>6, <1>9
  DEF StopStore, Books, Savings, Parting, Ending, Stopped, worker, drain, page, saved
<1>10. CASE StopTerminate /\ UNCHANGED kind
  <2>1. UNCHANGED <<state, kpc, file, saved, finishRequested, kind>>
    BY <1>10 DEF StopTerminate, shared, worker, drain
  <2>2. (Announced' <=> Announced) /\ tasks' \in Seq(Task)
    BY <1>6, <1>10, TaskAdded DEF StopTerminate, Savings, Task
  <2> QED BY <1>1, <1>2, <2>1, <2>2 DEF Savings, Books, Ending, Parting, Mode, saved
<1>11. CASE Boot \/ TellFailure
  <2>1. (Announced' <=> Announced) /\ tasks' \in Seq(Task)
    BY <1>6, <1>11, TaskAdded DEF Boot, TellFailure, Savings, Task
  <2> QED BY <1>4, <1>11, <2>1 DEF Boot, TellFailure, Savings, Parting, Ending, saved, shared
<1>12. CASE Open \/ LoadState \/ Wake \/ Copy \/ Release \/ Write
  <2>1. /\ UNCHANGED <<tasks, savedMeta>> /\ ~Parting /\ ~Ending'
        /\ (state' = state \/ state' # "CLOSED")
    BY <1>12 DEF Open, LoadState, Wake, Copy, Release, Write, Fail, Parting, Ending, page, saved, shared
  <2> QED BY <1>4, <1>6, <2>1 DEF Savings, Parting
<1>13. CASE Look
  <2>1. UNCHANGED <<state, block, file, finishRequested, page>> /\ kpc = "look"
    BY <1>13 DEF Look, shared
  <2>2. CASE kpc' = "finish"
    <3>1. Used = 0 /\ seen = "FINISHING" /\ finishRequested
      BY <1>13, <2>2, CountsInRing DEF Look, AfterLook
    <3>2. Stopped /\ ~thrown /\ posted = itemsWritten
      BY <2>1, <3>1 DEF Books, Dead
    <3>3. accepted = itemsWritten
      BY <3>2 DEF Books, Stopped, Working
    <3>4. file = Prefix(accepted)
      <4>1. drained = file /\ Len(drained) = accepted
        BY <2>1, <3>1, RingSays DEF Files, Types
      <4> QED BY <4>1, RingSays
    <3>5. Whole' /\ Stopped'
      BY <1>1, <2>1, <3>2, <3>3, <3>4 DEF Whole
    <3> QED BY <1>6, <2>1, <2>2, <3>1, <3>5 DEF Savings, Parting, Ending, page, saved
  <2>3. CASE kpc' # "finish"
    <3>1. ~Ending'
      BY <1>13, <2>3 DEF Look, AfterLook, Ending
    <3> QED BY <1>4, <1>6, <2>1, <3>1 DEF Savings, Parting, page, saved
  <2> QED BY <2>2, <2>3
<1>14. CASE FinishDownload /\ UNCHANGED kind
  <2>1. /\ Announced' /\ tasks' \in Seq(Task)
    BY <1>14, TaskAdded DEF FinishDownload, Savings, Task
  <2>2. /\ UNCHANGED <<state, file, finishRequested, saved>> /\ kpc = "finish" /\ kpc' = "close"
        /\ Mode = "download"
    BY <1>14 DEF FinishDownload, shared, drain
  <2>3. Whole' /\ Stopped' /\ finishRequested'
    BY <1>1, <2>2 DEF Savings, Books, Ending
  <2>4. Mode' = "download"
    BY <1>14, <2>2 DEF Mode
  <2> QED BY <2>1, <2>2, <2>3, <2>4 DEF Savings, Parting, Ending, saved
<1>15. CASE FinishData
  <2>1. CASE Fail("close")
    BY <1>4, <1>6, <1>15, <2>1 DEF FinishData, Fail, Savings, Parting, Ending, page, saved
  <2>2. CASE kpc' = "meta" /\ savedData' = file /\ UNCHANGED <<state, file, finishRequested, tasks, savedMeta>>
    <3>1. kpc = "finish"
      BY <1>15 DEF FinishData
    <3>2. Whole' /\ Stopped'
      BY <1>1, <2>2, <3>1 DEF Savings, Books, Ending
    <3> QED BY <1>6, <2>2, <3>1, <3>2 DEF Savings, Parting, Ending
  <2> QED BY <1>15, <2>1, <2>2 DEF FinishData, shared, drain
<1>16. CASE FinishMeta
  <2>1. CASE Fail("meta")
    BY <1>4, <1>6, <1>16, <2>1 DEF FinishMeta, Fail, Savings, Parting, Ending, page, saved
  <2>2. CASE /\ kpc' = "close" /\ savedMeta' = posted /\ tasks' = Append(tasks, "done")
             /\ UNCHANGED <<state, file, finishRequested, savedData>>
    <3>1. kpc = "meta" /\ Whole /\ Stopped /\ finishRequested /\ savedData = file
      BY <1>16 DEF FinishMeta, Savings, Books, Ending
    <3>2. Whole' /\ Stopped'
      BY <1>1, <2>2, <3>1
    <3>3. Saved'
      BY <2>2, <3>1, SettledStep DEF Saved, Whole
    <3>4. tasks' \in Seq(Task)
      BY <2>2, TaskAdded DEF Savings, Task
    <3> QED BY <2>2, <3>1, <3>2, <3>3, <3>4 DEF Savings, Parting, Ending
  <2> QED BY <1>16, <2>1, <2>2 DEF FinishMeta, shared, drain
<1>17. CASE Close /\ UNCHANGED kind
  <2>1. /\ UNCHANGED <<file, finishRequested, tasks, saved, kind>> /\ kpc = "close" /\ kpc' = "gone"
        /\ state' = "CLOSED"
    BY <1>17 DEF Close, drain, page
  <2>2. Whole' /\ Stopped' /\ Stopped
    BY <1>1, <2>1 DEF Savings, Books, Ending
  <2> QED BY <1>2, <1>6, <2>1, <2>2 DEF Savings, Parting, Ending, Mode, saved
<1>18. CASE Finish
  <2>1. UNCHANGED <<state, kpc, tasks, file, saved, kind>> /\ finishRequested'
    BY <1>18 DEF Finish, shared, drain, page
  <2> QED BY <1>1, <1>2, <1>6, <2>1 DEF Savings, Books, Ending, Parting, Mode, saved
<1>19. CASE ServeMessage /\ UNCHANGED kind
  <2>1. UNCHANGED <<state, kpc, file, finishRequested, kind>>
    BY <1>19 DEF ServeMessage, shared, worker, drain
  <2>2. tasks' \in Seq(Task) /\ (Announced <=> Announced' \/ Head(tasks) = "done")
    BY <1>19, TaskServed DEF ServeMessage, Savings
  <2>3. CASE Head(tasks) = "done" /\ Mode = "download"
    <3>1. savedData' = file /\ savedMeta' = posted
      BY <1>19, <2>3 DEF ServeMessage
    <3>2. Whole /\ Stopped /\ Parting
      BY <2>2, <2>3 DEF Savings
    <3>3. Whole' /\ Stopped' /\ Saved'
      BY <1>1, <2>1, <3>1, <3>2, SettledStep DEF Saved, Whole
    <3> QED BY <2>1, <2>2, <3>2, <3>3 DEF Savings, Ending, Parting
  <2>4. CASE ~(Head(tasks) = "done" /\ Mode = "download")
    <3>1. UNCHANGED saved
      BY <1>19, <2>4 DEF ServeMessage
    <3> QED BY <1>1, <1>2, <2>1, <2>2, <2>4, <3>1 DEF Savings, Books, Ending, Parting, Mode, saved
  <2> QED BY <2>3, <2>4
<1>20. CASE ServeTerminate /\ UNCHANGED kind
  <2>1. UNCHANGED <<state, file, finishRequested, saved, kind>> /\ kpc' \in {kpc, "gone"}
    BY <1>20 DEF ServeTerminate, shared, drain
  <2>2. tasks' \in Seq(Task) /\ (Announced <=> Announced')
    BY <1>20, TaskServed DEF ServeTerminate, Savings
  <2> QED BY <1>1, <1>2, <2>1, <2>2 DEF Savings, Books, Ending, Parting, Mode, saved
<1> QED BY <1>7, <1>8, <1>9, <1>10, <1>11, <1>12, <1>13, <1>14, <1>15, <1>16, <1>17, <1>18, <1>19, <1>20
        DEF Next, Block, StopStep, Writer, Page, Over

LEMMA SilenceStep ==
  ASSUME Books, Savings, Silence, [Next]_vars
  PROVE  Silence'
<1> USE DEF Books, Silence, Dead
<1>1. CASE Start
  BY <1>1 DEF Start
<1>2. CASE WorkStep
  BY <1>2 DEF WorkStep, WorkState, WorkLoad, WorkCopy, WorkPublish, ended
<1>3. CASE StopStep
  BY <1>3 DEF StopStep, StopPayload, StopStore, StopWait, StopVerdict, StopTerminate, DeadlinePasses,
              shared, ended
<1>4. CASE Page \/ Finish \/ StopFlowgraph \/ (\E n \in 1 .. MaxInput : Work(n)) \/ UNCHANGED vars
  BY <1>4 DEF Page, ServeMessage, ServeTerminate, Finish, StopFlowgraph, Work, block, shared, ended,
              vars
<1>5. CASE Writer
  <2>1. UNCHANGED block
    BY <1>5 DEF Writer, Boot, Open, LoadState, Look, Wake, Copy, Release, Write, FinishDownload,
                FinishData, FinishMeta, Close, TellFailure, Fail
  <2>2. UNCHANGED state \/ state' = "CLOSED" \/ (kpc \notin {"none", "failing", "gone"})
    BY <1>5 DEF Writer, Boot, Open, LoadState, Look, Wake, Copy, Release, Write, FinishDownload,
                FinishData, FinishMeta, Close, TellFailure, Fail, shared
  <2> QED BY <2>1, <2>2 DEF block, ended, Savings
<1> QED BY <1>1, <1>2, <1>3, <1>4, <1>5 DEF Next, Block, Over

\* Why the promises hold: the invariant of the accounts, the file and the reports.
THEOREM FilesHold == Spec => [](Books /\ Files /\ Savings /\ Silence)
<1> DEFINE Inv == Books /\ Files /\ Savings /\ Silence
<1>1. Types /\ Sides /\ RingProofs!RingInv /\ Inv /\ [Next]_vars => Inv'
  <2> SUFFICES ASSUME Types, Sides, RingProofs!RingInv, Inv, [Next]_vars PROVE Inv'
    OBVIOUS
  <2>1. Savings' /\ Files' /\ Silence'
    BY SavingsStep, FilesStep, SilenceStep
  <2>2. Books'
    BY <2>1, BooksStep DEF Savings
  <2> QED BY <2>1, <2>2
<1>2. Init => Inv
  BY InitFiles
<1> HIDE DEF Inv
<1>3. Spec => []Inv
  BY <1>1, <1>2, SidesHold, RingHolds, PTL DEF Spec
<1> QED BY <1>3, PTL DEF Inv

\* The items reach the destination once each and in order, though READ_POS is
\* stored before the chunk is written and a write can fail (browser_file_writer.js).
THEOREM InOrder == Spec => []FileInOrder
<1>1. Files => FileInOrder
  BY DEF Files
<1> QED BY <1>1, FilesHold, PTL

\* When the worker stores CLOSED everything work() accepted is in the file: it has
\* seen FINISHING before it found the ring empty, and nothing is published after.
THEOREM ClosedMeansComplete == Spec => []ClosedIsComplete
<1>1. Savings /\ Books => ClosedIsComplete
  BY DEF Savings, Books, Whole, Prefix, ClosedIsComplete
<1> QED BY <1>1, FilesHold, PTL

\* The metadata beside a recording counts its samples: the count the block posts in
\* stop() is that of the items the worker then drains.
THEOREM MetadataMatches == Spec => []MetaMatchesData
<1>1. Savings => MetaMatchesData
  BY DEF Savings, Saved, Whole, MetaMatchesData
<1> QED BY <1>1, FilesHold, PTL

\* A stop() that logs nothing has left the reader the whole recording, on disk or
\* through the page's "done" task that is ahead of the deferred terminate.
THEOREM SilentStopSaved == Spec => []SilenceMeansSaved
<1>1. Savings /\ Silence => SilenceMeansSaved
  <2> SUFFICES ASSUME Savings, Silence, wpc = "stopped", ~thrown, reports = {}, tasks = <<>>
               PROVE  savedData = Prefix(accepted) /\ savedMeta = itemsWritten
    BY DEF SilenceMeansSaved
  <2>1. ~Announced
    BY DEF Announced
  <2> QED BY <2>1 DEF Savings, Silence, Saved
<1> QED BY <1>1, FilesHold, PTL
=============================================================================
