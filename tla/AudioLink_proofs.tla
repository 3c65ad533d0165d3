-------------------------- MODULE AudioLink_proofs --------------------------
(***************************************************************************)
(* Proofs about the Audio Sink and the Audio Source, for every ring and    *)
(* quantum, every length of a call of work() and every interleaving of the *)
(* block's thread, the page and the audio thread: frames come out in the   *)
(* order they went in, and LOST_FRAMES counts exactly those that did not   *)
(* go in.  The sides do not know each other's steps: what one has counted  *)
(* stays true because the other can only make it larger.                   *)
(***************************************************************************)
EXTENDS AudioLink, SequenceTheorems, TLAPS

Types ==
  /\ kind \in Kinds
  /\ readPos \in Slot /\ writePos \in Slot
  /\ ring = [p \in Slot |-> ring[p]]
  /\ lost \in Nat /\ tally \in Nat /\ ptally \in Nat
  /\ room \in Nat /\ pavail \in Nat /\ wanted \in Nat /\ done \in 0 .. wanted
  /\ hand \in Seq(Nat) /\ phand \in Seq(Nat)
  /\ entered \in Nat /\ kept \in Seq(Nat) /\ out \in Seq(Nat)

\* The slots from READ_POS on hold what was put in and not taken out.
Backed ==
  /\ Len(out) <= Len(kept) /\ Used = Len(kept) - Len(out)
  /\ \A i \in 1 .. Len(out) : out[i] = kept[i]
  /\ \A k \in 1 .. Used : ring[Advance(readPos, k - 1)] = kept[Len(out) + k]

\* Frames go in as they come: those copied and not published yet come later.
Pending == IF Sink THEN Len(hand) ELSE IF ppc = "publish" THEN Quantum ELSE 0
Rising ==
  /\ \A i \in 1 .. Len(kept) - 1 : kept[i] < kept[i + 1]
  /\ \A i \in 1 .. Len(kept) : kept[i] <= entered - Pending

\* Frames copied into the slots after WRITE_POS; frames copied from the ring.
Stored(fs) == \A k \in 1 .. Len(fs) : ring[Advance(writePos, k - 1)] = fs[k]
Fresh(fs, from) == \A k \in 1 .. Len(fs) : fs[k] = from + k
Oldest(fs) == Len(fs) <= Used /\ \A k \in 1 .. Len(fs) : fs[k] = kept[Len(out) + k]

SinkBlock ==
  /\ wpc # "store" => hand = <<>>
  /\ wpc = "copy" => room <= Free
  /\ wpc = "store" => Len(hand) <= Free /\ Stored(hand) /\ Fresh(hand, entered - Len(hand))
  /\ entered - Len(kept) - Len(hand) = IF wpc = "count" THEN tally ELSE lost

SinkProcessor ==
  /\ ppc \in {"none", "idle", "announce", "look", "render", "publish", "gone"}
  /\ ppc \in {"render", "publish"} => Quantum <= Used
  /\ ppc = "publish" => Len(phand) = Quantum /\ Oldest(phand)

SourceBlock ==
  /\ wpc \notin {"pace", "count"}
  /\ wpc = "copy" => room <= Used
  /\ wpc = "store" => Oldest(hand)

SourceProcessor ==
  /\ ppc \in {"overrun", "lose", "render", "publish"} => pavail <= Free
  /\ ppc \in {"overrun", "lose"} => pavail < Quantum
  /\ ppc = "lose" => ptally = lost + (Quantum - pavail)
  /\ ppc = "publish" => /\ Len(phand) <= Free /\ Len(phand) <= Quantum
                        /\ Stored(phand) /\ Fresh(phand, entered - Quantum)
  /\ ppc = "render" => entered - Len(kept) = lost - (Quantum - Kept)
  /\ ppc = "publish" => entered - Len(kept) = lost + Len(phand)
  /\ ppc \notin {"render", "publish"} => entered - Len(kept) = lost

Sides == (Sink => SinkBlock /\ SinkProcessor) /\ (~Sink => SourceBlock /\ SourceProcessor)

\* The processor is made when the device is open.
Unopened ==
  /\ wpc = "new" => opening = "none"
  /\ opening \in {"none", "pending"} => ppc = "none"

AudioInv == Types /\ Backed /\ Rising /\ Sides /\ Unopened

-----------------------------------------------------------------------------
(* The operators.                                                            *)

LEMMA Constants ==
  /\ Capacity \in Nat /\ Quantum \in Nat /\ Quantum >= 1 /\ Capacity > Quantum
  /\ MaxItems \in Nat /\ \A kd \in Kinds : kd.sink \in BOOLEAN
  BY AudioAssumption DEF AudioAssumption

LEMMA MinOfThree ==
  ASSUME NEW a \in Int, NEW b \in Int, NEW c \in Int
  PROVE  /\ Min({a, b, c}) \in {a, b, c}
         /\ Min({a, b, c}) <= a /\ Min({a, b, c}) <= b /\ Min({a, b, c}) <= c
<1>1. \E x \in {a, b, c} : \A y \in {a, b, c} : x <= y
  OBVIOUS
<1> QED BY <1>1 DEF Min

\* What is kept of a quantum that meets too little room.
LEMMA KeptIs ==
  ASSUME pavail \in Nat
  PROVE  Kept \in Nat /\ Kept <= pavail /\ Kept <= Quantum /\ Kept \in {Quantum, pavail}
<1>1. \E x \in {Quantum, pavail} : \A y \in {Quantum, pavail} : x <= y
  BY Constants
<1>2. Kept \in {Quantum, pavail} /\ \A y \in {Quantum, pavail} : Kept <= y
  BY <1>1 DEF Kept, Min
<1> QED BY <1>2, Constants

LEMMA ModuloBelow ==
  ASSUME NEW x \in Nat, x < Capacity
  PROVE  x % Capacity = x
  BY Constants

LEMMA ModuloOnce ==
  ASSUME NEW x \in Nat, x >= Capacity, x < 2 * Capacity
  PROVE  x % Capacity = x - Capacity
  BY Constants

LEMMA AdvanceIs ==
  ASSUME NEW p \in Slot, NEW n \in 0 .. Capacity - 1
  PROVE  /\ Advance(p, n) = IF p + n < Capacity THEN p + n ELSE p + n - Capacity
         /\ Advance(p, n) \in Slot
  BY Constants, ModuloBelow, ModuloOnce DEF Advance, Slot

\* How far slot p lies after w.
LEMMA DistanceIs ==
  ASSUME NEW p \in Slot, NEW w \in Slot
  PROVE  Advance(p - w, Capacity) = IF p >= w THEN p - w ELSE p - w + Capacity
<1>1. (p - w) + Capacity \in Nat /\ (p - w) + Capacity < 2 * Capacity
  BY Constants DEF Slot
<1>2. CASE p >= w
  BY <1>1, <1>2, Constants, ModuloOnce DEF Advance, Slot
<1>3. CASE p < w
  BY <1>1, <1>3, Constants, ModuloBelow DEF Advance, Slot
<1> QED BY <1>2, <1>3 DEF Slot

LEMMA CountsInRing ==
  ASSUME Types
  PROVE  Used \in 0 .. Capacity - 1 /\ Free = Capacity - Used - 1 /\ Free \in 0 .. Capacity - 1
<1>1. readPos \in Slot /\ writePos \in Slot
  BY DEF Types
<1>2. Used \in 0 .. Capacity - 1
  BY <1>1, Constants DEF Used, Slot
<1> QED BY <1>2, Constants DEF Free

LEMMA HandIs ==
  ASSUME NEW m \in Nat, NEW n \in Nat
  PROVE  LET fs == [k \in 1 .. n |-> m + k]
         IN  fs \in Seq(Nat) /\ Len(fs) = n /\ \A k \in 1 .. n : fs[k] = m + k
  OBVIOUS

-----------------------------------------------------------------------------
(* Putting frames into the ring.                                             *)

\* Frames are copied in after WRITE_POS: nobody else's slots are touched.
LEMMA FillStep ==
  ASSUME Types, Backed, NEW fs \in Seq(Nat), Len(fs) <= Free, ring' = Filled(fs),
         UNCHANGED <<readPos, writePos, kept, out>>
  PROVE  /\ ring' = [p \in Slot |-> ring'[p]]
         /\ Backed'
         /\ \A k \in 1 .. Len(fs) : ring'[Advance(writePos, k - 1)] = fs[k]
<1>1. ring' = [p \in Slot |-> ring'[p]]
  BY DEF Filled
<1>2. Len(fs) \in Nat /\ readPos \in Slot /\ writePos \in Slot
  BY LenProperties DEF Types
<1>3. ASSUME NEW p \in Slot
      PROVE  ring'[p] = LET k == (IF p >= writePos THEN p - writePos
                                  ELSE p - writePos + Capacity) + 1
                        IN IF k <= Len(fs) THEN fs[k] ELSE ring[p]
  BY <1>2, DistanceIs DEF Filled
<1>4. ASSUME NEW k \in 1 .. Len(fs) PROVE ring'[Advance(writePos, k - 1)] = fs[k]
  <2>1. k - 1 \in 0 .. Capacity - 1
    BY <1>2, CountsInRing, Constants
  <2>2. PICK p \in Slot : p = Advance(writePos, k - 1)
    BY <1>2, <2>1, AdvanceIs
  <2>3. p = IF writePos + (k - 1) < Capacity THEN writePos + (k - 1)
            ELSE writePos + (k - 1) - Capacity
    BY <1>2, <2>1, <2>2, AdvanceIs
  <2>4. (IF p >= writePos THEN p - writePos ELSE p - writePos + Capacity) + 1 = k
    BY <1>2, <2>1, <2>3, Constants DEF Slot
  <2> QED BY <1>3, <2>2, <2>4
<1>5. ASSUME NEW k \in 1 .. Used
      PROVE  ring'[Advance(readPos, k - 1)] = ring[Advance(readPos, k - 1)]
  <2>1. k - 1 \in 0 .. Capacity - 1 /\ k - 1 < Used
    BY CountsInRing, Constants
  <2>2. PICK p \in Slot : p = Advance(readPos, k - 1)
    BY <1>2, <2>1, AdvanceIs
  <2>3. p = IF readPos + (k - 1) < Capacity THEN readPos + (k - 1)
            ELSE readPos + (k - 1) - Capacity
    BY <1>2, <2>1, <2>2, AdvanceIs
  <2>4. (IF p >= writePos THEN p - writePos ELSE p - writePos + Capacity) + 1 > Len(fs)
    BY <1>2, <2>1, <2>3, Constants, CountsInRing DEF Slot, Used
  <2> QED BY <1>2, <1>3, <2>2, <2>4, Constants DEF Slot
<1>6. Used' = Used
  BY DEF Used
<1>7. Backed'
  BY <1>5, <1>6 DEF Backed, Advance
<1> QED BY <1>1, <1>4, <1>7

\* WRITE_POS is stored: the frames copied in can be taken out.
LEMMA PublishStep ==
  ASSUME Types, Backed, NEW fs \in Seq(Nat), Len(fs) <= Free, Stored(fs),
         writePos' = Advance(writePos, Len(fs)), kept' = kept \o fs,
         UNCHANGED <<readPos, ring, out>>
  PROVE  /\ writePos' \in Slot /\ kept' \in Seq(Nat) /\ Len(kept') = Len(kept) + Len(fs)
         /\ Backed' /\ Used' = Used + Len(fs)
         /\ \A i \in 1 .. Len(kept) : kept'[i] = kept[i]
         /\ \A k \in 1 .. Len(fs) : kept'[Len(kept) + k] = fs[k]
<1>1. /\ Len(fs) \in Nat /\ Len(kept) \in Nat /\ Len(out) \in Nat
      /\ readPos \in Slot /\ writePos \in Slot
      /\ Used \in 0 .. Capacity - 1 /\ Free = Capacity - Used - 1
  BY LenProperties, CountsInRing DEF Types
<1>2. /\ writePos' = IF writePos + Len(fs) < Capacity THEN writePos + Len(fs)
                     ELSE writePos + Len(fs) - Capacity
      /\ writePos' \in Slot
  BY <1>1, AdvanceIs, Constants
<1>3. Used' = Used + Len(fs)
  BY <1>1, <1>2, Constants DEF Used, Slot
<1>4. /\ kept' \in Seq(Nat) /\ Len(kept') = Len(kept) + Len(fs)
      /\ \A i \in 1 .. Len(kept) + Len(fs) :
           kept'[i] = IF i <= Len(kept) THEN kept[i] ELSE fs[i - Len(kept)]
  BY ConcatProperties DEF Types
<1>5. \A i \in 1 .. Len(kept) : kept'[i] = kept[i]
  BY <1>1, <1>4
<1>6. ASSUME NEW k \in 1 .. Len(fs) PROVE kept'[Len(kept) + k] = fs[k]
  <2>1. Len(kept) + k \in 1 .. Len(kept) + Len(fs) /\ ~(Len(kept) + k <= Len(kept))
        /\ (Len(kept) + k) - Len(kept) = k
    BY <1>1
  <2> QED BY <1>4, <2>1
<1>7. ASSUME NEW k \in 1 .. Used'
      PROVE  ring'[Advance(readPos', k - 1)] = kept'[Len(out') + k]
  <2>1. CASE k <= Used
    <3>1. k \in 1 .. Used /\ Len(out) + k \in 1 .. Len(kept)
      BY <1>1, <1>3, <2>1 DEF Backed
    <3>2. ring[Advance(readPos, k - 1)] = kept[Len(out) + k]
      BY <3>1 DEF Backed
    <3> QED BY <1>5, <3>1, <3>2 DEF Advance
  <2>2. CASE k > Used
    <3>1. PICK j \in 1 .. Len(fs) : k = Used + j
      BY <1>1, <1>3, <2>2
    <3>2. Len(out) + k = Len(kept) + j
      BY <1>1, <3>1 DEF Backed
    <3>3. Advance(readPos, k - 1) = Advance(writePos, j - 1)
      <4>1. k - 1 \in 0 .. Capacity - 1 /\ j - 1 \in 0 .. Capacity - 1
        BY <1>1, <3>1, Constants
      <4>2. /\ Advance(readPos, k - 1) = IF readPos + (k - 1) < Capacity THEN readPos + (k - 1)
                                         ELSE readPos + (k - 1) - Capacity
            /\ Advance(writePos, j - 1) = IF writePos + (j - 1) < Capacity
                                          THEN writePos + (j - 1)
                                          ELSE writePos + (j - 1) - Capacity
        BY <1>1, <4>1, AdvanceIs
      <4> QED BY <1>1, <3>1, <4>2, Constants DEF Used, Slot
    <3>4. ring[Advance(writePos, j - 1)] = fs[j]
      BY DEF Stored
    <3>5. Advance(readPos', k - 1) = Advance(readPos, k - 1)
      BY DEF Advance
    <3> QED BY <1>6, <3>2, <3>3, <3>4, <3>5
  <2>3. k <= Used \/ k > Used
    BY <1>1, <1>3
  <2> QED BY <2>1, <2>2, <2>3
<1>8. /\ Len(out') <= Len(kept') /\ Used' = Len(kept') - Len(out')
      /\ \A i \in 1 .. Len(out') : out'[i] = kept'[i]
  BY <1>1, <1>3, <1>4, <1>5 DEF Backed
<1>9. Backed'
  BY <1>7, <1>8 DEF Backed
<1> QED BY <1>2, <1>3, <1>4, <1>5, <1>6, <1>9

\* The numbers go on rising.
LEMMA RisingStep ==
  ASSUME Types, NEW fs \in Seq(Nat), NEW c \in Int, Fresh(fs, c),
         \A i \in 1 .. Len(kept) - 1 : kept[i] < kept[i + 1],
         \A i \in 1 .. Len(kept) : kept[i] <= c,
         kept' \in Seq(Nat), Len(kept') = Len(kept) + Len(fs),
         \A i \in 1 .. Len(kept) : kept'[i] = kept[i],
         \A k \in 1 .. Len(fs) : kept'[Len(kept) + k] = fs[k]
  PROVE  /\ \A i \in 1 .. Len(kept') - 1 : kept'[i] < kept'[i + 1]
         /\ \A i \in 1 .. Len(kept') : kept'[i] <= c + Len(fs)
<1>1. Len(fs) \in Nat /\ Len(kept) \in Nat /\ \A i \in 1 .. Len(kept) : kept[i] \in Nat
  BY LenProperties, ElementOfSeq DEF Types
<1>2. ASSUME NEW i \in 1 .. Len(kept'), i > Len(kept)
      PROVE  kept'[i] = c + (i - Len(kept)) /\ i - Len(kept) \in 1 .. Len(fs)
  <2>1. i - Len(kept) \in 1 .. Len(fs) /\ Len(kept) + (i - Len(kept)) = i
    BY <1>1, <1>2
  <2>2. fs[i - Len(kept)] = c + (i - Len(kept))
    BY <2>1 DEF Fresh
  <2> QED BY <2>1, <2>2
<1>3. ASSUME NEW i \in 1 .. Len(kept') PROVE kept'[i] <= c + Len(fs)
  <2>1. CASE i <= Len(kept)
    <3>1. i \in 1 .. Len(kept) /\ kept'[i] = kept[i] /\ kept[i] <= c /\ kept[i] \in Nat
      BY <1>1, <2>1
    <3> QED BY <1>1, <3>1
  <2>2. CASE i > Len(kept)
    BY <1>1, <1>2, <2>2
  <2> QED BY <1>1, <2>1, <2>2
<1>4. ASSUME NEW i \in 1 .. Len(kept') - 1 PROVE kept'[i] < kept'[i + 1]
  <2>1. CASE i + 1 <= Len(kept)
    <3>1. /\ i \in 1 .. Len(kept) - 1 /\ i \in 1 .. Len(kept) /\ i + 1 \in 1 .. Len(kept)
      BY <1>1, <2>1
    <3>2. kept'[i] = kept[i] /\ kept'[i + 1] = kept[i + 1] /\ kept[i] < kept[i + 1]
      BY <3>1
    <3> QED BY <3>2
  <2>2. CASE i = Len(kept)
    <3>1. i + 1 \in 1 .. Len(kept') /\ i + 1 > Len(kept) /\ i \in 1 .. Len(kept)
      BY <1>1, <2>2
    <3>2. kept'[i + 1] = c + ((i + 1) - Len(kept))
      BY <1>2, <3>1
    <3>3. kept'[i] = kept[i] /\ kept[i] <= c /\ kept[i] \in Nat /\ (i + 1) - Len(kept) = 1
      BY <1>1, <2>2, <3>1
    <3> QED BY <3>2, <3>3
  <2>3. CASE i > Len(kept)
    <3>1. i + 1 \in 1 .. Len(kept') /\ i + 1 > Len(kept) /\ i \in 1 .. Len(kept')
      BY <1>1, <2>3
    <3>2. kept'[i + 1] = c + ((i + 1) - Len(kept)) /\ kept'[i] = c + (i - Len(kept))
      BY <1>2, <2>3, <3>1
    <3> QED BY <1>1, <3>2
  <2> QED BY <1>1, <2>1, <2>2, <2>3
<1> QED BY <1>3, <1>4

\* READ_POS is stored: the frames copied out have left the ring.
LEMMA TakeStep ==
  ASSUME Types, Backed, NEW fs \in Seq(Nat), Oldest(fs),
         readPos' = Advance(readPos, Len(fs)), out' = out \o fs,
         UNCHANGED <<writePos, ring, kept>>
  PROVE  /\ readPos' \in Slot /\ out' \in Seq(Nat) /\ Len(out') = Len(out) + Len(fs)
         /\ Backed' /\ Used' = Used - Len(fs)
<1>1. /\ Len(fs) \in Nat /\ Len(kept) \in Nat /\ Len(out) \in Nat /\ Len(fs) <= Used
      /\ readPos \in Slot /\ writePos \in Slot /\ Used \in 0 .. Capacity - 1
  BY LenProperties, CountsInRing DEF Types, Oldest
<1>2. /\ readPos' = IF readPos + Len(fs) < Capacity THEN readPos + Len(fs)
                    ELSE readPos + Len(fs) - Capacity
      /\ readPos' \in Slot
  BY <1>1, AdvanceIs, Constants
<1>3. Used' = Used - Len(fs)
  <2> DEFINE n == Len(fs)
  <2>1. n \in Nat /\ n <= Used
        /\ readPos' = IF readPos + n < Capacity THEN readPos + n ELSE readPos + n - Capacity
    BY <1>1, <1>2
  <2> HIDE DEF n
  <2>2. Used' = Used - n
    BY <1>1, <2>1, Constants DEF Used, Slot
  <2> QED BY <2>2 DEF n
<1>4. /\ out' \in Seq(Nat) /\ Len(out') = Len(out) + Len(fs)
      /\ \A i \in 1 .. Len(out) + Len(fs) :
           out'[i] = IF i <= Len(out) THEN out[i] ELSE fs[i - Len(out)]
  BY ConcatProperties DEF Types
<1>5. ASSUME NEW i \in 1 .. Len(out') PROVE out'[i] = kept[i]
  <2>1. CASE i <= Len(out)
    BY <1>1, <1>4, <2>1 DEF Backed
  <2>2. CASE i > Len(out)
    <3>1. i - Len(out) \in 1 .. Len(fs) /\ Len(out) + (i - Len(out)) = i
      BY <1>1, <1>4, <2>2
    <3>2. fs[i - Len(out)] = kept[Len(out) + (i - Len(out))]
      BY <3>1 DEF Oldest
    <3> QED BY <1>1, <1>4, <2>2, <3>1, <3>2
  <2> QED BY <1>1, <2>1, <2>2
<1>6. ASSUME NEW k \in 1 .. Used'
      PROVE  ring[Advance(readPos', k - 1)] = kept[Len(out') + k]
  <2>1. k + Len(fs) \in 1 .. Used /\ Len(out) + (k + Len(fs)) = Len(out') + k
    BY <1>1, <1>3, <1>4
  <2>2. ring[Advance(readPos, (k + Len(fs)) - 1)] = kept[Len(out) + (k + Len(fs))]
    BY <2>1 DEF Backed
  <2>3. Advance(readPos, (k + Len(fs)) - 1) = Advance(readPos', k - 1)
    <3>1. (k + Len(fs)) - 1 \in 0 .. Capacity - 1 /\ k - 1 \in 0 .. Capacity - 1
      BY <1>1, <2>1, Constants
    <3>2. /\ Advance(readPos, (k + Len(fs)) - 1) =
               IF readPos + ((k + Len(fs)) - 1) < Capacity
               THEN readPos + ((k + Len(fs)) - 1)
               ELSE readPos + ((k + Len(fs)) - 1) - Capacity
          /\ Advance(readPos', k - 1) = IF readPos' + (k - 1) < Capacity
                                        THEN readPos' + (k - 1)
                                        ELSE readPos' + (k - 1) - Capacity
      BY <1>1, <1>2, <3>1, AdvanceIs
    <3> QED BY <1>1, <1>2, <2>1, <3>2, Constants DEF Slot
  <2> QED BY <2>1, <2>2, <2>3
<1>7. Len(out') <= Len(kept') /\ Used' = Len(kept') - Len(out')
  BY <1>1, <1>3, <1>4 DEF Backed
<1>8. Backed'
  <2>1. \A k \in 1 .. Used' : ring'[Advance(readPos', k - 1)] = kept'[Len(out') + k]
    BY <1>6
  <2>2. \A i \in 1 .. Len(out') : out'[i] = kept'[i]
    BY <1>5
  <2> QED BY <1>7, <2>1, <2>2 DEF Backed, Advance
<1> QED BY <1>2, <1>3, <1>4, <1>8

-----------------------------------------------------------------------------
(* The steps.                                                                *)

LEMMA InitAudio == Init => AudioInv
<1> SUFFICES ASSUME Init PROVE AudioInv
  OBVIOUS
<1>1. Types
  BY Constants DEF Init, Types, Slot
<1>2. Used = 0 /\ Len(kept) = 0 /\ Len(out) = 0
  BY DEF Init, Used
<1>3. Backed
  BY <1>2 DEF Backed
<1>4. Rising
  BY <1>2 DEF Rising
<1>5. Sides /\ Unopened
  <2>1. /\ wpc = "new" /\ ppc = "none" /\ opening = "none" /\ hand = <<>> /\ Len(hand) = 0
        /\ lost = 0 /\ entered = 0
    BY DEF Init
  <2>2. SinkBlock
    <3>1. (IF wpc = "count" THEN tally ELSE lost) = 0
      BY <2>1
    <3>2. entered = 0 /\ Len(kept) = 0 /\ Len(hand) = 0
      BY <1>2, <2>1
    <3>3. (entered - Len(kept)) - Len(hand) = 0
      BY ONLY <3>2
    <3> QED BY <2>1, <3>1, <3>3 DEF SinkBlock
  <2>3. SinkProcessor
    BY <2>1 DEF SinkProcessor
  <2>4. SourceBlock
    BY <2>1 DEF SourceBlock
  <2>5. SourceProcessor
    BY <1>2, <2>1 DEF SourceProcessor
  <2> QED BY <2>1, <2>2, <2>3, <2>4, <2>5 DEF Sides, Unopened
<1> QED BY <1>1, <1>3, <1>4, <1>5 DEF AudioInv

\* A step that neither counts, copies nor stores.
LEMMA QuietStep ==
  ASSUME AudioInv, Unopened',
         UNCHANGED <<kind, positions, lost, room, hand, tally, pavail, phand, ptally, history>>,
         wanted' \in Nat, done' \in 0 .. wanted',
         \/ wpc' = wpc
         \/ {wpc, wpc'} \cap {"copy", "store", "pace", "count"} = {},
         \/ ppc' = ppc
         \/ {ppc, ppc'} \subseteq {"none", "idle", "announce", "look", "gone"}
  PROVE  AudioInv'
<1> USE DEF AudioInv, positions, history
<1>1. Types'
  BY DEF Types
<1>2. Used' = Used /\ Free' = Free /\ Sink' = Sink /\ Kept' = Kept
  BY DEF Used, Free, Sink, Kept
<1>3. Backed'
  BY <1>2 DEF Backed, Advance
<1>4. Rising'
  BY <1>2 DEF Rising, Pending
<1>5. Sink => SinkBlock'
  BY <1>2 DEF Sides, SinkBlock, Stored, Fresh, Advance
<1>6. Sink => SinkProcessor'
  BY <1>2 DEF Sides, SinkProcessor, Oldest
<1>7. ~Sink => SourceBlock'
  BY <1>2 DEF Sides, SourceBlock, Oldest
<1>8. ~Sink => SourceProcessor'
  BY <1>2 DEF Sides, SourceProcessor, Stored, Fresh, Advance
<1> QED BY <1>1, <1>2, <1>3, <1>4, <1>5, <1>6, <1>7, <1>8 DEF Sides

LEMMA QuietSteps ==
  ASSUME AudioInv,
         \/ Start \/ StopFlowgraph \/ (\E n \in 1 .. MaxItems : Work(n))
         \/ WorkState \/ WorkWait \/ StopStep \/ Open \/ Suspend \/ Deliver
         \/ Render \/ Announce
  PROVE  AudioInv'
<1> USE DEF shared, positions, history, call, block, page, processor
<1>1. wanted \in Nat /\ done \in 0 .. wanted /\ Unopened
  BY DEF AudioInv, Types
<1>2. CASE Start
  BY <1>1, <1>2, QuietStep DEF Start, Unopened
<1>3. CASE StopFlowgraph
  BY <1>1, <1>3, QuietStep DEF StopFlowgraph, Unopened
<1>4. CASE \E n \in 1 .. MaxItems : Work(n)
  BY <1>1, <1>4, Constants, QuietStep DEF Work, Unopened
<1>5. CASE WorkState
  BY <1>1, <1>5, QuietStep DEF WorkState, Unopened
<1>6. CASE WorkWait
  BY <1>1, <1>6, QuietStep DEF WorkWait, Unopened
<1>7. CASE StopStep
  BY <1>1, <1>7, QuietStep DEF StopStep, StopStore, StopTell, Unopened
<1>8. CASE Open
  BY <1>1, <1>8, QuietStep DEF Open, Unopened
<1>9. CASE Suspend
  BY <1>1, <1>9, QuietStep DEF Suspend, Unopened
<1>10. CASE Deliver
  BY <1>1, <1>10, QuietStep DEF Deliver, Unopened
<1>11. CASE Render
  BY <1>1, <1>11, QuietStep DEF Render, Unopened
<1>12. CASE Announce
  BY <1>1, <1>12, QuietStep DEF Announce, Unopened
<1> QED BY <1>2, <1>3, <1>4, <1>5, <1>6, <1>7, <1>8, <1>9, <1>10, <1>11, <1>12

\* What the other side has copied out stays the oldest in the ring.
LEMMA OldestKept ==
  ASSUME Types, Backed, NEW fs \in Seq(Nat), Oldest(fs), out' = out,
         Used' \in Int, Used' >= Used,
         \A i \in 1 .. Len(kept) : kept'[i] = kept[i]
  PROVE  Len(fs) <= Used' /\ \A k \in 1 .. Len(fs) : fs[k] = kept'[Len(out') + k]
<1>1. Len(fs) \in Nat /\ Len(kept) \in Nat /\ Len(out) \in Nat /\ Used \in Nat
  BY LenProperties, CountsInRing DEF Types
<1>2. ASSUME NEW k \in 1 .. Len(fs) PROVE fs[k] = kept'[Len(out') + k]
  <2>1. Len(out) + k \in 1 .. Len(kept)
    BY <1>1 DEF Oldest, Backed
  <2> QED BY <2>1 DEF Oldest
<1>3. Len(fs) <= Used'
  <2>1. \A x \in Int : x >= Used => Len(fs) <= x
    BY <1>1 DEF Oldest
  <2> QED BY <2>1
<1> QED BY <1>2, <1>3

\* What work() of a sink or a source does about the clock, or before it copies.
LEMMA WorkLoadStep == AudioInv /\ WorkLoad => AudioInv'
<1> SUFFICES ASSUME AudioInv, WorkLoad PROVE AudioInv'
  OBVIOUS
<1> USE DEF AudioInv, positions, shared, history, page, processor
<1>1. Used \in Nat /\ Free \in Nat
  BY CountsInRing
<1>2. Used' = Used /\ Free' = Free /\ Sink' = Sink /\ Kept' = Kept
  BY DEF WorkLoad, Used, Free, Sink, Kept
<1>3. Types'
  BY <1>1 DEF Types, WorkLoad
<1>4. Backed'
  BY <1>2 DEF Backed, Advance, WorkLoad
<1>5. Rising'
  BY <1>2 DEF Rising, Pending, WorkLoad
<1>6. Sink => SinkBlock' /\ SinkProcessor'
  BY <1>2, <1>1 DEF Sides, SinkBlock, SinkProcessor, Oldest, WorkLoad
<1>7. ~Sink => SourceBlock'
  BY <1>2, <1>1 DEF Sides, SourceBlock, WorkLoad
<1>8. ~Sink => SourceProcessor'
  BY <1>2 DEF Sides, SourceProcessor, Stored, Fresh, Advance, WorkLoad
<1>9. Unopened'
  BY DEF Unopened, WorkLoad
<1> QED BY <1>2, <1>3, <1>4, <1>5, <1>6, <1>7, <1>8, <1>9 DEF Sides

LEMMA WorkPaceStep ==
  ASSUME AudioInv, NEW n \in 0 .. MaxItems, WorkPace(n)
  PROVE  AudioInv'
<1> USE DEF AudioInv, positions, shared, history, page, processor
<1>1. Sink /\ n \in Nat /\ entered \in Nat /\ entered' = entered + n
  BY Constants DEF Sides, SourceBlock, WorkPace, Types
<1>2. Used' = Used /\ Free' = Free /\ Sink' = Sink
  BY DEF WorkPace, Used, Free, Sink
<1>3. Types'
  BY <1>1 DEF Types, WorkPace
<1>4. Backed'
  BY <1>2 DEF Backed, Advance, WorkPace
<1>5. hand = <<>> /\ hand' = <<>> /\ Len(hand) = 0 /\ Len(hand') = 0
  BY <1>1 DEF Sides, SinkBlock, WorkPace
<1>6. Rising'
  <2>1. Len(kept) \in Nat /\ \A i \in 1 .. Len(kept) : kept[i] \in Nat
    BY LenProperties, ElementOfSeq DEF Types
  <2>2. \A i \in 1 .. Len(kept) : kept[i] <= entered + n
    BY <1>1, <1>5, <2>1 DEF Rising, Pending
  <2> QED BY <1>1, <1>2, <1>5, <2>2 DEF Rising, Pending, WorkPace
<1>7. SinkBlock'
  <2>1. entered - Len(kept) = lost /\ Len(kept) \in Nat
    BY <1>1, <1>5 DEF Sides, SinkBlock, WorkPace, Types
  <2>2. (entered + n) - Len(kept) - 0 = lost + n
    BY <1>1, <2>1
  <2>3. CASE n = 0
    BY <1>1, <1>5, <2>1, <2>3 DEF SinkBlock, WorkPace
  <2>4. CASE n # 0
    BY <1>1, <1>5, <2>2, <2>4 DEF SinkBlock, WorkPace
  <2> QED BY <2>3, <2>4
<1>8. SinkProcessor'
  BY <1>1, <1>2 DEF Sides, SinkProcessor, Oldest, WorkPace
<1>9. Unopened'
  BY DEF Unopened, WorkPace
<1> QED BY <1>1, <1>2, <1>3, <1>4, <1>6, <1>7, <1>8, <1>9 DEF Sides

LEMMA WorkCountStep == AudioInv /\ WorkCount => AudioInv'
<1> SUFFICES ASSUME AudioInv, WorkCount PROVE AudioInv'
  OBVIOUS
<1> USE DEF AudioInv, positions, shared, call, history, page, processor
<1>1. Sink
  BY DEF Sides, SourceBlock, WorkCount
<1>2. Used' = Used /\ Free' = Free /\ Sink' = Sink
  BY DEF WorkCount, Used, Free, Sink
<1>3. Types'
  BY DEF Types, WorkCount
<1>4. Backed'
  BY <1>2 DEF Backed, Advance, WorkCount
<1>5. Rising'
  BY <1>2 DEF Rising, Pending, WorkCount
<1>6. SinkBlock' /\ SinkProcessor'
  BY <1>1, <1>2 DEF Sides, SinkBlock, SinkProcessor, Oldest, WorkCount
<1>7. Unopened'
  BY DEF Unopened, WorkCount
<1> QED BY <1>1, <1>2, <1>3, <1>4, <1>5, <1>6, <1>7 DEF Sides

-----------------------------------------------------------------------------
(* The block copies and stores.                                              *)

\* How much a turn of work() copies.
LEMMA TakeIs ==
  ASSUME AudioInv
  PROVE  LET edge == IF Sink THEN writePos ELSE readPos
             take == Min({room, wanted - done, Capacity - edge})
         IN  take \in Nat /\ take <= room /\ take <= wanted - done
<1> DEFINE edge == IF Sink THEN writePos ELSE readPos
           take == Min({room, wanted - done, Capacity - edge})
<1>1. room \in Nat /\ wanted - done \in Nat /\ Capacity - edge \in Nat
  <2>1. room \in Nat /\ wanted \in Nat /\ done \in 0 .. wanted /\ readPos \in Slot
        /\ writePos \in Slot
    BY DEF AudioInv, Types
  <2> QED BY <2>1, Constants DEF Slot
<1> DEFINE a == wanted - done
           b == Capacity - edge
<1>2. room \in Nat /\ a \in Nat /\ b \in Nat
  BY <1>1
<1> HIDE DEF edge, a, b
<1>3. Min({room, a, b}) \in {room, a, b} /\ Min({room, a, b}) <= room /\ Min({room, a, b}) <= a
  <2>1. room \in Int /\ a \in Int /\ b \in Int
    BY <1>2
  <2> QED BY <2>1, MinOfThree
<1>4. Min({room, a, b}) \in Nat
  BY <1>2, <1>3
<1> QED BY <1>3, <1>4 DEF edge, a, b

LEMMA SinkCopyStep == AudioInv /\ Sink /\ WorkCopy => AudioInv'
<1> SUFFICES ASSUME AudioInv, Sink, WorkCopy PROVE AudioInv'
  OBVIOUS
<1> USE DEF AudioInv, positions, shared, history, page, processor
<1>1. PICK n \in Nat :
        /\ n <= room /\ n <= wanted - done
        /\ done' = done + n /\ entered' = entered + n
        /\ hand' = [k \in 1 .. n |-> entered + k] /\ ring' = Filled(hand')
        /\ wpc = "copy" /\ wpc' = "store"
        /\ UNCHANGED <<kind, readPos, writePos, lost, wanted, room, tally, page, processor,
                       kept, out>>
  <2> DEFINE take == Min({room, wanted - done, Capacity - writePos})
  <2>1. take \in Nat /\ take <= room /\ take <= wanted - done
    BY TakeIs
  <2>2. done' = done + take /\ entered' = entered + take /\ hand' = Coming(take)
        /\ ring' = Filled(hand') /\ wpc = "copy" /\ wpc' = "store"
        /\ UNCHANGED <<kind, readPos, writePos, lost, wanted, room, tally, page, processor,
                       kept, out>>
    BY DEF WorkCopy
  <2> HIDE DEF take
  <2> QED BY <2>1, <2>2 DEF Coming
<1> DEFINE fs == [k \in 1 .. n |-> entered + k]
<1>2. fs \in Seq(Nat) /\ Len(fs) = n /\ \A k \in 1 .. n : fs[k] = entered + k
  BY HandIs DEF Types
<1>3. hand' = fs /\ ring' = Filled(fs)
  BY <1>1
<1> HIDE DEF fs
<1>4. n <= Free /\ hand = <<>> /\ Len(hand) = 0
  <2>1. room <= Free /\ hand = <<>>
    BY <1>1 DEF Sides, SinkBlock
  <2> QED BY <2>1, <1>1, CountsInRing DEF Types
<1>5. /\ ring' = [p \in Slot |-> ring'[p]]
      /\ Backed'
      /\ \A k \in 1 .. Len(fs) : ring'[Advance(writePos, k - 1)] = fs[k]
  BY <1>1, <1>2, <1>3, <1>4, FillStep
<1>6. Used' = Used /\ Free' = Free /\ Sink' = Sink
  BY <1>1 DEF Used, Free, Sink
<1>7. Types'
  <2>1. done + n \in 0 .. wanted /\ entered + n \in Nat
    BY <1>1 DEF Types
  <2> QED BY <1>1, <1>2, <1>3, <1>5, <2>1 DEF Types
<1>8. (entered + n) - n = entered /\ Len(kept) \in Nat /\ entered \in Nat
  BY <1>1 DEF Types
<1>9. Rising'
  BY <1>1, <1>2, <1>3, <1>4, <1>6, <1>8 DEF Rising, Pending
<1>10. SinkBlock'
  <2>1. Stored(hand)'
    BY <1>1, <1>2, <1>3, <1>5 DEF Stored, Advance
  <2>2. Fresh(hand, entered - Len(hand))'
    BY <1>1, <1>2, <1>3, <1>8 DEF Fresh
  <2>3. Len(hand') <= Free' /\ Len(hand') = n
    BY <1>2, <1>3, <1>4, <1>6
  <2>4. entered' - Len(kept') - Len(hand') = lost'
    <3>1. entered - Len(kept) = lost
      BY <1>1, <1>4, <1>8 DEF Sides, SinkBlock
    <3>2. (entered + n) - Len(kept) - n = lost
      BY <1>1, <1>8, <3>1
    <3> QED BY <1>1, <2>3, <3>2
  <2> QED BY <1>1, <2>1, <2>2, <2>3, <2>4 DEF SinkBlock
<1>11. SinkProcessor'
  BY <1>1, <1>6 DEF Sides, SinkProcessor, Oldest
<1>12. Unopened'
  BY <1>1 DEF Unopened
<1> QED BY <1>5, <1>6, <1>7, <1>9, <1>10, <1>11, <1>12 DEF Sides

\* Frames copied out of the ring.
LEMMA CopiedIs ==
  ASSUME AudioInv, NEW n \in Nat, n <= Used
  PROVE  Copied(n) \in Seq(Nat) /\ Len(Copied(n)) = n /\ Oldest(Copied(n))
<1>1. /\ Used \in 0 .. Capacity - 1 /\ Len(kept) \in Nat /\ Len(out) \in Nat
      /\ \A i \in 1 .. Len(kept) : kept[i] \in Nat
  BY CountsInRing, LenProperties, ElementOfSeq DEF AudioInv, Types
<1>2. ASSUME NEW k \in 1 .. n
      PROVE  Copied(n)[k] = kept[Len(out) + k] /\ kept[Len(out) + k] \in Nat
  <2>1. k \in 1 .. Used /\ Len(out) + k \in 1 .. Len(kept)
    BY <1>1 DEF AudioInv, Backed
  <2> QED BY <1>1, <2>1 DEF AudioInv, Backed, Copied
<1>3. Copied(n) = [k \in 1 .. n |-> kept[Len(out) + k]]
  BY <1>2 DEF Copied
<1>4. Copied(n) \in Seq(Nat) /\ Len(Copied(n)) = n
  BY <1>2, <1>3
<1> QED BY <1>2, <1>4 DEF Oldest

LEMMA SourceCopyStep == AudioInv /\ ~Sink /\ WorkCopy => AudioInv'
<1> SUFFICES ASSUME AudioInv, ~Sink, WorkCopy PROVE AudioInv'
  OBVIOUS
<1> USE DEF AudioInv, positions, shared, history, page, processor
<1>1. PICK n \in Nat :
        /\ n <= room /\ n <= wanted - done
        /\ done' = done + n /\ hand' = Copied(n) /\ wpc = "copy" /\ wpc' = "store"
        /\ UNCHANGED <<kind, positions, lost, wanted, room, tally, page, processor, history>>
  <2> DEFINE take == Min({room, wanted - done, Capacity - readPos})
  <2>1. take \in Nat /\ take <= room /\ take <= wanted - done
    BY TakeIs
  <2>2. done' = done + take /\ hand' = Copied(take) /\ wpc = "copy" /\ wpc' = "store"
        /\ UNCHANGED <<kind, positions, lost, wanted, room, tally, page, processor, history>>
    BY DEF WorkCopy
  <2> HIDE DEF take
  <2> QED BY <2>1, <2>2
<1>2. n <= Used
  <2>1. room <= Used
    BY <1>1 DEF Sides, SourceBlock
  <2> QED BY <2>1, <1>1, CountsInRing DEF Types
<1>3. Copied(n) \in Seq(Nat) /\ Len(Copied(n)) = n /\ Oldest(Copied(n))
  BY <1>2, CopiedIs
<1>4. Used' = Used /\ Free' = Free /\ Sink' = Sink /\ Kept' = Kept
  BY <1>1 DEF Used, Free, Sink, Kept
<1>5. Types'
  <2>1. done + n \in 0 .. wanted
    BY <1>1 DEF Types
  <2> QED BY <1>1, <1>3, <2>1 DEF Types
<1>6. Backed'
  BY <1>1, <1>4 DEF Backed, Advance
<1>7. Rising'
  BY <1>1, <1>4 DEF Rising, Pending
<1>8. SourceBlock'
  BY <1>1, <1>3, <1>4 DEF Sides, SourceBlock, Oldest
<1>9. SourceProcessor'
  BY <1>1, <1>4 DEF Sides, SourceProcessor, Stored, Fresh, Advance
<1>10. Unopened'
  BY <1>1 DEF Unopened
<1> QED BY <1>4, <1>5, <1>6, <1>7, <1>8, <1>9, <1>10 DEF Sides

LEMMA SinkStoreStep == AudioInv /\ Sink /\ WorkStore => AudioInv'
<1> SUFFICES ASSUME AudioInv, Sink, WorkStore PROVE AudioInv'
  OBVIOUS
<1> USE DEF AudioInv, positions, shared, history, page, processor
<1>1. /\ wpc = "store" /\ wpc' \in {"idle", "state"} /\ hand' = <<>>
      /\ writePos' = Advance(writePos, Len(hand)) /\ kept' = kept \o hand
      /\ UNCHANGED <<kind, readPos, ring, lost, wanted, done, room, tally, page, processor,
                     entered, out>>
  BY DEF WorkStore
<1>2. Len(hand) <= Free /\ Stored(hand) /\ Fresh(hand, entered - Len(hand)) /\ hand \in Seq(Nat)
  BY <1>1 DEF Sides, SinkBlock, Types
<1>3. /\ writePos' \in Slot /\ kept' \in Seq(Nat) /\ Len(kept') = Len(kept) + Len(hand)
      /\ Backed' /\ Used' = Used + Len(hand)
      /\ \A i \in 1 .. Len(kept) : kept'[i] = kept[i]
      /\ \A k \in 1 .. Len(hand) : kept'[Len(kept) + k] = hand[k]
  BY <1>1, <1>2, PublishStep
<1>4. Len(hand) \in Nat /\ Len(kept) \in Nat /\ Used \in Nat /\ entered \in Nat
  BY LenProperties, CountsInRing DEF Types
<1>5. Sink' = Sink
  BY <1>1 DEF Sink
<1>6. Types'
  BY <1>1, <1>3 DEF Types
<1>7. Rising'
  <2> DEFINE c == entered - Len(hand)
  <2>1. c \in Int /\ c + Len(hand) = entered
    BY <1>4
  <2>2. \A i \in 1 .. Len(kept) : kept[i] <= c
    BY DEF Rising, Pending
  <2>3. /\ Fresh(hand, c)
        /\ \A i \in 1 .. Len(kept) - 1 : kept[i] < kept[i + 1]
    BY <1>2 DEF Rising
  <2> HIDE DEF c
  <2>4. /\ \A i \in 1 .. Len(kept') - 1 : kept'[i] < kept'[i + 1]
        /\ \A i \in 1 .. Len(kept') : kept'[i] <= c + Len(hand)
    BY <1>2, <1>3, <2>1, <2>2, <2>3, RisingStep
  <2>5. entered' - Pending' = entered
    BY <1>1, <1>4, <1>5 DEF Pending
  <2> QED BY <2>1, <2>4, <2>5 DEF Rising
<1>8. SinkBlock'
  <2>1. entered - Len(kept) - Len(hand) = lost
    BY <1>1 DEF Sides, SinkBlock
  <2>2. entered - (Len(kept) + Len(hand)) - 0 = lost
    BY <1>4, <2>1
  <2> QED BY <1>1, <1>3, <2>2 DEF SinkBlock
<1>9. SinkProcessor'
  <2>1. Used + Len(hand) \in Int /\ Used + Len(hand) >= Used
    BY <1>4
  <2>2. ppc = "publish" => Oldest(phand)'
    <3> SUFFICES ASSUME Oldest(phand) PROVE Oldest(phand)'
      BY DEF Sides, SinkProcessor
    <3>1. Len(phand) <= Used' /\ \A k \in 1 .. Len(phand) : phand[k] = kept'[Len(out') + k]
      <4>1. phand \in Seq(Nat) /\ out' = out /\ Used' \in Int /\ Used' >= Used
        BY <1>1, <1>3, <2>1 DEF Types
      <4> QED BY <1>3, <4>1, OldestKept
    <3> QED BY <1>1, <3>1 DEF Oldest
  <2>3. ppc \in {"render", "publish"} => Quantum <= Used + Len(hand)
    BY <1>4, Constants DEF Sides, SinkProcessor
  <2> QED BY <1>1, <1>3, <2>2, <2>3 DEF Sides, SinkProcessor
<1>10. Unopened'
  BY <1>1 DEF Unopened
<1> QED BY <1>3, <1>5, <1>6, <1>7, <1>8, <1>9, <1>10 DEF Sides

LEMMA SourceStoreStep == AudioInv /\ ~Sink /\ WorkStore => AudioInv'
<1> SUFFICES ASSUME AudioInv, ~Sink, WorkStore PROVE AudioInv'
  OBVIOUS
<1> USE DEF AudioInv, positions, shared, history, page, processor
<1>1. /\ wpc = "store" /\ wpc' \in {"idle", "state"} /\ hand' = <<>>
      /\ readPos' = Advance(readPos, Len(hand)) /\ out' = out \o hand
      /\ UNCHANGED <<kind, writePos, ring, lost, wanted, done, room, tally, page, processor,
                     entered, kept>>
  BY DEF WorkStore
<1>2. Oldest(hand) /\ hand \in Seq(Nat)
  BY <1>1 DEF Sides, SourceBlock, Types
<1>3. /\ readPos' \in Slot /\ out' \in Seq(Nat) /\ Len(out') = Len(out) + Len(hand)
      /\ Backed' /\ Used' = Used - Len(hand)
  BY <1>1, <1>2, TakeStep
<1>4. Len(hand) \in Nat /\ Used \in Nat /\ Free \in Nat /\ Free = Capacity - Used - 1
  BY LenProperties, CountsInRing DEF Types
<1>5. Sink' = Sink /\ Kept' = Kept
  BY <1>1 DEF Sink, Kept
<1>6. Types'
  BY <1>1, <1>3 DEF Types
<1>7. Free' = Free + Len(hand)
  <2>1. Capacity - (Used - Len(hand)) - 1 = Free + Len(hand)
    BY <1>4, Constants
  <2> QED BY <1>3, <2>1 DEF Free
<1>8. Rising'
  BY <1>1, <1>5 DEF Rising, Pending
<1>9. SourceBlock'
  BY <1>1 DEF SourceBlock
<1>10. SourceProcessor'
  <2>1. /\ ppc \in {"overrun", "lose", "render", "publish"} => pavail <= Free + Len(hand)
        /\ ppc = "publish" => Len(phand) <= Free + Len(hand)
    <3>1. \A x \in Nat : x <= Free => x <= Free + Len(hand)
      BY <1>4
    <3>2. pavail \in Nat /\ Len(phand) \in Nat
      BY LenProperties DEF Types
    <3> QED BY <3>1, <3>2 DEF Sides, SourceProcessor
  <2>2. /\ ppc \in {"overrun", "lose", "render", "publish"} => pavail' <= Free'
        /\ ppc = "publish" => Len(phand') <= Free'
    BY <1>1, <1>7, <2>1
  <2>3. ppc = "publish" => Stored(phand)' /\ Fresh(phand, entered - Quantum)'
    BY <1>1 DEF Sides, SourceProcessor, Stored, Fresh, Advance
  <2> QED BY <1>1, <1>5, <2>2, <2>3 DEF Sides, SourceProcessor
<1>11. Unopened'
  BY <1>1 DEF Unopened
<1> QED BY <1>3, <1>5, <1>6, <1>8, <1>9, <1>10, <1>11 DEF Sides

-----------------------------------------------------------------------------
(* The processor renders a quantum.                                          *)

LEMMA LookStep == AudioInv /\ (LookSink \/ LookSource) => AudioInv'
<1> SUFFICES ASSUME AudioInv, LookSink \/ LookSource PROVE AudioInv'
  OBVIOUS
<1> USE DEF AudioInv, positions, shared, history, call, block, page
<1>1. /\ ppc = "look" /\ pavail' = IF Sink THEN Used ELSE Free
      /\ ppc' = IF Sink THEN (IF Used < Quantum THEN "idle" ELSE "render")
                ELSE IF Quantum > Free THEN "overrun" ELSE "render"
      /\ UNCHANGED <<kind, positions, lost, block, page, phand, ptally, history>>
  BY DEF LookSink, LookSource
<1>2. Used \in Nat /\ Free \in Nat
  BY CountsInRing
<1>3. Used' = Used /\ Free' = Free /\ Sink' = Sink
  BY <1>1 DEF Used, Free, Sink
<1>4. Types'
  BY <1>1, <1>2 DEF Types
<1>5. Backed'
  BY <1>1, <1>3 DEF Backed, Advance
<1>6. Rising'
  BY <1>1, <1>3 DEF Rising, Pending
<1>7. Sink => SinkBlock'
  BY <1>1, <1>3 DEF Sides, SinkBlock, Stored, Fresh, Advance
<1>8. Sink => SinkProcessor'
  BY <1>1, <1>2, <1>3, Constants DEF Sides, SinkProcessor
<1>9. ~Sink => SourceBlock'
  BY <1>1, <1>3 DEF Sides, SourceBlock, Oldest
<1>10. ~Sink => SourceProcessor'
  <2> SUFFICES ASSUME ~Sink PROVE SourceProcessor'
    OBVIOUS
  <2>1. entered - Len(kept) = lost /\ entered \in Nat /\ Len(kept) \in Nat /\ lost \in Nat
    BY <1>1 DEF Sides, SourceProcessor, Types
  <2>2. CASE Quantum > Free
    BY <1>1, <1>2, <1>3, <2>1, <2>2 DEF SourceProcessor
  <2>3. CASE ~(Quantum > Free)
    <3>1. pavail' = Free /\ ppc' = "render"
      BY <1>1, <2>3
    <3>2. Kept' = Quantum
      <4>1. pavail' \in Nat /\ Quantum <= pavail' /\ Kept' = Min({Quantum, pavail'})
        BY <1>2, <2>3, <3>1, Constants DEF Kept
      <4>2. \A x \in Nat : Quantum <= x => Min({Quantum, x}) = Quantum
        <5> SUFFICES ASSUME NEW x \in Nat, Quantum <= x PROVE Min({Quantum, x}) = Quantum
          OBVIOUS
        <5>1. \E y \in {Quantum, x} : \A z \in {Quantum, x} : y <= z
          BY Constants
        <5>2. Min({Quantum, x}) \in {Quantum, x} /\ Min({Quantum, x}) <= Quantum
          BY <5>1 DEF Min
        <5> QED BY <5>2, Constants
      <4> QED BY <4>1, <4>2
    <3>3. lost - (Quantum - Quantum) = lost
      BY <2>1, Constants
    <3>4. pavail' <= Free'
      BY <1>2, <1>3, <3>1
    <3> QED BY <1>1, <2>1, <3>1, <3>2, <3>3, <3>4 DEF SourceProcessor
  <2> QED BY <2>2, <2>3
<1>11. Unopened'
  BY <1>1 DEF Unopened
<1> QED BY <1>3, <1>4, <1>5, <1>6, <1>7, <1>8, <1>9, <1>10, <1>11 DEF Sides

LEMMA PlayCopyStep == AudioInv /\ PlayCopy => AudioInv'
<1> SUFFICES ASSUME AudioInv, PlayCopy PROVE AudioInv'
  OBVIOUS
<1> USE DEF AudioInv, positions, shared, history, call, block, page
<1>1. Sink /\ Sink' = Sink /\ Used' = Used /\ Free' = Free
  BY DEF PlayCopy, Sink, Used, Free
<1>2. Quantum <= Used
  BY <1>1 DEF PlayCopy, Sides, SinkProcessor
<1>3. /\ Copied(Quantum) \in Seq(Nat) /\ Len(Copied(Quantum)) = Quantum
      /\ Oldest(Copied(Quantum))
  BY <1>2, Constants, CopiedIs
<1>4. Types'
  BY <1>3 DEF Types, PlayCopy
<1>5. Backed'
  BY <1>1 DEF Backed, Advance, PlayCopy
<1>6. Rising'
  BY <1>1 DEF Rising, Pending, PlayCopy
<1>7. SinkBlock'
  BY <1>1 DEF Sides, SinkBlock, Stored, Fresh, Advance, PlayCopy
<1>8. SinkProcessor'
  <2>1. Oldest(phand)' /\ Len(phand') = Quantum /\ ppc' = "publish"
    BY <1>1, <1>3 DEF Oldest, PlayCopy
  <2> QED BY <1>1, <1>2, <2>1 DEF SinkProcessor
<1>9. Unopened'
  BY DEF Unopened, PlayCopy
<1> QED BY <1>1, <1>4, <1>5, <1>6, <1>7, <1>8, <1>9 DEF Sides

LEMMA PlayStoreStep == AudioInv /\ PlayStore => AudioInv'
<1> SUFFICES ASSUME AudioInv, PlayStore PROVE AudioInv'
  OBVIOUS
<1> USE DEF AudioInv, positions, shared, history, call, block, page
<1>1. /\ Sink /\ ppc = "publish" /\ ppc' = "idle" /\ phand' = <<>>
      /\ readPos' = Advance(readPos, Quantum) /\ out' = out \o phand
      /\ UNCHANGED <<kind, writePos, ring, lost, block, page, pavail, ptally, entered, kept>>
  BY DEF PlayStore
<1>2. Len(phand) = Quantum /\ Oldest(phand) /\ phand \in Seq(Nat)
  BY <1>1 DEF Sides, SinkProcessor, Types
<1>3. /\ readPos' \in Slot /\ out' \in Seq(Nat) /\ Backed' /\ Used' = Used - Quantum
  <2>1. readPos' = Advance(readPos, Len(phand))
    BY <1>1, <1>2
  <2>2. readPos' \in Slot /\ out' \in Seq(Nat) /\ Backed' /\ Used' = Used - Len(phand)
    BY <1>1, <1>2, <2>1, TakeStep
  <2> QED BY <1>2, <2>2
<1>4. Used \in Nat /\ Free \in Nat /\ Free = Capacity - Used - 1
  BY CountsInRing
<1>5. Sink' = Sink
  BY <1>1 DEF Sink
<1>6. Free' = Free + Quantum
  <2>1. Capacity - (Used - Quantum) - 1 = Free + Quantum
    BY <1>4, Constants
  <2> QED BY <1>3, <2>1 DEF Free
<1>7. Types'
  BY <1>1, <1>3 DEF Types
<1>8. Rising'
  BY <1>1, <1>5 DEF Rising, Pending
<1>9. SinkBlock'
  <2>1. /\ wpc = "copy" => room <= Free + Quantum
        /\ wpc = "store" => Len(hand) <= Free + Quantum
    <3>1. \A x \in Nat : x <= Free => x <= Free + Quantum
      BY <1>4, Constants
    <3>2. room \in Nat /\ Len(hand) \in Nat
      BY LenProperties DEF Types
    <3> QED BY <1>1, <3>1, <3>2 DEF Sides, SinkBlock
  <2>2. wpc = "store" => Stored(hand)' /\ Fresh(hand, entered - Len(hand))'
    BY <1>1 DEF Sides, SinkBlock, Stored, Fresh, Advance
  <2>3. /\ wpc = "copy" => room <= Free'
        /\ wpc = "store" => Len(hand) <= Free'
    BY <1>6, <2>1
  <2> QED BY <1>1, <2>2, <2>3 DEF Sides, SinkBlock
<1>10. SinkProcessor'
  BY <1>1 DEF SinkProcessor
<1>11. Unopened'
  BY <1>1 DEF Unopened
<1> QED BY <1>1, <1>3, <1>5, <1>7, <1>8, <1>9, <1>10, <1>11 DEF Sides

LEMMA OverrunStep == AudioInv /\ (Overrun \/ Lose) => AudioInv'
<1> SUFFICES ASSUME AudioInv, Overrun \/ Lose PROVE AudioInv'
  OBVIOUS
<1> USE DEF AudioInv, positions, shared, history, call, block, page
<1>1. UNCHANGED <<kind, positions, block, page, pavail, phand, history>>
      /\ ppc \in {"overrun", "lose"}
  BY DEF Overrun, Lose
<1>2. ~Sink /\ pavail <= Free /\ pavail < Quantum /\ entered - Len(kept) = lost
      /\ pavail \in Nat /\ lost \in Nat
  BY <1>1 DEF Sides, SinkProcessor, SourceProcessor, Types
<1>3. Used' = Used /\ Free' = Free /\ Sink' = Sink /\ Kept' = Kept
  BY <1>1 DEF Used, Free, Sink, Kept
<1>4. Kept = pavail
  BY <1>2, KeptIs, Constants
<1>5. lost + (Quantum - pavail) \in Nat
      /\ lost = (lost + (Quantum - pavail)) - (Quantum - pavail)
  BY <1>2, Constants
<1>6. Types'
  BY <1>1, <1>5 DEF Types, Overrun, Lose
<1>7. Backed'
  BY <1>1, <1>3 DEF Backed, Advance
<1>8. Rising'
  BY <1>1, <1>2, <1>3 DEF Rising, Pending, Overrun, Lose
<1>9. SourceBlock'
  BY <1>1, <1>2, <1>3 DEF Sides, SourceBlock, Oldest
<1>10. SourceProcessor'
  <2>1. CASE Overrun
    BY <1>1, <1>2, <1>3, <2>1 DEF SourceProcessor, Overrun
  <2>2. CASE Lose
    <3>1. ptally = lost + (Quantum - pavail)
      BY <1>2, <2>2 DEF Sides, SourceProcessor, Lose
    <3>2. entered' - Len(kept') = lost' - (Quantum - Kept')
      BY <1>1, <1>2, <1>3, <1>4, <1>5, <2>2, <3>1 DEF Lose
    <3> QED BY <1>1, <1>2, <1>3, <2>2, <3>2 DEF SourceProcessor, Lose
  <2> QED BY <2>1, <2>2
<1>11. Unopened'
  BY <1>1 DEF Unopened
<1> QED BY <1>2, <1>3, <1>6, <1>7, <1>8, <1>9, <1>10, <1>11 DEF Sides

LEMMA RecordCopyStep == AudioInv /\ RecordCopy => AudioInv'
<1> SUFFICES ASSUME AudioInv, RecordCopy PROVE AudioInv'
  OBVIOUS
<1> USE DEF AudioInv, positions, shared, history, call, block, page
<1>1. /\ ~Sink /\ ppc = "render" /\ ppc' = (IF phand' = <<>> THEN "idle" ELSE "publish")
      /\ phand' = [k \in 1 .. Kept |-> entered + k] /\ ring' = Filled(phand')
      /\ entered' = entered + Quantum
      /\ UNCHANGED <<kind, readPos, writePos, lost, block, page, pavail, ptally, kept, out>>
  BY DEF RecordCopy, Coming
<1> DEFINE n == Kept
           fs == [k \in 1 .. n |-> entered + k]
<1>2. n \in Nat /\ n <= pavail /\ n <= Quantum /\ pavail <= Free
      /\ entered - Len(kept) = lost - (Quantum - n)
  BY <1>1, KeptIs DEF Types, Sides, SourceProcessor
<1>3. fs \in Seq(Nat) /\ Len(fs) = n /\ \A k \in 1 .. n : fs[k] = entered + k
  <2>1. entered \in Nat /\ n \in Nat
    BY <1>2 DEF Types
  <2> HIDE DEF n
  <2> QED BY <2>1, HandIs
<1>4. phand' = fs /\ ring' = Filled(fs)
  BY <1>1
<1> HIDE DEF fs, n
<1>5. n <= Free /\ Free \in Nat /\ Len(kept) \in Nat /\ entered \in Nat /\ lost \in Nat
  <2>1. Free \in Nat /\ pavail \in Nat
    BY CountsInRing DEF Types
  <2> QED BY <1>2, <2>1 DEF Types
<1>6. /\ ring' = [p \in Slot |-> ring'[p]]
      /\ Backed'
      /\ \A k \in 1 .. Len(fs) : ring'[Advance(writePos, k - 1)] = fs[k]
  BY <1>1, <1>3, <1>4, <1>5, FillStep
<1>7. Used' = Used /\ Free' = Free /\ Sink' = Sink
  BY <1>1 DEF Used, Free, Sink
<1>8. Types'
  <2>1. entered + Quantum \in Nat
    BY <1>5, Constants
  <2> QED BY <1>1, <1>3, <1>4, <1>6, <2>1 DEF Types
<1>9. (entered + Quantum) - Quantum = entered /\ (entered + Quantum) - 0 = entered + Quantum
  BY <1>5, Constants
<1>10. Rising'
  <2>1. \A i \in 1 .. Len(kept) : kept[i] <= entered /\ kept[i] <= entered + Quantum
    <3>1. \A i \in 1 .. Len(kept) : kept[i] \in Nat
      BY ElementOfSeq DEF Types
    <3>2. \A i \in 1 .. Len(kept) : kept[i] <= entered - 0
      BY <1>1 DEF Rising, Pending
    <3> QED BY <3>1, <3>2, <1>5, Constants
  <2>2. entered' - Pending' \in {entered, entered + Quantum}
    BY <1>1, <1>7, <1>9 DEF Pending
  <2> QED BY <1>1, <2>1, <2>2 DEF Rising
<1>11. SourceBlock'
  BY <1>1, <1>7 DEF Sides, SourceBlock, Oldest
<1>12. SourceProcessor'
  <2>1. entered' - Len(kept') = lost' + n
    <3>1. (entered + Quantum) - Len(kept) = lost + n
      BY <1>2, <1>5, Constants
    <3> QED BY <1>1, <3>1
  <2>2. CASE phand' = <<>>
    <3>1. n = 0 /\ lost + 0 = lost
      BY <1>3, <1>4, <1>5, <2>2
    <3>2. entered' - Len(kept') = lost' /\ ppc' = "idle"
      BY <1>1, <2>1, <2>2, <3>1
    <3> QED BY <3>2 DEF SourceProcessor
  <2>3. CASE phand' # <<>>
    <3>1. Stored(phand)'
      BY <1>1, <1>4, <1>6 DEF Stored, Advance
    <3>2. Fresh(phand, entered - Quantum)'
      BY <1>1, <1>3, <1>4, <1>9 DEF Fresh
    <3>3. Len(phand') = n /\ ppc' = "publish" /\ pavail' <= Free'
      BY <1>1, <1>2, <1>3, <1>4, <1>7, <2>3
    <3> QED BY <1>2, <1>5, <1>7, <2>1, <3>1, <3>2, <3>3 DEF SourceProcessor
  <2> QED BY <2>2, <2>3
<1>13. Unopened'
  BY <1>1 DEF Unopened
<1> QED BY <1>1, <1>6, <1>7, <1>8, <1>10, <1>11, <1>12, <1>13 DEF Sides

LEMMA RecordStoreStep == AudioInv /\ RecordStore => AudioInv'
<1> SUFFICES ASSUME AudioInv, RecordStore PROVE AudioInv'
  OBVIOUS
<1> USE DEF AudioInv, positions, shared, history, call, block, page
<1>1. /\ ~Sink /\ ppc = "publish" /\ ppc' = "idle" /\ phand' = <<>>
      /\ writePos' = Advance(writePos, Len(phand)) /\ kept' = kept \o phand
      /\ UNCHANGED <<kind, readPos, ring, lost, block, page, pavail, ptally, entered, out>>
  BY DEF RecordStore
<1>2. /\ Len(phand) <= Free /\ Len(phand) <= Quantum /\ Stored(phand)
      /\ Fresh(phand, entered - Quantum) /\ entered - Len(kept) = lost + Len(phand)
      /\ phand \in Seq(Nat) /\ lost \in Nat
  BY <1>1 DEF Sides, SourceProcessor, Types
<1>3. /\ writePos' \in Slot /\ kept' \in Seq(Nat) /\ Len(kept') = Len(kept) + Len(phand)
      /\ Backed' /\ Used' = Used + Len(phand)
      /\ \A i \in 1 .. Len(kept) : kept'[i] = kept[i]
      /\ \A k \in 1 .. Len(phand) : kept'[Len(kept) + k] = phand[k]
  BY <1>1, <1>2, PublishStep
<1>4. Len(phand) \in Nat /\ Len(kept) \in Nat /\ Used \in Nat /\ entered \in Nat
  BY LenProperties, CountsInRing DEF Types
<1>5. Sink' = Sink
  BY <1>1 DEF Sink
<1>6. Types'
  BY <1>1, <1>3 DEF Types
<1>7. Rising'
  <2> DEFINE c == entered - Quantum
  <2>1. c \in Int /\ c + Len(phand) <= entered
    BY <1>2, <1>4, Constants
  <2>2. \A i \in 1 .. Len(kept) : kept[i] <= c
    BY <1>1 DEF Rising, Pending
  <2>3. /\ Fresh(phand, c)
        /\ \A i \in 1 .. Len(kept) - 1 : kept[i] < kept[i + 1]
    BY <1>2 DEF Rising
  <2> HIDE DEF c
  <2>4. /\ \A i \in 1 .. Len(kept') - 1 : kept'[i] < kept'[i + 1]
        /\ \A i \in 1 .. Len(kept') : kept'[i] <= c + Len(phand)
    BY <1>2, <1>3, <2>1, <2>2, <2>3, RisingStep
  <2>5. entered' - Pending' = entered
    <3>1. Pending' = 0
      BY <1>1, <1>5 DEF Pending
    <3> QED BY <1>1, <1>4, <3>1
  <2>6. \A i \in 1 .. Len(kept') : kept'[i] <= entered
    <3>1. \A x, y \in Int : x <= y /\ y <= entered => x <= entered
      BY <1>4
    <3>2. \A i \in 1 .. Len(kept') : kept'[i] \in Int
      BY <1>3, ElementOfSeq
    <3> QED BY <2>1, <2>4, <3>1, <3>2, <1>4
  <2> QED BY <2>4, <2>5, <2>6 DEF Rising
<1>8. SourceBlock'
  <2>1. Used + Len(phand) \in Int /\ Used + Len(phand) >= Used
    BY <1>4
  <2>2. wpc = "store" => Oldest(hand)'
    <3> SUFFICES ASSUME Oldest(hand) PROVE Oldest(hand)'
      BY <1>1 DEF Sides, SourceBlock
    <3>1. Len(hand) <= Used' /\ \A k \in 1 .. Len(hand) : hand[k] = kept'[Len(out') + k]
      <4>1. hand \in Seq(Nat) /\ out' = out /\ Used' \in Int /\ Used' >= Used
        BY <1>1, <1>3, <2>1 DEF Types
      <4> QED BY <1>3, <4>1, OldestKept
    <3> QED BY <1>1, <3>1 DEF Oldest
  <2>3. wpc = "copy" => room <= Used + Len(phand)
    BY <1>1, <1>4 DEF Sides, SourceBlock, Types
  <2> QED BY <1>1, <1>3, <2>2, <2>3 DEF Sides, SourceBlock
<1>9. SourceProcessor'
  <2>1. entered - (Len(kept) + Len(phand)) = lost
    BY <1>2, <1>4
  <2> QED BY <1>1, <1>3, <2>1 DEF SourceProcessor
<1>10. Unopened'
  BY <1>1 DEF Unopened
<1> QED BY <1>1, <1>3, <1>5, <1>6, <1>7, <1>8, <1>9, <1>10 DEF Sides

-----------------------------------------------------------------------------
(* The invariant.                                                            *)

LEMMA NextAudio == AudioInv /\ [Next]_vars => AudioInv'
<1> SUFFICES ASSUME AudioInv, [Next]_vars PROVE AudioInv'
  OBVIOUS
<1>1. CASE UNCHANGED vars
  <2>1. wanted \in Nat /\ done \in 0 .. wanted /\ Unopened
    BY DEF AudioInv, Types
  <2> QED BY <1>1, <2>1, QuietStep
          DEF vars, shared, positions, history, call, block, page, processor, Unopened
<1>2. CASE Start \/ StopFlowgraph \/ (\E n \in 1 .. MaxItems : Work(n)) \/ StopStep
           \/ Open \/ Suspend \/ Deliver
  BY <1>2, QuietSteps
<1>3. CASE WorkStep
  <2>1. CASE WorkCopy
    BY <2>1, SinkCopyStep, SourceCopyStep
  <2>2. CASE WorkStore
    BY <2>2, SinkStoreStep, SourceStoreStep
  <2> QED BY <1>3, <2>1, <2>2, QuietSteps, WorkLoadStep, WorkCountStep, WorkPaceStep
          DEF WorkStep
<1>4. CASE Processor
  BY <1>4, QuietSteps, LookStep, PlayCopyStep, PlayStoreStep, OverrunStep, RecordCopyStep,
     RecordStoreStep DEF Processor
<1> QED BY <1>1, <1>2, <1>3, <1>4 DEF Next

\* The ring of an audio block is intact at every step of every interleaving: what a
\* side counted is still there when it copies, and what it copied when it stores.
THEOREM RingIntact == Spec => [](Types /\ Backed /\ Rising /\ Sides)
<1>1. AudioInv => Types /\ Backed /\ Rising /\ Sides
  BY DEF AudioInv
<1> QED BY <1>1, InitAudio, NextAudio, PTL DEF Spec

\* Every frame that comes from the flowgraph or the microphone is played or recorded
\* in its place, or counted in LOST_FRAMES, which only one side ever stores, whichever
\* quantum meets a full ring, an empty one or a suspended context.
THEOREM AllFramesAccounted == Spec => []FramesAccounted
<1>1. Types /\ Backed /\ Rising /\ Sides => FramesAccounted
  BY DEF FramesAccounted, InOrder, LossCounted, Backed, Rising, Sides, SinkBlock,
     SourceProcessor
<1> QED BY <1>1, RingIntact, PTL
=============================================================================
