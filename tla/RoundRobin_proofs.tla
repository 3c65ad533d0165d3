-------------------------- MODULE RoundRobin_proofs --------------------------
(***************************************************************************)
(* The two schedulers, for every chain, chunk, buffer and budget.  A       *)
(* deterministic run moves rounds * chunk items through every block.  An   *)
(* ordinary one sleeps only when no block after the source could do        *)
(* anything, and a block of messages leaves only when it has handled all.  *)
(***************************************************************************)
EXTENDS RoundRobin, FiniteSetTheorems, TLAPS

\* The items a block has moved after r of its turns.
Quota(r) == r * Chunk

\* While the run is deterministic no block ends, so nobody is told to.
NobodyEnds ==
    /\ \A b \in Blocks : ~done[b]
    /\ \A l \in Listeners : ~told[l] /\ ~finished[l]

\* Inside a round the blocks before the turn are one chunk ahead of the rest.
InStep ==
    /\ rounds <= Budget
    /\ thread = "turn" =>
          /\ rounds >= 1 /\ turn >= First
          /\ \A b \in Stream : moved[b] = Quota(IF b < turn THEN rounds ELSE rounds - 1)
    /\ thread = "round" /\ ~stop => \A b \in Stream : moved[b] = Quota(rounds)
    /\ thread # "asleep"
    /\ end = "budget" => rounds = Budget /\ \A b \in Stream : moved[b] = Quota(rounds)
    /\ end # "running" => thread = "over"

\* What the proof needs to know of the types.
Shapes ==
    /\ rounds \in Nat /\ turn \in Int
    /\ thread \in {"round", "turn", "asleep", "over"}
    /\ moved \in [Stream -> Nat]
    /\ done \in [Blocks -> BOOLEAN]
    /\ told \in [Listeners -> BOOLEAN] /\ finished \in [Listeners -> BOOLEAN]

StepInv ==
    /\ deterministic => Shapes /\ NobodyEnds /\ InStep
    /\ ~deterministic => end # "budget"

\* One more round is one more chunk.
LEMMA QuotaStep ==
    ASSUME NEW r \in Nat
    PROVE  /\ Quota(r) \in Nat
           /\ Quota(r + 1) = Quota(r) + Chunk
           /\ r >= 1 => Quota(r - 1) \in Nat /\ Quota(r) = Quota(r - 1) + Chunk
<1>1. Chunk \in Nat
  BY GraphAssumption DEF GraphAssumption
<1>2. Quota(r) \in Nat /\ Quota(r + 1) = Quota(r) + Chunk
  BY <1>1 DEF Quota
<1>3. ASSUME r >= 1 PROVE Quota(r - 1) \in Nat /\ Quota(r) = Quota(r - 1) + Chunk
  BY <1>1, <1>3 DEF Quota
<1> QED BY <1>2, <1>3

\* Initially nobody has moved anything.
LEMMA InitStep == Init => StepInv
<1> SUFFICES ASSUME Init PROVE StepInv
  OBVIOUS
<1>1. Shapes
  BY GraphAssumption DEF GraphAssumption, Init, Shapes, Blocks, Stream, Listeners
<1>2. NobodyEnds
  BY DEF Init, NobodyEnds
<1>3. Quota(0) = 0 /\ Budget \in Nat
  BY GraphAssumption DEF GraphAssumption, Quota
<1>4. InStep
  BY <1>3 DEF Init, InStep, Stream
<1> QED BY <1>1, <1>2, <1>4 DEF StepInv, Init

\* A turn of a block with message ports only: it was not told to end.
LEMMA MessageTurnStep ==
    ASSUME StepInv, deterministic, NEW b \in Blocks, b \notin Stream, Turn(b)
    PROVE  UNCHANGED <<moved, done, told, finished>>
<1>1. b \in Listeners
  BY GraphAssumption DEF GraphAssumption, MessageOnly
<1>2. finished' = [finished EXCEPT ![b] = told[b]]
  BY <1>1 DEF Turn, Pump
<1>3. ~told[b] /\ ~finished[b]
  BY <1>1 DEF StepInv, NobodyEnds
<1>4. finished' = finished
  BY <1>1, <1>2, <1>3 DEF StepInv, Shapes
<1>5. ~finished'[b]
  BY <1>3, <1>4
<1> QED BY <1>4, <1>5 DEF Turn, MessageTurn, Blocked

\* A turn of a stream block moves exactly a chunk: the buffer before it holds
\* one, the buffer after it is empty.
LEMMA StreamTurnStep ==
    ASSUME StepInv, deterministic, thread = "turn", NEW b \in Stream, turn = b, Turn(b)
    PROVE  /\ moved' = [moved EXCEPT ![b] = @ + Chunk]
           /\ UNCHANGED <<done, told, finished>>
<1>1. /\ b \in Blocks /\ b \in 1..Last /\ Last \in Nat /\ Last > 1
      /\ First \in Int /\ Final \in Int /\ First <= 1 /\ Last <= Final
  BY GraphAssumption DEF GraphAssumption, Blocks, Stream
<1>2. Chunk \in Nat /\ Chunk >= 1 /\ BufferItems \in Nat /\ BufferItems >= Chunk
  BY GraphAssumption DEF GraphAssumption
<1>3. finished' = finished
  <2>1. CASE b \in Listeners
    BY <2>1 DEF Turn, Pump, StepInv, NobodyEnds, Shapes
  <2>2. CASE b \notin Listeners
    BY <2>2 DEF Turn, Pump
  <2> QED BY <2>1, <2>2
<1>4. ~Gone(b) /\ ~Dry(b) /\ ~Exhausted(b)
  BY <1>1 DEF Gone, Dry, Exhausted, StepInv, NobodyEnds, Blocks, Stream
<1>5. \A c \in Stream : c >= b => moved[c] = Quota(rounds - 1)
  BY <1>1 DEF StepInv, InStep, Stream
<1>6. \A c \in Stream : c < b => moved[c] = Quota(rounds)
  BY <1>1 DEF StepInv, InStep, Stream
<1>7. rounds \in Nat /\ rounds >= 1
  BY DEF StepInv, InStep, Shapes
<1>8. Quota(rounds) = Quota(rounds - 1) + Chunk /\ Quota(rounds - 1) \in Nat
  BY <1>7, QuotaStep
<1>9. Supply(b) = Chunk
  <2>1. CASE b = 1
    BY <2>1 DEF Supply
  <2>2. CASE b > 1
    <3>1. b - 1 \in Stream /\ b - 1 < b
      BY <1>1, <2>2 DEF Stream
    <3>2. moved[b - 1] = Quota(rounds) /\ moved[b] = Quota(rounds - 1)
      BY <3>1, <1>1, <1>5, <1>6
    <3> QED BY <3>2, <1>2, <1>8, <2>2 DEF Supply
  <2> QED BY <1>1, <2>1, <2>2
<1>10. Room(b) >= Chunk /\ Room(b) \in Nat
  <2>1. CASE b = Last
    BY <1>2, <2>1 DEF Room
  <2>2. CASE b # Last
    <3>1. b + 1 \in Stream /\ b + 1 >= b
      BY <1>1, <2>2 DEF Stream
    <3>2. moved[b + 1] = moved[b] /\ moved[b] \in Nat
      BY <3>1, <1>1, <1>5, <1>8
    <3> QED BY <3>2, <1>2, <2>2 DEF Room
  <2> QED BY <2>1, <2>2
<1>11. CallSize(b) = Chunk
  BY <1>2, <1>9, <1>10 DEF CallSize, Smaller
<1>12. Ran(b, Chunk)
  <2>1. \E n \in Returned(b) : Ran(b, n)
    BY <1>2, <1>4, <1>11 DEF Turn, StreamTurn
  <2> QED BY <2>1, <1>11 DEF Returned
<1>13. ~(b \in Listeners /\ finished'[b])
  BY <1>3 DEF StepInv, NobodyEnds
<1> QED BY <1>3, <1>12, <1>13 DEF Ran

\* Every step keeps the blocks in step.
LEMMA NextStep == StepInv /\ [Next]_vars => StepInv'
<1> SUFFICES ASSUME StepInv, [Next]_vars PROVE StepInv'
  OBVIOUS
<1>0. deterministic' = deterministic
  BY DEF Next, Loop, BeginRound, Skip, TakeTurn, EndRound, Wake, Throw, Stop, Over, vars
<1>13. ASSUME ~deterministic PROVE end' # "budget"
  BY <1>13 DEF StepInv, Next, Loop, BeginRound, BudgetSpent, Skip, TakeTurn, EndRound, Wake, Throw,
               Stop, Over, vars
<1> SUFFICES ASSUME deterministic' PROVE (Shapes /\ NobodyEnds /\ InStep)'
  BY <1>0, <1>13 DEF StepInv
<1>1. deterministic
  BY <1>0
<1>2. Shapes /\ NobodyEnds /\ InStep
  BY <1>1 DEF StepInv
<1>3. First \in Int /\ Final \in Int /\ Last \in Nat /\ First <= 1 /\ Last <= Final /\ Last > 1
  BY GraphAssumption DEF GraphAssumption
<1>4. Budget \in Nat /\ Budget >= 1
  BY GraphAssumption DEF GraphAssumption
<1>5. CASE BeginRound
  <2>1. UNCHANGED <<moved, done, told, finished, stop>>
    BY <1>5 DEF BeginRound, counts
  <2>2. NobodyEnds'
    BY <1>2, <2>1 DEF NobodyEnds
  <2>3. CASE thread' = "over"
    <3>1. UNCHANGED <<rounds, turn>> /\ thread = "round"
      BY <1>5, <2>3 DEF BeginRound, Over
    <3>2. end' = "budget" => rounds = Budget /\ ~stop
      BY <1>2, <1>4, <1>5, <2>3, <3>1 DEF BeginRound, Over, BudgetSpent, InStep, Shapes
    <3>3. InStep'
      BY <1>2, <2>1, <2>3, <3>1, <3>2 DEF InStep
    <3> QED BY <1>2, <2>1, <2>2, <2>3, <3>1, <3>3 DEF Shapes
  <2>4. CASE thread' # "over"
    <3>1. /\ thread = "round" /\ thread' = "turn" /\ turn' = First /\ ~stop
          /\ rounds' = Counted /\ end' = end /\ ~BudgetSpent
      BY <1>5, <2>4 DEF BeginRound, Over
    <3>2. rounds < Budget /\ rounds \in Nat /\ rounds' = rounds + 1
      BY <1>1, <1>2, <1>4, <3>1 DEF BudgetSpent, Counted, InStep, Shapes
    <3>3. \A b \in Stream : moved[b] = Quota(rounds)
      BY <1>2, <3>1 DEF InStep
    <3>4. \A b \in Stream : ~(b < turn') /\ moved'[b] = Quota(rounds' - 1)
      BY <1>3, <2>1, <3>1, <3>2, <3>3 DEF Stream
    <3>5. end' = "running"
      BY <1>2, <3>1 DEF InStep
    <3>6. InStep'
      BY <1>3, <1>4, <3>1, <3>2, <3>4, <3>5 DEF InStep
    <3> QED BY <1>2, <1>3, <2>1, <2>2, <3>1, <3>2, <3>6 DEF Shapes
  <2> QED BY <2>3, <2>4
<1>6. CASE Skip
  BY <1>2, <1>6 DEF Skip, NobodyEnds, Blocks, Shapes, InStep, counts
<1>7. CASE TakeTurn
  <2>1. thread = "turn" /\ turn' = turn + 1 /\ Turn(turn)
        /\ UNCHANGED <<thread, rounds, end, stop>>
    BY <1>7 DEF TakeTurn
  <2>2. end = "running" /\ turn \in Int /\ rounds \in Nat /\ rounds >= 1
    BY <1>2, <2>1 DEF InStep, Shapes
  <2>3. CASE turn \in Stream
    <3>1. /\ moved' = [moved EXCEPT ![turn] = @ + Chunk]
          /\ UNCHANGED <<done, told, finished>>
      BY <1>1, <2>1, <2>3, StreamTurnStep
    <3>2. moved[turn] = Quota(rounds - 1)
      BY <1>2, <2>1, <2>2, <2>3 DEF InStep
    <3>3. Quota(rounds) = Quota(rounds - 1) + Chunk /\ Quota(rounds) \in Nat
      BY <2>2, QuotaStep
    <3>4. moved' = [moved EXCEPT ![turn] = Quota(rounds)]
      BY <3>1, <3>2, <3>3, <2>3, <1>2 DEF Shapes
    <3>5. \A b \in Stream : moved'[b] = Quota(IF b < turn' THEN rounds ELSE rounds - 1)
      <4> TAKE b \in Stream
      <4>1. b \in Int
        BY DEF Stream
      <4>2. CASE b = turn
        BY <4>2, <3>4, <2>1, <2>2, <1>2 DEF Shapes
      <4>3. CASE b # turn
        <5>1. moved'[b] = moved[b] /\ (b < turn' <=> b < turn)
          BY <4>1, <4>3, <3>4, <2>1, <2>2, <1>2 DEF Shapes
        <5> QED BY <5>1, <1>2, <2>1 DEF InStep
      <4> QED BY <4>2, <4>3
    <3>6. InStep'
      BY <1>2, <1>3, <2>1, <2>2, <3>5 DEF InStep, Shapes
    <3>7. moved' \in [Stream -> Nat]
      BY <1>2, <3>3, <3>4 DEF Shapes
    <3>8. Shapes'
      BY <1>2, <2>1, <2>2, <3>1, <3>7 DEF Shapes
    <3>9. NobodyEnds'
      BY <1>2, <3>1 DEF NobodyEnds
    <3> QED BY <3>6, <3>8, <3>9
  <2>4. CASE turn \notin Stream
    <3>1. turn \in Blocks
      BY <1>2, <1>3, <1>7, <2>2, <2>4 DEF TakeTurn, Blocks, InStep, Shapes
    <3>2. UNCHANGED <<moved, done, told, finished>>
      BY <1>1, <2>1, <2>4, <3>1, MessageTurnStep
    <3>3. \A b \in Stream : b < turn' <=> b < turn
      BY <2>1, <2>2, <2>4 DEF Stream
    <3>4. InStep'
      BY <1>2, <1>3, <2>1, <2>2, <3>2, <3>3 DEF InStep, Shapes
    <3> QED BY <1>2, <2>1, <2>2, <3>2, <3>4 DEF Shapes, NobodyEnds
  <2> QED BY <2>3, <2>4
<1>8. CASE EndRound
  <2>1. /\ thread = "turn" /\ thread' = "round" /\ end = "running"
        /\ UNCHANGED <<deterministic, stop, turn, rounds, moved, done, told, finished, end>>
    BY <1>1, <1>2, <1>8 DEF EndRound, counts, InStep
  <2>2. ~stop => \A b \in Stream : b < turn
    BY <1>2, <1>3, <1>8 DEF EndRound, Stream, Shapes
  <2>3. InStep'
    BY <1>2, <2>1, <2>2 DEF InStep
  <2> QED BY <1>2, <2>1, <2>3 DEF Shapes, NobodyEnds
<1>9. CASE Wake
  BY <1>2, <1>9 DEF Wake, InStep
<1>10. CASE Throw
  BY <1>2, <1>10 DEF Throw, Over, NobodyEnds, Shapes, InStep, counts
<1>11. CASE Stop
  BY <1>2, <1>11 DEF Stop, NobodyEnds, Shapes, InStep, counts
<1>12. CASE UNCHANGED vars
  BY <1>2, <1>12 DEF vars, NobodyEnds, Shapes, InStep, counts
<1> QED BY <1>5, <1>6, <1>7, <1>8, <1>9, <1>10, <1>11, <1>12 DEF Next, Loop

\* A deterministic run that has spent its budget has moved budget * chunk items
\* through every block (round_robin_body, docs/schedulers.md:208).
THEOREM ExactlyTheBudget == Spec => []ExactCount
<1>1. StepInv => ExactCount
  BY DEF StepInv, InStep, ExactCount, Quota
<1> QED BY <1>1, InitStep, NextStep, PTL DEF Spec

-----------------------------------------------------------------------------
\* live counts the blocks that are not done.
LiveCounts == live = Cardinality({b \in Blocks : ~done[b]})

\* A buffer never holds less than nothing, nor more than it has room for, and
\* the source of an ordinary run makes no more than it has.
Buffers ==
    /\ \A b \in Stream : b < Last =>
          moved[b + 1] <= moved[b] /\ moved[b] - moved[b + 1] <= BufferItems
    /\ ~deterministic => moved[1] <= Total

\* Who has handled a "done" was told, who was told has a publisher that is done,
\* and who left for it has handled all that publisher will ever post.
EndsHeard ==
    /\ \A l \in Listeners : (finished[l] => told[l]) /\ (told[l] => done[Publisher[l]])
    /\ \A m \in MessageOnly : done[m] => told[m] /\ heard[m] = posted[m]

\* As long as a round has made no progress, those that have had their turn can
\* do nothing.
NothingMissed ==
    /\ thread = "turn" /\ ~progressed => \A b \in 2..Last : b < turn => ~Could(b)
    /\ SleepsOnlyWhenIdle

SchedulerInv == TypeOK /\ LiveCounts /\ Buffers /\ EndsHeard /\ NothingMissed

\* What the constants are, for the leaves.
LEMMA Graph ==
    /\ First \in Int /\ Final \in Int /\ Last \in Nat /\ First <= 1 /\ 1 < Last /\ Last <= Final
    /\ Chunk \in Nat /\ Chunk >= 1 /\ BufferItems \in Nat /\ Total \in Nat /\ MaxPosts \in Nat
    /\ Listeners \subseteq Blocks /\ MessageOnly \subseteq Listeners
    /\ Stream \subseteq Blocks /\ Stream \subseteq Nat /\ 1 \in Stream /\ Last \in Stream
    /\ \A l \in Listeners : Publisher[l] \in Stream
    /\ \A b \in Blocks : b \in Int
  BY GraphAssumption DEF GraphAssumption, Blocks, Stream

\* A call of work() is no larger than the buffers on its two sides allow.
LEMMA CallSizeFits ==
    ASSUME TypeOK, Buffers, NEW b \in Stream
    PROVE  /\ CallSize(b) \in Nat /\ Room(b) \in Nat /\ Supply(b) \in Nat
           /\ CallSize(b) <= Room(b) /\ CallSize(b) <= Supply(b)
<1>1. moved[b] \in Nat /\ moved[1] \in Nat /\ b \in 1..Last /\ b \in Nat
  BY Graph DEF TypeOK, Stream
<1>2. Room(b) \in Nat
  <2>1. CASE b = Last
    BY <2>1, Graph DEF Room
  <2>2. CASE b # Last
    <3>1. b < Last /\ b + 1 \in Stream
      BY <1>1, <2>2, Graph DEF Stream
    <3>2. moved[b + 1] \in Nat
      BY <3>1 DEF TypeOK
    <3>3. moved[b + 1] <= moved[b] /\ moved[b] - moved[b + 1] <= BufferItems
      BY <3>1 DEF Buffers
    <3> QED BY <1>1, <2>2, <3>2, <3>3, Graph DEF Room
  <2> QED BY <2>1, <2>2
<1>3. Supply(b) \in Nat
  <2>1. CASE b > 1
    <3>1. b - 1 \in Stream /\ b - 1 < Last /\ (b - 1) + 1 = b
      BY <1>1, <2>1, Graph DEF Stream
    <3>2. moved[b - 1] \in Nat /\ moved[b] <= moved[b - 1]
      BY <3>1 DEF TypeOK, Buffers
    <3> QED BY <1>1, <2>1, <3>2 DEF Supply
  <2>2. CASE b = 1
    BY <1>1, <2>2, Graph DEF Supply, Buffers, TypeOK
  <2> QED BY <1>1, <2>1, <2>2
<1> QED BY <1>2, <1>3, Graph DEF CallSize, Smaller

\* What n items moved by a block do to the buffers.
LEMMA BuffersStep ==
    ASSUME TypeOK, Buffers, NEW b \in Stream, NEW n \in 0..CallSize(b),
           moved' = [moved EXCEPT ![b] = @ + n], deterministic' = deterministic
    PROVE  Buffers' /\ moved' \in [Stream -> Nat]
<1>1. /\ CallSize(b) \in Nat /\ Room(b) \in Nat /\ Supply(b) \in Nat
      /\ n <= Room(b) /\ n <= Supply(b) /\ n \in Nat
  BY CallSizeFits
<1>2. \A c \in Stream : moved[c] \in Nat /\ c \in Nat /\ c <= Last
  BY Graph DEF TypeOK, Stream
<1>3. \A c \in Stream : moved'[c] = IF c = b THEN moved[c] + n ELSE moved[c]
  BY DEF TypeOK
<1>4. moved' \in [Stream -> Nat]
  BY <1>1, <1>2 DEF TypeOK
<1>5. ASSUME NEW c \in Stream, c < Last
      PROVE  moved'[c + 1] <= moved'[c] /\ moved'[c] - moved'[c + 1] <= BufferItems
  <2>1. c + 1 \in Stream
    BY <1>2, <1>5, Graph DEF Stream
  <2>2. moved[c + 1] <= moved[c] /\ moved[c] - moved[c + 1] <= BufferItems
    BY <1>5 DEF Buffers
  <2>3. CASE c = b
    <3>1. Room(b) = BufferItems - (moved[c] - moved[c + 1])
      BY <1>2, <1>5, <2>3, Graph DEF Room
    <3>2. moved'[c] = moved[c] + n /\ moved'[c + 1] = moved[c + 1]
      BY <1>2, <1>3, <2>1, <2>3
    <3> QED BY <1>1, <1>2, <2>1, <2>2, <3>1, <3>2, Graph
  <2>4. CASE c + 1 = b
    <3>1. Supply(b) = moved[c] - moved[c + 1]
      BY <1>2, <2>1, <2>4, Graph DEF Supply, Stream
    <3>2. moved'[c] = moved[c] /\ moved'[c + 1] = moved[c + 1] + n
      BY <1>2, <1>3, <2>1, <2>4
    <3> QED BY <1>1, <1>2, <2>1, <2>2, <3>1, <3>2, Graph
  <2>5. CASE c # b /\ c + 1 # b
    BY <1>3, <2>1, <2>2, <2>5
  <2> QED BY <2>3, <2>4, <2>5
<1>6. ASSUME ~deterministic PROVE moved'[1] <= Total
  <2>1. CASE b = 1
    <3>1. Supply(b) = Total - moved[1]
      BY <1>6, <2>1 DEF Supply
    <3> QED BY <1>1, <1>2, <1>3, <2>1, <3>1, Graph
  <2>2. CASE b # 1
    BY <1>3, <1>6, <2>2, Graph DEF Buffers
  <2> QED BY <2>1, <2>2
<1> QED BY <1>4, <1>5, <1>6 DEF Buffers

\* The block leaves, and says so to its listeners.
Leaves(b) ==
    /\ done' = [done EXCEPT ![b] = TRUE] /\ live' = live - 1
    /\ told' = [l \in Listeners |-> told[l] \/ Publisher[l] = b]

\* Everything a turn can come to.
LEMMA TurnOutcome ==
    ASSUME TypeOK, Buffers, NEW b \in Blocks, ~done[b], Turn(b), deterministic' = deterministic
    PROVE  /\ heard' = [l \in Listeners |-> IF l = b THEN posted[l] ELSE heard[l]]
           /\ finished' = [l \in Listeners |-> IF l = b THEN told[l] ELSE finished[l]]
           /\ Leaves(b) \/ UNCHANGED <<done, live, told>>
           /\ Buffers' /\ moved' \in [Stream -> Nat]
           /\ posted' \in [Listeners -> Nat]
           /\ \A l \in Listeners : Publisher[l] # b => posted'[l] = posted[l]
           /\ b \in MessageOnly => posted' = posted /\ (done'[b] => told[b])
           /\ progressed' \in BOOLEAN
           /\ ~progressed' => ~progressed /\ UNCHANGED <<done, moved>> /\ (b \in 2..Last => ~Could(b))
<1>1. /\ heard' = [l \in Listeners |-> IF l = b THEN posted[l] ELSE heard[l]]
      /\ finished' = [l \in Listeners |-> IF l = b THEN told[l] ELSE finished[l]]
  BY DEF Turn, Pump, TypeOK
<1>2. CASE Retire(b)
  <2>1. b \in MessageOnly => told[b]
    <3>1. b \in MessageOnly => b \in Listeners /\ b \notin Stream
      BY Graph DEF MessageOnly
    <3>2. b \in MessageOnly => finished'[b]
      BY <1>2, <3>1 DEF Turn, MessageTurn, Blocked, Retire, TypeOK
    <3> QED BY <1>1, <3>1, <3>2
  <2> QED BY <1>1, <1>2, <2>1 DEF Retire, Tell, Leaves, Buffers, TypeOK
<1>3. CASE Blocked /\ (b \in 2..Last => ~Could(b))
  <2>1. b \in MessageOnly => ~done'[b]
    BY <1>3 DEF Blocked
  <2> QED BY <1>1, <1>3, <2>1 DEF Blocked, Buffers, TypeOK
<1>4. ASSUME b \in Stream, NEW n \in Returned(b), Ran(b, n), CallSize(b) # 0 PROVE
             /\ Leaves(b) \/ UNCHANGED <<done, live, told>>
             /\ Buffers' /\ moved' \in [Stream -> Nat]
             /\ posted' \in [Listeners -> Nat]
             /\ \A l \in Listeners : Publisher[l] # b => posted'[l] = posted[l]
             /\ progressed' \in BOOLEAN
             /\ ~progressed' => ~progressed /\ UNCHANGED <<done, moved>> /\ b \notin 2..Last
  <2>1. CallSize(b) \in Nat \ {0} /\ n \in 0..CallSize(b)
    BY <1>4, CallSizeFits DEF Returned
  <2>2. moved' = [moved EXCEPT ![b] = @ + n]
    BY <1>4 DEF Ran
  <2>3. Buffers' /\ moved' \in [Stream -> Nat]
    BY <1>4, <2>1, <2>2, BuffersStep
  <2>4. /\ posted' \in [Listeners -> Nat]
        /\ \A l \in Listeners : Publisher[l] # b => posted'[l] = posted[l]
    BY <1>4, Graph DEF Ran, Post
  <2>5. Leaves(b) \/ UNCHANGED <<done, live, told>>
    BY <1>4 DEF Ran, Tell, Leaves
  <2>6. progressed' \in BOOLEAN /\ (progressed => progressed')
    BY <1>4 DEF Ran, Progress, Ready, TypeOK
  <2>7. ASSUME ~progressed' PROVE UNCHANGED <<done, moved>> /\ b \notin 2..Last
    <3>1. b = 1 /\ Ready(b, n) = "READY_NO_OUTPUT" /\ UNCHANGED done
      BY <1>4, <2>7 DEF Ran, Progress
    <3>2. n = 0
      BY <2>1, <3>1, Graph DEF Ready
    <3> QED BY <2>2, <3>1, <3>2, Graph DEF TypeOK
  <2> QED BY <2>3, <2>4, <2>5, <2>6, <2>7
<1>5. b \in MessageOnly => b \notin Stream
  BY DEF MessageOnly
<1>6. CASE b \in Stream
  <2>1. CASE CallSize(b) = 0 /\ ~Gone(b) /\ ~Dry(b) /\ Blocked
    BY <1>3, <2>1 DEF Could
  <2>2. ASSUME NEW n \in Returned(b), Ran(b, n), CallSize(b) # 0 PROVE
               /\ Leaves(b) \/ UNCHANGED <<done, live, told>>
               /\ Buffers' /\ moved' \in [Stream -> Nat]
               /\ posted' \in [Listeners -> Nat]
               /\ \A l \in Listeners : Publisher[l] # b => posted'[l] = posted[l]
               /\ progressed' \in BOOLEAN
               /\ ~progressed' => ~progressed /\ UNCHANGED <<done, moved>> /\ b \notin 2..Last
    BY <1>4, <1>6, <2>2
  <2>3. Retire(b) \/ (CallSize(b) = 0 /\ ~Gone(b) /\ ~Dry(b) /\ Blocked)
        \/ (CallSize(b) # 0 /\ \E n \in Returned(b) : Ran(b, n))
    BY <1>6 DEF Turn, StreamTurn
  <2> QED BY <1>1, <1>2, <1>5, <1>6, <2>1, <2>2, <2>3
<1>7. CASE b \notin Stream
  <2>1. Retire(b) \/ Blocked
    BY <1>7 DEF Turn, MessageTurn
  <2>2. b \notin 2..Last
    BY <1>7, Graph DEF Stream
  <2> QED BY <1>2, <1>3, <2>1, <2>2
<1> QED BY <1>6, <1>7

\* One block fewer is live when one leaves.
LEMMA OneFewer ==
    ASSUME TypeOK, LiveCounts, NEW b \in Blocks, ~done[b], Leaves(b)
    PROVE  LiveCounts' /\ live' \in Nat
<1> DEFINE before == {c \in Blocks : ~done[c]}
           after == {c \in Blocks : ~done'[c]}
<1>1. IsFiniteSet(Blocks)
  BY Graph, FS_Interval DEF Blocks
<1>2. IsFiniteSet(before)
  BY <1>1, FS_Subset
<1>3. b \in before /\ after = before \ {b}
  BY DEF Leaves, TypeOK
<1>4. Cardinality(after) = Cardinality(before) - 1 /\ IsFiniteSet(after)
  BY <1>2, <1>3, FS_RemoveElement
<1>5. Cardinality(after) \in Nat
  BY <1>4, FS_CardinalityType
<1> QED BY <1>4, <1>5 DEF LiveCounts, Leaves

\* A turn keeps the invariant.
LEMMA TakeTurnStep ==
    ASSUME SchedulerInv, TakeTurn
    PROVE  SchedulerInv'
<1> DEFINE b == turn
<1>1. /\ thread = "turn" /\ b \in Blocks /\ ~done[b] /\ ~stop /\ Turn(b) /\ turn' = turn + 1
      /\ UNCHANGED <<deterministic, stop, thread, rounds, end>>
  BY Graph DEF TakeTurn, SchedulerInv, TypeOK, Blocks
<1> HIDE DEF b
<1>2. TypeOK /\ LiveCounts /\ Buffers /\ EndsHeard /\ NothingMissed
  BY DEF SchedulerInv
<1>3. /\ heard' = [l \in Listeners |-> IF l = b THEN posted[l] ELSE heard[l]]
      /\ finished' = [l \in Listeners |-> IF l = b THEN told[l] ELSE finished[l]]
      /\ Leaves(b) \/ UNCHANGED <<done, live, told>>
      /\ Buffers' /\ moved' \in [Stream -> Nat]
      /\ posted' \in [Listeners -> Nat]
      /\ \A l \in Listeners : Publisher[l] # b => posted'[l] = posted[l]
      /\ b \in MessageOnly => posted' = posted /\ (done'[b] => told[b])
      /\ progressed' \in BOOLEAN
      /\ ~progressed' => ~progressed /\ UNCHANGED <<done, moved>> /\ (b \in 2..Last => ~Could(b))
  BY <1>1, <1>2, TurnOutcome
<1>4. LiveCounts' /\ live' \in Nat
  <2>1. CASE Leaves(b)
    BY <1>1, <1>2, <2>1, OneFewer
  <2>2. CASE UNCHANGED <<done, live, told>>
    BY <1>2, <2>2 DEF LiveCounts, TypeOK
  <2> QED BY <1>3, <2>1, <2>2
<1>5. /\ done' \in [Blocks -> BOOLEAN] /\ told' \in [Listeners -> BOOLEAN]
      /\ \A c \in Blocks : c # b => done'[c] = done[c]
      /\ \A c \in Blocks : done[c] => done'[c]
      /\ \A l \in Listeners : told'[l] => told[l] \/ (Publisher[l] = b /\ done'[b])
      /\ \A l \in Listeners : told[l] => told'[l]
  <2>1. CASE Leaves(b)
    BY <1>1, <1>2, <2>1 DEF Leaves, TypeOK
  <2>2. CASE UNCHANGED <<done, live, told>>
    <3>1. done' = done /\ told' = told
      BY <2>2
    <3>2. done \in [Blocks -> BOOLEAN] /\ told \in [Listeners -> BOOLEAN]
      BY <1>2 DEF TypeOK
    <3> QED BY <3>1, <3>2, Zenon
  <2> QED BY <1>3, <2>1, <2>2
<1>6. TypeOK'
  <2>1. turn' \in First..Final + 1
    BY <1>1, <1>2, Graph DEF TakeTurn, TypeOK, Blocks, b
  <2>2. heard' \in [Listeners -> Nat] /\ finished' \in [Listeners -> BOOLEAN]
    BY <1>2, <1>3 DEF TypeOK
  <2> QED BY <1>1, <1>2, <1>3, <1>4, <1>5, <2>1, <2>2 DEF TypeOK
<1>7. EndsHeard'
  <2>1. ASSUME NEW l \in Listeners
        PROVE  (finished'[l] => told'[l]) /\ (told'[l] => done'[Publisher[l]])
    BY <1>2, <1>3, <1>5, Graph DEF EndsHeard
  <2>2. ASSUME NEW m \in MessageOnly, done'[m] PROVE told'[m] /\ heard'[m] = posted'[m]
    <3>1. m \in Listeners /\ m \in Blocks
      BY Graph
    <3>2. CASE m = b
      BY <1>3, <1>5, <2>2, <3>1, <3>2
    <3>3. CASE m # b
      <4>1. told[m] /\ heard[m] = posted[m]
        BY <1>2, <1>5, <2>2, <3>1, <3>3 DEF EndsHeard
      <4>2. Publisher[m] # b
        BY <1>1, <1>2, <3>1, <4>1 DEF EndsHeard
      <4> QED BY <1>3, <1>5, <3>1, <3>3, <4>1, <4>2
    <3> QED BY <3>2, <3>3
  <2> QED BY <2>1, <2>2 DEF EndsHeard
<1>8. NothingMissed'
  <2>1. SleepsOnlyWhenIdle'
    BY <1>1 DEF SleepsOnlyWhenIdle
  <2>2. ASSUME ~progressed', NEW c \in 2..Last, c < turn' PROVE ~Could(c)'
    <3>1. ~progressed /\ UNCHANGED <<done, moved, deterministic>>
      BY <1>1, <1>3, <2>2
    <3>2. ~Could(c)
      <4>1. c < turn \/ c = b
        BY <1>1, <1>2, <2>2, Graph DEF TypeOK, b
      <4>2. CASE c < turn
        BY <1>1, <1>2, <2>2, <3>1, <4>2 DEF NothingMissed
      <4>3. CASE c = b
        BY <1>3, <2>2, <4>3
      <4> QED BY <4>1, <4>2, <4>3
    <3> QED BY <3>1, <3>2 DEF Could, Gone, Dry, CallSize, Room, Supply
  <2> QED BY <2>1, <2>2 DEF NothingMissed
<1> QED BY <1>3, <1>4, <1>6, <1>7, <1>8 DEF SchedulerInv

\* The steps of the loop between two turns, and those of the other thread, leave
\* blocks, buffers and messages alone.
LEMMA LoopStep ==
    ASSUME SchedulerInv, [Next]_vars, ~TakeTurn
    PROVE  SchedulerInv'
<1> USE DEF SchedulerInv
<1>1. UNCHANGED <<deterministic, live, done, moved, posted, heard, told, finished>>
  BY DEF Next, Loop, BeginRound, Skip, EndRound, Wake, Throw, Stop, vars, counts
<1>2. LiveCounts' /\ Buffers' /\ EndsHeard'
  BY <1>1 DEF LiveCounts, Buffers, EndsHeard
<1>3. TypeOK'
  <2>1. rounds' \in Nat /\ turn' \in First..Final + 1
    BY Graph DEF Next, Loop, BeginRound, Over, Counted, Skip, EndRound, Wake, Throw, Stop, vars,
                 TypeOK
  <2>2. /\ thread' \in {"round", "turn", "asleep", "over"} /\ stop' \in BOOLEAN
        /\ end' \in {"running", "budget", "stopped", "finished", "exception"}
        /\ progressed' \in BOOLEAN
    BY DEF Next, Loop, BeginRound, Over, Skip, EndRound, Wake, Throw, Stop, vars, TypeOK
  <2> QED BY <1>1, <2>1, <2>2 DEF TypeOK
<1>4. \A c \in 2..Last : Could(c)' <=> Could(c)
  BY <1>1 DEF Could, Gone, Dry, CallSize, Room, Supply
<1>5. NothingMissed'
  <2>1. CASE BeginRound
    <3>1. thread' = "turn" => turn' = First
      BY <2>1 DEF BeginRound, Over
    <3>2. thread' # "asleep"
      BY <2>1 DEF BeginRound, Over
    <3> QED BY <3>1, <3>2, Graph DEF NothingMissed, SleepsOnlyWhenIdle
  <2>2. CASE Skip
    <3>1. ASSUME ~progressed', NEW c \in 2..Last, c < turn' PROVE ~Could(c)
      <4>1. thread = "turn" /\ ~progressed /\ done[turn] /\ turn' = turn + 1
        BY <2>2, <3>1 DEF Skip
      <4>2. c < turn \/ c = turn
        BY <3>1, <4>1, Graph DEF TypeOK
      <4> QED BY <3>1, <4>1, <4>2 DEF NothingMissed, Could
    <3>2. thread' = "turn"
      BY <2>2 DEF Skip
    <3> QED BY <1>4, <3>1, <3>2 DEF NothingMissed, SleepsOnlyWhenIdle
  <2>3. CASE EndRound
    <3>1. ASSUME thread' = "asleep", ~stop', NEW c \in 2..Last PROVE ~Could(c)
      <4>1. thread = "turn" /\ ~progressed /\ ~(turn <= Final)
        BY <2>3, <3>1 DEF EndRound
      <4>2. c < turn
        BY <4>1, Graph DEF TypeOK
      <4> QED BY <4>1, <4>2 DEF NothingMissed
    <3>2. thread' # "turn"
      BY <2>3 DEF EndRound
    <3> QED BY <1>4, <3>1, <3>2 DEF NothingMissed, SleepsOnlyWhenIdle
  <2>4. CASE Wake \/ Throw
    BY <2>4 DEF Wake, Throw, Over, NothingMissed, SleepsOnlyWhenIdle
  <2>5. CASE Stop \/ UNCHANGED vars
    BY <1>4, <2>5 DEF Stop, vars, NothingMissed, SleepsOnlyWhenIdle
  <2> QED BY <2>1, <2>2, <2>3, <2>4, <2>5 DEF Next, Loop
<1> QED BY <1>2, <1>3, <1>5

LEMMA SchedulerInvariant == Spec => []SchedulerInv
<1>1. Init => SchedulerInv
  <2> SUFFICES ASSUME Init PROVE SchedulerInv
    OBVIOUS
  <2>1. live \in Nat /\ LiveCounts
    <3>1. {b \in Blocks : ~done[b]} = First..Final
      BY DEF Init, Blocks
    <3>2. Cardinality(First..Final) = Final - First + 1
      BY Graph, FS_Interval
    <3>3. live = Final - First + 1
      BY DEF Init
    <3>4. live \in Nat
      BY <3>3, Graph
    <3> QED BY <3>1, <3>2, <3>3, <3>4 DEF LiveCounts
  <2>2. TypeOK
    <3>1. turn \in First..Final + 1
      BY Graph DEF Init
    <3> QED BY <2>1, <3>1, Graph DEF Init, TypeOK
  <2>3. Buffers
    <3>1. \A b \in Stream : b < Last => b + 1 \in Stream
      BY Graph DEF Stream
    <3> QED BY <3>1, Graph DEF Init, Buffers
  <2>4. EndsHeard
    BY Graph DEF Init, EndsHeard
  <2>5. NothingMissed
    BY DEF Init, NothingMissed, SleepsOnlyWhenIdle
  <2> QED BY <2>1, <2>2, <2>3, <2>4, <2>5 DEF SchedulerInv
<1>2. SchedulerInv /\ [Next]_vars => SchedulerInv'
  BY TakeTurnStep, LoopStep
<1> QED BY <1>1, <1>2, PTL DEF Spec

\* The counters of the loop keep their types, the number of live blocks included.
THEOREM TypeCorrect == Spec => []TypeOK
<1>1. SchedulerInv => TypeOK
  BY DEF SchedulerInv
<1> QED BY <1>1, SchedulerInvariant, PTL

\* round_robin_body: the count by which the loop ends is the number of blocks that
\* are not done, and no buffer is over- or underrun.
THEOREM CountsHold == Spec => [](LiveCounts /\ Buffers)
<1>1. SchedulerInv => LiveCounts /\ Buffers
  BY DEF SchedulerInv
<1> QED BY <1>1, SchedulerInvariant, PTL

\* pump_messages() before a block may leave: one with message ports only has handled
\* every message of the block that ended it.
THEOREM HeardBeforeLeaving == Spec => []MessagesHeard
<1>1. SchedulerInv => MessagesHeard
  BY DEF SchedulerInv, EndsHeard, MessagesHeard
<1> QED BY <1>1, SchedulerInvariant, PTL

\* The back-off of round_robin_body: the thread sleeps after a round without progress,
\* and then there was nothing to do but wait for a source.
THEOREM SleepsIdle == Spec => []SleepsOnlyWhenIdle
<1>1. SchedulerInv => SleepsOnlyWhenIdle
  BY DEF SchedulerInv, NothingMissed
<1> QED BY <1>1, SchedulerInvariant, PTL
=============================================================================
