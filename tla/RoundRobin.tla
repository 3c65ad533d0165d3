----------------------------- MODULE RoundRobin -----------------------------
(***************************************************************************)
(* The single-threaded and the deterministic scheduler of                  *)
(* runner/src/schedulers.hpp: one thread walks the blocks in topological   *)
(* order, pumps each block's messages and runs its executor once.          *)
(*                                                                         *)
(* The flowgraph is a chain of stream blocks 1..Last, one item in, one out *)
(* (1 is the source, Last the sink), and blocks with message ports only at *)
(* the other positions of First..Final.  What GNU Radio's executor and     *)
(* buffers do with a block is external: Turn's cases.                      *)
(***************************************************************************)
EXTENDS Integers, FiniteSets

CONSTANTS
    First, Last, Final,  \* positions in the block list
    Publisher,           \* a block with a message port |-> who posts to it
    Chunk,               \* the limit of one work() call
    BufferItems,         \* room of a stream buffer
    Budget,              \* rounds of a deterministic run
    Total,               \* items of the source in an ordinary run
    MaxPosts             \* bound: messages posted to one block

Blocks == First..Final
Stream == 1..Last
Listeners == DOMAIN Publisher
MessageOnly == Blocks \ Stream

\* A chunk fits a buffer (GNU Radio makes buffers of at least two calls).
GraphAssumption ==
    /\ First \in Int /\ Last \in Nat /\ Final \in Int
    /\ First <= 1 /\ 1 < Last /\ Last <= Final
    /\ Listeners \subseteq Blocks /\ MessageOnly \subseteq Listeners
    /\ Publisher \in [Listeners -> Stream]
    /\ {Chunk, Budget, Total, MaxPosts} \subseteq Nat \ {0}
    /\ BufferItems \in Nat /\ BufferItems >= Chunk
ASSUME GraphAssumption

VARIABLES
    deterministic,  \* which of the two schedulers
    stop,           \* d_stop, set by another thread
    thread,         \* round, turn, asleep, over
    turn,           \* the block whose turn it is
    rounds, progressed, live, done,
    moved,          \* items a stream block has produced (the sink: consumed)
    posted, heard,  \* messages posted to a listener, and handled by it
    told, finished, \* the "done" message to a listener: posted, handled
    end             \* why the thread is over

counts == <<moved, posted, heard, told, finished>>
vars == <<deterministic, stop, thread, turn, rounds, progressed, live, done, counts, end>>

TypeOK ==
    /\ deterministic \in BOOLEAN /\ stop \in BOOLEAN /\ progressed \in BOOLEAN
    /\ thread \in {"round", "turn", "asleep", "over"}
    /\ turn \in First..Final + 1
    /\ rounds \in Nat /\ live \in Nat
    /\ done \in [Blocks -> BOOLEAN]
    /\ moved \in [Stream -> Nat]
    /\ posted \in [Listeners -> Nat] /\ heard \in [Listeners -> Nat]
    /\ told \in [Listeners -> BOOLEAN] /\ finished \in [Listeners -> BOOLEAN]
    /\ end \in {"running", "budget", "stopped", "finished", "exception"}

Init ==
    /\ deterministic \in BOOLEAN
    /\ stop = FALSE /\ thread = "round" /\ turn = First /\ rounds = 0 /\ progressed = FALSE
    /\ live = Final - First + 1
    /\ done = [b \in Blocks |-> FALSE]
    /\ moved = [b \in Stream |-> 0]
    /\ posted = [b \in Listeners |-> 0] /\ heard = [b \in Listeners |-> 0]
    /\ told = [b \in Listeners |-> FALSE] /\ finished = [b \in Listeners |-> FALSE]
    /\ end = "running"

-----------------------------------------------------------------------------
(* What the executor finds at a stream block.                                *)

Exhausted(b) == b = 1 /\ ~deterministic /\ moved[1] = Total
Gone(b) == b < Last /\ done[b + 1]                                \* nobody reads on
Dry(b) == b > 1 /\ done[b - 1] /\ moved[b] = moved[b - 1]         \* nothing will come
Room(b) == IF b = Last THEN Chunk ELSE BufferItems - (moved[b] - moved[b + 1])
Supply(b) == IF b > 1 THEN moved[b - 1] - moved[b]
             ELSE IF deterministic THEN Chunk ELSE Total - moved[1]
Smaller(a, b) == IF a < b THEN a ELSE b
CallSize(b) == Smaller(Chunk, Smaller(Room(b), Supply(b)))

\* In an ordinary run a call of work() may do less than it could, and a source
\* may have nothing, as a paced one has.
Returned(b) ==
    IF deterministic THEN {CallSize(b)} ELSE (IF b = 1 THEN 0 ELSE 1)..CallSize(b)

\* The state run_one_iteration() returns when work() has moved n items.
Ready(b, n) == IF n > 0 /\ b < Last THEN "READY" ELSE "READY_NO_OUTPUT"

-----------------------------------------------------------------------------
(* The loop.                                                                 *)

\* Faulty: one message a turn.
Pump_One(b) ==
    IF b \in Listeners
    THEN /\ heard' = [heard EXCEPT ![b] = Smaller(@ + 1, posted[b])]
         /\ finished' = [finished EXCEPT ![b] = told[b]]
    ELSE UNCHANGED <<heard, finished>>
\* pump_messages(): every queued message of the block, its "done" included.
Pump(b) ==
    IF b \in Listeners
    THEN heard' = [heard EXCEPT ![b] = posted[b]] /\ finished' = [finished EXCEPT ![b] = told[b]]
    ELSE UNCHANGED <<heard, finished>>

\* Faulty: the end of a block is not passed on to its listeners.
Tell_Nobody(b) == UNCHANGED told
\* notify_msg_neighbors()
Tell(b) == told' = [l \in Listeners |-> told[l] \/ Publisher[l] = b]

\* A call of work() may post any number of messages to the block's listeners.
Post(b) ==
    \E sum \in [Listeners -> 0..MaxPosts] :
        /\ \A l \in Listeners : IF Publisher[l] = b THEN sum[l] >= posted[l] ELSE sum[l] = posted[l]
        /\ posted' = sum

Retire(b) ==
    /\ done' = [done EXCEPT ![b] = TRUE]
    /\ live' = live - 1
    /\ progressed' = TRUE
    /\ Tell(b)
    /\ UNCHANGED <<moved, posted>>

Blocked == UNCHANGED <<done, live, progressed, told, moved, posted>>

\* Faulty: only output is progress.
Progress_Output(b, state) == state = "READY"
\* Consuming is progress; a source that made nothing is blocked.
Progress(b, state) == ~(b = 1 /\ state = "READY_NO_OUTPUT")

\* A block whose message ports think it is done, and that made nothing, is done.
Ran(b, n) ==
    LET state == Ready(b, n)
        ended == b \in Listeners /\ finished'[b] /\ state = "READY_NO_OUTPUT"
    IN
    /\ moved' = [moved EXCEPT ![b] = @ + n]
    /\ Post(b)
    /\ IF ended THEN Tell(b) /\ done' = [done EXCEPT ![b] = TRUE] /\ live' = live - 1
                ELSE UNCHANGED <<told, done, live>>
    /\ progressed' = (progressed \/ ended \/ Progress(b, state))

StreamTurn(b) ==
    \/ /\ Gone(b) \/ Dry(b) \/ Exhausted(b)
       /\ Retire(b)
    \/ /\ ~Gone(b) /\ ~Dry(b) /\ ~Exhausted(b)
       /\ IF CallSize(b) = 0 THEN Blocked ELSE \E n \in Returned(b) : Ran(b, n)

MessageTurn(b) == IF finished'[b] THEN Retire(b) ELSE Blocked

Turn(b) ==
    /\ Pump(b)
    /\ IF b \in Stream THEN StreamTurn(b) ELSE MessageTurn(b)

Over(reason) ==
    /\ thread' = "over" /\ end' = reason
    /\ UNCHANGED <<turn, rounds, progressed>>

\* Faulty: one round too many.
BudgetSpent_OneMore == deterministic /\ rounds > Budget
\* A run that has a budget ends after that many rounds.
BudgetSpent == deterministic /\ rounds >= Budget

\* Without a budget nobody looks at the count: it stays where it is past Budget.
Counted == IF rounds > Budget THEN rounds ELSE rounds + 1

BeginRound ==
    /\ thread = "round"
    /\ IF live = 0 THEN Over("finished")
       ELSE IF stop THEN Over("stopped")
       ELSE IF BudgetSpent THEN Over("budget")
       ELSE /\ thread' = "turn" /\ turn' = First /\ rounds' = Counted /\ progressed' = FALSE
            /\ UNCHANGED end
    /\ UNCHANGED <<deterministic, stop, live, done, counts>>

Skip ==
    /\ thread = "turn" /\ turn <= Final /\ done[turn]
    /\ turn' = turn + 1
    /\ UNCHANGED <<deterministic, stop, thread, rounds, progressed, live, done, counts, end>>

\* d_stop is looked at before every turn: run the block, or leave the round.
TakeTurn ==
    /\ thread = "turn" /\ turn <= Final /\ ~done[turn] /\ ~stop
    /\ Turn(turn)
    /\ turn' = turn + 1
    /\ UNCHANGED <<deterministic, stop, thread, rounds, end>>

EndRound ==
    /\ thread = "turn" /\ (turn <= Final => stop /\ ~done[turn])
    /\ thread' = IF ~progressed /\ ~deterministic THEN "asleep" ELSE "round"
    /\ UNCHANGED <<deterministic, stop, turn, rounds, progressed, live, done, counts, end>>

Wake ==
    /\ thread = "asleep"
    /\ thread' = "round"
    /\ UNCHANGED <<deterministic, stop, turn, rounds, progressed, live, done, counts, end>>

\* A handler or a work() that throws ends the whole loop (thread_body_wrapper).
Throw ==
    /\ thread = "turn" /\ turn <= Final /\ ~done[turn] /\ ~stop
    /\ Over("exception")
    /\ UNCHANGED <<deterministic, stop, live, done, counts>>

\* scheduler::stop(), from the thread of the page.
Stop ==
    /\ ~stop
    /\ stop' = TRUE
    /\ UNCHANGED <<deterministic, thread, turn, rounds, progressed, live, done, counts, end>>

Loop == BeginRound \/ Skip \/ TakeTurn \/ EndRound \/ Wake
Next == Loop \/ Throw \/ Stop

\* work() returns and the thread is scheduled; a source that is paced has
\* items again and again.
Fairness ==
    /\ WF_vars(Loop)
    /\ SF_vars(TakeTurn /\ turn = 1 /\ moved'[1] > moved[1])

Spec == Init /\ [][Next]_vars /\ Fairness

-----------------------------------------------------------------------------
(* Properties.                                                               *)

\* A run that has spent its budget has moved rounds * chunk items through
\* every block, no more and no less (docs/schedulers.md:208).
ExactCount == end = "budget" => \A b \in Stream : moved[b] = Budget * Chunk

\* A block with message ports only does not leave before it has handled every
\* message of the block that ended it.
MessagesHeard == \A m \in MessageOnly : done[m] => heard[m] = posted[m]

\* The thread sleeps only if no stream block behind the source could move an item
\* or end: a round in which one could, or made it possible for an earlier one, is
\* followed by another at once.  The source may have nothing yet.  Messages are not
\* looked at here: a block takes all its own when the thread comes to it.
Could(b) == ~done[b] /\ (Gone(b) \/ Dry(b) \/ CallSize(b) > 0)
SleepsOnlyWhenIdle == thread = "asleep" /\ ~stop => \A b \in 2..Last : ~Could(b)

\* Every run ends, stopped or not: a graph whose source ends comes to its end,
\* the blocks that have nothing but message ports included.
RunEnds == <>(thread = "over")
=============================================================================
