----------------------------- MODULE PythonBlock -----------------------------
(***************************************************************************)
(* The Python Blocks of a flowgraph and the one Pyodide worker that runs   *)
(* their code: blocks/src/python_block.hpp on the blocks' scheduler        *)
(* threads, set_callback_value() on the browser's main thread, and pump()  *)
(* of runner/src/pyodide/gr_pyodide_worker.js, one per block, in a worker  *)
(* that runs one of them at a time.                                        *)
(*                                                                         *)
(* A call into Python is a request: its arguments, STATE, OP and at last   *)
(* SEQ are stored by the block, RESULT and STATE by the worker.  A step    *)
(* ends at each load or store of a word that the other side uses.  Python  *)
(* is user code, which may raise and may never return.  A request has the  *)
(* number that its increment gives SEQ; arguments and answers are          *)
(* represented by the number of their request.                             *)
(*                                                                         *)
(* A callback is a setter of the user's class, which may raise too: the    *)
(* worker then drops the values it has not given yet, and the request is   *)
(* answered FAILED though Python has not run its call.                     *)
(*                                                                         *)
(* The block's start() and stop() run on its scheduler thread, where the   *)
(* executor calls them; detach() of the worker is posted by nobody.        *)
(***************************************************************************)
EXTENDS Integers, Sequences

CONSTANTS
  Block,       \* the Python Blocks of the flowgraph
  Forecasts,   \* those whose class has a forecast() of its own
  Callback,    \* parameters that have a callback
  Tunable,     \* the callbacks of each block
  MaxCalls,    \* bound: calls of forecast() and general_work() by a block
  MaxSets,     \* bound: changes of parameters
  None

ASSUME PythonAssumption ==
  /\ None \notin Block \cup (Block \X Callback) /\ Forecasts \subseteq Block
  /\ Tunable \in [Block -> SUBSET Callback]
  /\ MaxCalls \in [Block -> Nat] /\ MaxSets \in Nat

VARIABLES
  \* the control block of each block
  state, op, seq, args, result, mask, value,
  \* the block's thread
  hpc,        \* where it is in request(); "idle" between two calls
  call,       \* the call under way
  thrown,     \* a call has thrown
  timedOut,   \* history: a request gave up
  posted,     \* history: the requests, as calls and arguments
  answers,    \* history: the calls that returned, with the answers they took
  \* the worker
  bound,      \* blocks with a pump
  served,     \* entry.seq of each pump
  wpc, cur,   \* where the worker is, and for which block
  wop,        \* OP as loaded
  fresh,      \* callbacks taken out of the mask, their values not read yet
  given,      \* the value each setter was last called with
  ran,        \* history: the calls Python ran, with the arguments it saw, and
              \* NotRun for each that a setter kept from it
  \* the main thread
  setting,    \* a value stored whose bit is not set yet
  sets,       \* parameter changes so far
  stopping    \* the flowgraph was asked to stop

words == <<state, op, seq, args, result>>
parameters == <<mask, value>>
host == <<hpc, call, thrown, timedOut, posted, answers>>
worker == <<bound, served, wpc, cur, wop, fresh, given, ran>>
page == <<setting, sets, stopping>>
vars == <<words, parameters, host, worker, page>>

-----------------------------------------------------------------------------
Init ==
  /\ state = [b \in Block |-> "none"] /\ op = [b \in Block |-> "none"]
  /\ seq = [b \in Block |-> 0] /\ args = [b \in Block |-> 0] /\ result = [b \in Block |-> 0]
  /\ mask = [b \in Block |-> {}] /\ value = [b \in Block |-> [c \in Callback |-> 0]]
  /\ hpc = [b \in Block |-> "new"] /\ call = [b \in Block |-> "none"]
  /\ thrown = {} /\ timedOut = {}
  /\ posted = [b \in Block |-> <<>>] /\ answers = [b \in Block |-> {}]
  /\ bound = {} /\ served = [b \in Block |-> 0]
  /\ wpc = "idle" /\ cur = None /\ wop = "none" /\ fresh = {}
  /\ given = [b \in Block |-> [c \in Callback |-> 0]]
  /\ ran = [b \in Block |-> <<>>]
  /\ setting = None /\ sets = 0 /\ stopping = FALSE

\* What stands in ran for a request whose call was not made.
NotRun == [call |-> "none", args |-> 0]

At(b, place) == hpc[b] = place
Goes(b, place) == hpc' = [hpc EXCEPT ![b] = place]

(***************************************************************************)
(* The block's thread                                                      *)
(***************************************************************************)
\* request() begins by storing BUSY, after the call has stored its arguments
\* and reset the words in which it expects the answer.
Post(b, c) ==
  /\ Goes(b, "op")
  /\ call' = [call EXCEPT ![b] = c]
  /\ state' = [state EXCEPT ![b] = "BUSY"]
  /\ UNCHANGED <<op, seq, parameters, thrown, timedOut, posted, answers, worker, page>>

\* start(), in the constructor of the executor.
Start(b) ==
  /\ At(b, "new")
  /\ Post(b, "start")
  /\ UNCHANGED <<args, result>>

\* forecast(), which asks Python only when the class has one, and general_work().
Work(b, c) ==
  /\ At(b, "idle") /\ b \notin thrown /\ ~stopping
  /\ c = "forecast" => b \in Forecasts
  /\ Len(posted[b]) <= MaxCalls[b]
  /\ Post(b, c)
  /\ args' = [args EXCEPT ![b] = seq[b] + 1]
  /\ result' = [result EXCEPT ![b] = 0]

\* stop(), in the destructor of the executor, also after an exception.
Stop(b) ==
  /\ At(b, "idle") /\ (stopping \/ b \in thrown)
  /\ Post(b, "stop")
  /\ UNCHANGED <<args, result>>

StoreOp(b) ==
  /\ At(b, "op")
  /\ Goes(b, "seq")
  /\ op' = [op EXCEPT ![b] = call[b]]
  /\ UNCHANGED <<state, seq, args, result, parameters, call, thrown, timedOut, posted, answers,
                 worker, page>>

\* The increment of SEQ publishes the request.
Bump(b) ==
  /\ At(b, "seq")
  /\ Goes(b, "wait")
  /\ seq' = [seq EXCEPT ![b] = @ + 1]
  /\ posted' = [posted EXCEPT ![b] = Append(@, [call |-> call[b], args |-> args[b]])]
  /\ UNCHANGED <<state, op, args, result, parameters, call, thrown, timedOut, answers, worker,
                 page>>

\* Where an exception leads: out of the constructor of the executor, out of the
\* scheduler's loop and into stop(), or out of the destructor.
Throw(b) ==
  /\ thrown' = thrown \cup {b}
  /\ Goes(b, IF call[b] \in {"start", "stop"} THEN "ended" ELSE "idle")

\* Faulty variants: a request waits without a deadline; the call that gives up
\* returns instead of throwing.
GiveUp_Never(b) == FALSE
GiveUp_Returns(b) ==
  /\ At(b, "wait") /\ state[b] = "BUSY"
  /\ timedOut' = timedOut \cup {b}
  /\ Goes(b, IF call[b] = "stop" THEN "exit" ELSE "idle")
  /\ UNCHANGED <<words, parameters, call, thrown, posted, answers, worker, page>>

\* kTimeoutSeconds have passed.
GiveUp(b) ==
  /\ At(b, "wait") /\ state[b] = "BUSY"
  /\ timedOut' = timedOut \cup {b}
  /\ Throw(b)
  /\ UNCHANGED <<words, parameters, call, posted, answers, worker, page>>

\* The futex wait ends: STATE is not BUSY any more.
Answered(b) ==
  /\ At(b, "wait") /\ state[b] # "BUSY"
  /\ Goes(b, "take")
  /\ UNCHANGED <<words, parameters, call, thrown, timedOut, posted, answers, worker, page>>

\* STATE is loaded again: FAILED is thrown, else the answer is read.
Take(b) ==
  /\ At(b, "take")
  /\ \/ /\ state[b] = "FAILED"
        /\ Throw(b)
        /\ UNCHANGED answers
     \/ /\ state[b] # "FAILED"
        /\ answers' = [answers EXCEPT ![b] = @ \cup
                         {[call |-> call[b], asked |-> seq[b], got |-> result[b]]}]
        /\ Goes(b, IF call[b] = "stop" THEN "exit" ELSE "idle")
        /\ UNCHANGED thrown
  /\ UNCHANGED <<words, parameters, call, timedOut, posted, worker, page>>

\* request_exit(), the end of stop(): OP, then SEQ, and no waiting.
ExitOp(b) ==
  /\ At(b, "exit")
  /\ Goes(b, "leave")
  /\ op' = [op EXCEPT ![b] = "exit"]
  /\ UNCHANGED <<state, seq, args, result, parameters, call, thrown, timedOut, posted, answers,
                 worker, page>>

ExitBump(b) ==
  /\ At(b, "leave")
  /\ Goes(b, "ended")
  /\ seq' = [seq EXCEPT ![b] = @ + 1]
  /\ UNCHANGED <<state, op, args, result, parameters, call, thrown, timedOut, posted, answers,
                 worker, page>>

(***************************************************************************)
(* The main thread                                                         *)
(***************************************************************************)
\* set_callback_value() stores the value, then sets its bit.
SetValue(b, c) ==
  /\ setting = None /\ sets < MaxSets /\ c \in Tunable[b]
  /\ sets' = sets + 1
  /\ value' = [value EXCEPT ![b][c] = sets']
  /\ setting' = <<b, c>>
  /\ UNCHANGED <<words, mask, host, worker, stopping>>

SetBit ==
  /\ setting # None
  /\ mask' = [mask EXCEPT ![setting[1]] = @ \cup {setting[2]}]
  /\ setting' = None
  /\ UNCHANGED <<words, value, host, worker, sets, stopping>>

StopFlowgraph ==
  /\ ~stopping
  /\ stopping' = TRUE
  /\ UNCHANGED <<words, parameters, host, worker, setting, sets>>

(***************************************************************************)
(* The worker                                                              *)
(***************************************************************************)
\* The bind message of the block's constructor, which may arrive late.
Bind(b) ==
  /\ wpc = "idle" /\ b \notin bound /\ served[b] = 0
  /\ bound' = bound \cup {b}
  /\ UNCHANGED <<words, parameters, host, served, wpc, cur, wop, fresh, given, ran, page>>

\* Faulty variant: the pump waits on STATE.
Posted_State(b) == state[b] = "BUSY"

\* SEQ is not what was served last, as Atomics.waitAsync sees it.
Posted(b) == seq[b] # served[b]

\* A pump goes on: SEQ is loaded.
Notice(b) ==
  /\ wpc = "idle" /\ b \in bound
  /\ Posted(b)
  /\ served' = [served EXCEPT ![b] = seq[b]]
  /\ cur' = b /\ wpc' = "op"
  /\ UNCHANGED <<words, parameters, host, bound, wop, fresh, given, ran, page>>

\* OP is loaded; EXIT ends the pump.
LoadOp ==
  /\ wpc = "op"
  /\ wop' = op[cur]
  /\ IF wop' = "exit" THEN wpc' = "idle" /\ bound' = bound \ {cur} /\ cur' = None
                      ELSE wpc' = "drain" /\ UNCHANGED <<bound, cur>>
  /\ UNCHANGED <<words, parameters, host, served, fresh, given, ran, page>>

\* applyPendingParameters(): the mask is exchanged for zero, and then the values
\* are read and given to the setters.  In which order is left open: no property
\* depends on the numbers of the callbacks.
Drain ==
  /\ wpc = "drain"
  /\ wpc' = "apply"
  /\ fresh' = mask[cur]
  /\ mask' = [mask EXCEPT ![cur] = {}]
  /\ UNCHANGED <<words, value, host, bound, served, cur, wop, given, ran, page>>

Apply(c) ==
  /\ wpc = "apply" /\ c \in fresh
  /\ fresh' = fresh \ {c}
  /\ given' = [given EXCEPT ![cur][c] = value[cur][c]]
  /\ UNCHANGED <<words, parameters, host, bound, served, wpc, cur, wop, ran, page>>

\* A setter raises.  pump() leaves by its catch clause: the other values are not
\* given, though their bits are gone, and serve() is not reached.
Raises(c) ==
  /\ wpc = "apply" /\ c \in fresh
  /\ wpc' = "raised"
  /\ fresh' = {}
  /\ given' = [given EXCEPT ![cur][c] = value[cur][c]]
  /\ ran' = [ran EXCEPT ![cur] = Append(@, NotRun)]
  /\ UNCHANGED <<words, parameters, host, bound, served, cur, wop, page>>

\* Faulty variant: the mask is cleared once the values have been read.
Serve_Clears ==
  /\ wpc = "apply" /\ fresh = {}
  /\ wpc' = "python"
  /\ mask' = [mask EXCEPT ![cur] = {}]
  /\ ran' = [ran EXCEPT ![cur] = Append(@, [call |-> wop, args |-> args[cur]])]
  /\ UNCHANGED <<words, value, host, bound, served, cur, wop, fresh, given, page>>

\* serve(): the arguments are read, and Python runs.
Serve ==
  /\ wpc = "apply" /\ fresh = {}
  /\ wpc' = "python"
  /\ ran' = [ran EXCEPT ![cur] = Append(@, [call |-> wop, args |-> args[cur]])]
  /\ UNCHANGED <<words, parameters, host, bound, served, cur, wop, fresh, given, page>>

\* Python returned or raised: the answer is written, then STATE.
Answer(how) ==
  /\ wpc \in {"python", "raised"} /\ (wpc = "raised" => how = "FAILED")
  /\ wpc' = "idle" /\ cur' = None /\ wop' = "none"
  /\ state' = [state EXCEPT ![cur] = how]
  /\ result' = [result EXCEPT ![cur] = IF how = "DONE" THEN served[cur] ELSE @]
  /\ UNCHANGED <<op, seq, args, parameters, host, bound, served, fresh, given, ran, page>>

-----------------------------------------------------------------------------
Host(b) ==
  \/ Start(b) \/ Stop(b) \/ (\E c \in {"work", "forecast"} : Work(b, c))
  \/ StoreOp(b) \/ Bump(b) \/ GiveUp(b) \/ Answered(b) \/ Take(b) \/ ExitOp(b) \/ ExitBump(b)

Worker ==
  \/ \E b \in Block : Bind(b) \/ Notice(b)
  \/ LoadOp \/ Drain \/ (\E c \in Callback : Apply(c) \/ Raises(c)) \/ Serve
  \/ \E how \in {"DONE", "FAILED"} : Answer(how)

Page == (\E b \in Block, c \in Callback : SetValue(b, c)) \/ SetBit \/ StopFlowgraph

Next == (\E b \in Block : Host(b)) \/ Worker \/ Page

Spec == Init /\ [][Next]_vars

\* The threads of the blocks keep running, and the 100 ms waits of request() end.
\* The worker is owed nothing: Python may loop for ever.
FairSpec == Spec /\ \A b \in Block : WF_vars(Host(b))

-----------------------------------------------------------------------------
Calls == {"start", "work", "forecast", "stop"}

TypeOK ==
  /\ state \in [Block -> {"none", "BUSY", "DONE", "FAILED"}]
  /\ op \in [Block -> Calls \cup {"none", "exit"}]
  /\ seq \in [Block -> Nat] /\ args \in [Block -> Nat] /\ result \in [Block -> Nat]
  /\ mask \in [Block -> SUBSET Callback] /\ value \in [Block -> [Callback -> 0 .. MaxSets]]
  /\ hpc \in [Block -> {"new", "idle", "op", "seq", "wait", "take", "exit", "leave", "ended"}]
  /\ call \in [Block -> Calls \cup {"none"}]
  /\ thrown \subseteq Block /\ timedOut \subseteq thrown
  /\ bound \subseteq Block /\ served \in [Block -> Nat]
  /\ wpc \in {"idle", "op", "drain", "apply", "raised", "python"}
  /\ cur \in Block \cup {None} /\ (wpc = "idle" <=> cur = None)
  /\ wop \in Calls \cup {"none", "exit"} /\ fresh \subseteq Callback
  /\ given \in [Block -> [Callback -> 0 .. MaxSets]]
  /\ setting \in (Block \X Callback) \cup {None} /\ sets \in 0 .. MaxSets
  /\ stopping \in BOOLEAN

\* Until a request gives up, the handshake on SEQ is a procedure call: Python runs
\* what was asked, with its arguments, in that order and once, however late the
\* pump starts and whichever other blocks share the worker.  The one request that
\* may be kept from Python is one before which a setter raised, and the block asks
\* for nothing after it but stop().
RanInOrder ==
  \A b \in Block \ timedOut :
    /\ Len(ran[b]) <= Len(posted[b])
    /\ \A k \in 1 .. Len(ran[b]) :
         \/ ran[b][k] = posted[b][k]
         \/ /\ ran[b][k] = NotRun
            /\ \A j \in k + 1 .. Len(posted[b]) : posted[b][j].call = "stop"

\* general_work(), forecast() and start() never take an answer for that of another
\* request: a late one can only meet stop(), since a request that gives up ends
\* the block.
WorkAnswers ==
  \A b \in Block : \A a \in answers[b] : a.call # "stop" => a.got = a.asked

\* The main thread is between the value and the bit of a parameter; the worker
\* has taken the bit and has not read the value.
Storing(b, c) == setting = <<b, c>>
Reading(b, c) == cur = b /\ wpc = "apply" /\ c \in fresh

\* A setter of the block has raised.
Raised(b) == \E k \in 1 .. Len(ran[b]) : ran[b][k] = NotRun

\* No parameter change is lost to the race of the two threads, though its value and
\* its bit are stored apart and the worker may drain in between: once its bit is
\* gone, Python has the value, unless a setter of the block has raised, and then
\* the block is at its end (RanInOrder), though its stop() may still run in Python
\* with the old value.
NoUpdateLost ==
  \A b \in Block, c \in Callback :
    ~Storing(b, c) /\ c \notin mask[b] /\ ~Reading(b, c) =>
      given[b][c] = value[b][c] \/ Raised(b)

\* A flowgraph asked to stop comes to its end, though Python may never return: a
\* call that is not answered is an error, not a hang.
ThreadsEnd == stopping ~> \A b \in Block : hpc[b] = "ended"

=============================================================================
