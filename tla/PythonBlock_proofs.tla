------------------------- MODULE PythonBlock_proofs -------------------------
(***************************************************************************)
(* The blocks and their worker, for any number of blocks, callbacks, calls *)
(* and changes.  First the types.  Then a parameter change reaches Python: *)
(* the steps that matter are the two halves of set_callback_value(), the   *)
(* two of applyPendingParameters() and the setter that raises, and the     *)
(* others leave the parameters and the worker's draining alone.  Last the  *)
(* handshake: what a block asks for is run once and in order as long as no *)
(* call has timed out, save the request that a setter kept from Python,    *)
(* after which the block has thrown and asks for stop() alone; and an      *)
(* answer to any call but stop() is the answer to that call even after a   *)
(* time-out.                                                               *)
(***************************************************************************)
EXTENDS PythonBlock, SequenceTheorems, TLAPS

\* A request, as the histories keep it.
Request == [call : Calls \cup {"none", "exit"}, args : Nat]

\* An answer, as it is taken.
Answers == [call : Calls \cup {"none"}, asked : Nat, got : Nat]

\* TypeOK with the histories.
Typed ==
  /\ TypeOK
  /\ posted \in [Block -> Seq(Request)] /\ ran \in [Block -> Seq(Request)]
  /\ answers \in [Block -> SUBSET Answers]

LEMMA TypedInit ==
  ASSUME Init
  PROVE  Typed
<1>1. TypeOK
  <2>1. MaxSets \in Nat /\ None \notin Block
    BY PythonAssumption DEF PythonAssumption
  <2>2. 0 \in 0 .. MaxSets /\ 0 \in Nat
    BY <2>1
  <2>3. /\ value \in [Block -> [Callback -> 0 .. MaxSets]]
        /\ given \in [Block -> [Callback -> 0 .. MaxSets]]
    BY <2>2 DEF Init
  <2> QED BY <2>1, <2>2, <2>3, Zenon DEF Init, TypeOK
<1>2. /\ posted \in [Block -> Seq(Request)] /\ ran \in [Block -> Seq(Request)]
      /\ answers \in [Block -> SUBSET Answers]
  BY DEF Init
<1> QED BY <1>1, <1>2 DEF Typed

\* Every step keeps the types.
LEMMA TypedStep == Typed /\ [Next]_vars => Typed'
<1> SUFFICES ASSUME Typed, [Next]_vars PROVE Typed'
  OBVIOUS
<1> USE DEF Typed, TypeOK
<1>1. ASSUME NEW b \in Block, Start(b) \/ Stop(b) PROVE Typed'
  BY <1>1 DEF Start, Stop, Post, At, Goes, Calls, parameters, worker, page
<1>2. ASSUME NEW b \in Block, NEW c \in {"work", "forecast"}, Work(b, c) PROVE Typed'
  <2>1. TypeOK'
    BY <1>2 DEF Work, Post, At, Goes, Calls, parameters, worker, page
  <2>2. UNCHANGED <<posted, ran, answers>>
    BY <1>2 DEF Work, Post, worker
  <2> QED BY <2>1, <2>2
<1>3. ASSUME NEW b \in Block, StoreOp(b) PROVE Typed'
  BY <1>3 DEF StoreOp, At, Goes, parameters, worker, page
<1>4. ASSUME NEW b \in Block, Bump(b) PROVE Typed'
  <2>1. [call |-> call[b], args |-> args[b]] \in Request
    BY DEF Request, Calls
  <2>2. /\ seq' = [seq EXCEPT ![b] = @ + 1]
        /\ hpc' = [hpc EXCEPT ![b] = "wait"]
        /\ posted' = [posted EXCEPT ![b] = Append(@, [call |-> call[b], args |-> args[b]])]
    BY <1>4 DEF Bump, Goes
  <2>3. posted' \in [Block -> Seq(Request)]
    BY <2>1, <2>2
  <2>4. TypeOK'
    BY <1>4, <2>2 DEF Bump, parameters, worker, page
  <2>5. UNCHANGED <<ran, answers>>
    BY <1>4 DEF Bump, worker
  <2> QED BY <2>3, <2>4, <2>5
<1>5. ASSUME NEW b \in Block, GiveUp(b) PROVE Typed'
  BY <1>5 DEF GiveUp, Throw, At, Goes, words, parameters, worker, page
<1>6. ASSUME NEW b \in Block, Answered(b) PROVE Typed'
  BY <1>6 DEF Answered, At, Goes, words, parameters, worker, page
<1>7. ASSUME NEW b \in Block, Take(b) PROVE Typed'
  <2>1. TypeOK' /\ UNCHANGED <<posted, ran>>
    BY <1>7 DEF Take, Throw, At, Goes, words, parameters, worker, page
  <2> DEFINE a == [call |-> call[b], asked |-> seq[b], got |-> result[b]]
  <2>2. a \in Answers
    BY DEF Answers
  <2>3. answers' = answers \/ answers' = [answers EXCEPT ![b] = @ \cup {a}]
    BY <1>7 DEF Take
  <2> HIDE DEF a
  <2>4. answers' \in [Block -> SUBSET Answers]
    <3>1. answers[b] \cup {a} \in SUBSET Answers
      BY <2>2
    <3> QED BY <2>3, <3>1
  <2> QED BY <2>1, <2>4
<1>8. ASSUME NEW b \in Block, ExitOp(b) \/ ExitBump(b) PROVE Typed'
  <2>1. CASE ExitOp(b)
    BY <2>1 DEF ExitOp, At, Goes, parameters, worker, page
  <2>2. CASE ExitBump(b)
    BY <2>2, SMTT(30) DEF ExitBump, At, Goes, parameters, worker, page
  <2> QED BY <1>8, <2>1, <2>2
<1>9. CASE Page
  <2>1. ASSUME NEW b \in Block, NEW c \in Callback, SetValue(b, c) PROVE Typed'
    <3>1. MaxSets \in Nat BY PythonAssumption DEF PythonAssumption
    <3>2. sets < MaxSets /\ sets' = sets + 1 BY <2>1 DEF SetValue
    <3>3. sets' \in 0 .. MaxSets BY <3>1, <3>2
    <3> QED BY <2>1, <3>3 DEF SetValue, words, host, worker
  <2>2. CASE SetBit
    BY <2>2 DEF SetBit, words, host, worker
  <2>3. CASE StopFlowgraph
    BY <2>3 DEF StopFlowgraph, words, parameters, host, worker
  <2> QED BY <1>9, <2>1, <2>2, <2>3 DEF Page
<1>10. ASSUME NEW b \in Block, Bind(b) \/ Notice(b) PROVE Typed'
  <2>1. CASE Bind(b)
    BY <2>1 DEF Bind, words, parameters, host, page
  <2>2. CASE Notice(b)
    <3>1. b # None BY PythonAssumption DEF PythonAssumption
    <3> QED BY <2>2, <3>1 DEF Notice, words, parameters, host, page
  <2> QED BY <1>10, <2>1, <2>2
<1>11. CASE LoadOp
  BY <1>11 DEF LoadOp, words, parameters, host, page
<1>12. CASE Drain
  BY <1>12 DEF Drain, words, host, page
<1>13. ASSUME NEW c \in Callback, Apply(c) PROVE Typed'
  BY <1>13 DEF Apply, words, parameters, host, page
<1>14. CASE Serve
  <2>1. cur \in Block /\ [call |-> wop, args |-> args[cur]] \in Request
    BY <1>14 DEF Serve, Request, Calls
  <2>2. ran' = [ran EXCEPT ![cur] = Append(@, [call |-> wop, args |-> args[cur]])]
    BY <1>14 DEF Serve
  <2>3. ran' \in [Block -> Seq(Request)]
    BY <2>1, <2>2
  <2>4. TypeOK' /\ UNCHANGED <<posted, answers>>
    BY <1>14 DEF Serve, words, parameters, host, page
  <2> QED BY <2>3, <2>4
<1>15. ASSUME NEW how \in {"DONE", "FAILED"}, Answer(how) PROVE Typed'
  BY <1>15 DEF Answer, parameters, host, page
<1>16. ASSUME NEW c \in Callback, Raises(c) PROVE Typed'
  <2>1. cur \in Block /\ NotRun \in Request
    BY <1>16 DEF Raises, Request, NotRun
  <2>2. ran' = [ran EXCEPT ![cur] = Append(@, NotRun)]
    BY <1>16 DEF Raises
  <2>3. ran' \in [Block -> Seq(Request)]
    BY <2>1, <2>2
  <2>4. TypeOK' /\ UNCHANGED <<posted, answers>>
    BY <1>16 DEF Raises, words, parameters, host, page
  <2> QED BY <2>3, <2>4
<1>17. CASE UNCHANGED vars
  BY <1>17 DEF vars, words, parameters, host, worker, page
<1> QED BY <1>1, <1>2, <1>3, <1>4, <1>5, <1>6, <1>7, <1>8, <1>9, <1>10, <1>11, <1>12, <1>13,
           <1>14, <1>15, <1>16, <1>17 DEF Next, Host, Worker

-----------------------------------------------------------------------------
\* A setter that has raised stays on record.
LEMMA RaisedStays ==
  ASSUME NEW b \in Block, Typed, Raised(b),
         ran'[b] = ran[b] \/ \E r \in Request : ran'[b] = Append(ran[b], r)
  PROVE  Raised(b)'
<1>1. CASE ran'[b] = ran[b]
  BY <1>1 DEF Raised
<1>2. ASSUME NEW r \in Request, ran'[b] = Append(ran[b], r)
      PROVE  Raised(b)'
  <2>1. ran[b] \in Seq(Request)
    BY DEF Typed
  <2>2. Len(ran[b]) \in Nat /\ Len(ran'[b]) = Len(ran[b]) + 1
    BY <1>2, <2>1, AppendProperties, LenProperties
  <2>3. PICK k \in 1 .. Len(ran[b]) : ran[b][k] = NotRun
    BY DEF Raised
  <2>4. ran'[b][k] = NotRun /\ k \in 1 .. Len(ran'[b])
    BY <1>2, <2>1, <2>2, <2>3, AppendProperties
  <2> QED BY <2>4 DEF Raised
<1> QED BY <1>1, <1>2

\* Nothing of the path changes in a step of a block's thread, when a message
\* arrives, or while the worker is outside the draining.
LEMMA Untouched ==
  ASSUME Typed, NoUpdateLost, UNCHANGED <<parameters, setting, given, ran>>,
         UNCHANGED <<wpc, cur, fresh>> \/ (wpc # "apply" /\ wpc' # "apply")
  PROVE  NoUpdateLost'
<1> SUFFICES ASSUME NEW b \in Block, NEW c \in Callback, ~Storing(b, c)', c \notin mask'[b],
                    ~Reading(b, c)'
             PROVE  given'[b][c] = value'[b][c] \/ Raised(b)'
  BY DEF NoUpdateLost
<1>1. ~Storing(b, c) /\ c \notin mask[b] BY DEF Storing, parameters
<1>2. ~Reading(b, c) BY DEF Reading
<1> QED BY <1>1, <1>2 DEF NoUpdateLost, Raised, parameters

LEMMA HostStep ==
  ASSUME NEW b \in Block, Typed, NoUpdateLost, Host(b)
  PROVE  NoUpdateLost'
<1>1. UNCHANGED <<parameters, setting, given, ran, wpc, cur, fresh>>
  BY DEF Host, Start, Stop, Work, Post, StoreOp, Bump, GiveUp, Answered, Take, ExitOp, ExitBump,
         worker, page
<1> QED BY <1>1, Untouched

LEMMA PageStep ==
  ASSUME Typed, NoUpdateLost, Page
  PROVE  NoUpdateLost'
<1> USE DEF Typed, TypeOK
<1>1. ASSUME NEW b \in Block, NEW c \in Callback, SetValue(b, c)
      PROVE  NoUpdateLost'
  <2>1. /\ value' = [value EXCEPT ![b][c] = sets']
        /\ setting = None /\ setting' = <<b, c>>
        /\ UNCHANGED <<mask, given, ran, wpc, cur, fresh>>
    BY <1>1 DEF SetValue, worker
  <2>2. ASSUME NEW x \in Block, NEW y \in Callback, ~Storing(x, y)', y \notin mask'[x],
               ~Reading(x, y)'
        PROVE  given'[x][y] = value'[x][y] \/ Raised(x)'
    <3>1. <<x, y>> # <<b, c>> BY <2>1, <2>2 DEF Storing
    <3>2. value'[x][y] = value[x][y] BY <2>1, <3>1
    <3>3. ~Storing(x, y) BY <2>1, PythonAssumption DEF Storing, PythonAssumption
    <3>4. y \notin mask[x] /\ ~Reading(x, y) BY <2>1, <2>2 DEF Reading
    <3> QED BY <2>1, <3>2, <3>3, <3>4 DEF NoUpdateLost, Raised
  <2> QED BY <2>2 DEF NoUpdateLost
<1>2. CASE SetBit
  <2>1. PICK b \in Block, c \in Callback : setting = <<b, c>>
    BY <1>2 DEF SetBit
  <2>2. /\ mask' = [mask EXCEPT ![b] = @ \cup {c}] /\ setting' = None
        /\ UNCHANGED <<value, given, ran, wpc, cur, fresh>>
    BY <1>2, <2>1 DEF SetBit, worker
  <2>3. ASSUME NEW x \in Block, NEW y \in Callback, y \notin mask'[x], ~Reading(x, y)'
        PROVE  given'[x][y] = value'[x][y] \/ Raised(x)'
    <3>1. <<x, y>> # <<b, c>> BY <2>2, <2>3
    <3>2. ~Storing(x, y) /\ y \notin mask[x] /\ ~Reading(x, y)
      BY <2>1, <2>2, <2>3, <3>1 DEF Storing, Reading
    <3> QED BY <2>2, <3>2 DEF NoUpdateLost, Raised
  <2> QED BY <2>3 DEF NoUpdateLost
<1>3. CASE StopFlowgraph
  BY <1>3, Untouched DEF StopFlowgraph, worker
<1> QED BY <1>1, <1>2, <1>3 DEF Page

LEMMA DrainStep ==
  ASSUME Typed, NoUpdateLost, Drain
  PROVE  NoUpdateLost'
<1> USE DEF Typed, TypeOK
<1>1. /\ wpc = "drain" /\ wpc' = "apply" /\ cur \in Block
      /\ fresh' = mask[cur] /\ mask' = [mask EXCEPT ![cur] = {}]
      /\ UNCHANGED <<value, given, ran, cur, setting>>
  BY DEF Drain, page
<1>2. ASSUME NEW b \in Block, NEW c \in Callback, ~Storing(b, c)', ~Reading(b, c)',
             c \notin mask'[b]
      PROVE  given'[b][c] = value'[b][c] \/ Raised(b)'
  <2>1. ~Storing(b, c) /\ ~Reading(b, c) BY <1>1, <1>2 DEF Storing, Reading
  <2>2. c \notin mask[b] BY <1>1, <1>2 DEF Reading
  <2> QED BY <1>1, <2>1, <2>2 DEF NoUpdateLost, Raised
<1> QED BY <1>2 DEF NoUpdateLost

LEMMA ApplyStep ==
  ASSUME NEW c \in Callback, Typed, NoUpdateLost, Apply(c)
  PROVE  NoUpdateLost'
<1> USE DEF Typed, TypeOK
<1>1. /\ wpc = "apply" /\ wpc' = "apply" /\ cur \in Block
      /\ fresh' = fresh \ {c}
      /\ given' = [given EXCEPT ![cur][c] = value[cur][c]]
      /\ UNCHANGED <<mask, value, ran, cur, setting>>
  BY DEF Apply, page, parameters
<1>2. ASSUME NEW x \in Block, NEW y \in Callback, ~Storing(x, y)', ~Reading(x, y)',
             y \notin mask'[x]
      PROVE  given'[x][y] = value'[x][y] \/ Raised(x)'
  <2>1. CASE x = cur /\ y = c
    BY <1>1, <2>1
  <2>2. CASE ~(x = cur /\ y = c)
    <3>1. given'[x][y] = given[x][y] BY <1>1, <2>2
    <3>2. ~Storing(x, y) /\ ~Reading(x, y) /\ y \notin mask[x]
      BY <1>1, <1>2, <2>2 DEF Storing, Reading
    <3> QED BY <1>1, <3>1, <3>2 DEF NoUpdateLost, Raised
  <2> QED BY <2>1, <2>2
<1> QED BY <1>2 DEF NoUpdateLost

\* The block whose setter raised is excepted from now on.
LEMMA RaisesStep ==
  ASSUME NEW c \in Callback, Typed, NoUpdateLost, Raises(c)
  PROVE  NoUpdateLost'
<1> USE DEF Typed, TypeOK
<1>1. /\ wpc = "apply" /\ wpc' = "raised" /\ cur \in Block
      /\ given' = [given EXCEPT ![cur][c] = value[cur][c]]
      /\ ran' = [ran EXCEPT ![cur] = Append(@, NotRun)]
      /\ UNCHANGED <<mask, value, cur, setting>>
  BY DEF Raises, page, parameters
<1>2. Raised(cur)'
  <2>1. NotRun \in Request BY DEF NotRun, Request
  <2>2. ran[cur] \in Seq(Request) /\ ran'[cur] = Append(ran[cur], NotRun) BY <1>1
  <2>3. /\ Len(ran[cur]) \in Nat /\ Len(ran'[cur]) = Len(ran[cur]) + 1
        /\ ran'[cur][Len(ran[cur]) + 1] = NotRun
    BY <2>1, <2>2, AppendProperties, LenProperties
  <2>4. Len(ran[cur]) + 1 \in 1 .. Len(ran'[cur]) BY <2>3
  <2> QED BY <1>1, <2>3, <2>4 DEF Raised
<1>3. ASSUME NEW x \in Block, NEW y \in Callback, ~Storing(x, y)', y \notin mask'[x], x # cur
      PROVE  given'[x][y] = value'[x][y] \/ Raised(x)'
  <2>1. ~Storing(x, y) /\ ~Reading(x, y) /\ y \notin mask[x]
    BY <1>1, <1>3 DEF Storing, Reading
  <2>2. given'[x] = given[x] /\ ran'[x] = ran[x] BY <1>1, <1>3
  <2> QED BY <1>1, <2>1, <2>2 DEF NoUpdateLost, Raised
<1> QED BY <1>1, <1>2, <1>3 DEF NoUpdateLost

LEMMA ServeStep ==
  ASSUME Typed, NoUpdateLost, Serve
  PROVE  NoUpdateLost'
<1> USE DEF Typed, TypeOK
<1> DEFINE r == [call |-> wop, args |-> args[cur]]
<1>1. /\ wpc = "apply" /\ wpc' = "python" /\ fresh = {} /\ cur \in Block
      /\ ran' = [ran EXCEPT ![cur] = Append(@, r)]
      /\ UNCHANGED <<mask, value, given, setting>>
  BY DEF Serve, page, parameters
<1>2. r \in Request
  BY <1>1 DEF Request
<1> HIDE DEF r
<1>3. ASSUME NEW b \in Block, Raised(b) PROVE Raised(b)'
  <2>1. ran'[b] = ran[b] \/ ran'[b] = Append(ran[b], r) BY <1>1
  <2> QED BY <1>2, <1>3, <2>1, RaisedStays
<1>4. ASSUME NEW b \in Block, NEW c \in Callback, ~Storing(b, c)', c \notin mask'[b]
      PROVE  given'[b][c] = value'[b][c] \/ Raised(b)'
  <2>1. ~Storing(b, c) /\ ~Reading(b, c) /\ c \notin mask[b]
    BY <1>1, <1>4 DEF Storing, Reading
  <2> QED BY <1>1, <1>3, <2>1 DEF NoUpdateLost
<1> QED BY <1>4 DEF NoUpdateLost

LEMMA WorkerStep ==
  ASSUME Typed, NoUpdateLost, Worker
  PROVE  NoUpdateLost'
<1>1. ASSUME NEW b \in Block, Bind(b) PROVE NoUpdateLost'
  BY <1>1, Untouched DEF Bind, page, parameters
<1>2. ASSUME NEW b \in Block, Notice(b) PROVE NoUpdateLost'
  BY <1>2, Untouched DEF Notice, page, parameters
<1>3. CASE LoadOp
  BY <1>3, Untouched DEF LoadOp, page, parameters
<1>4. ASSUME NEW how \in {"DONE", "FAILED"}, Answer(how) PROVE NoUpdateLost'
  BY <1>4, Untouched DEF Answer, page, parameters
<1> QED BY <1>1, <1>2, <1>3, <1>4, DrainStep, ApplyStep, RaisesStep, ServeStep DEF Worker

\* set_callback_value() and applyPendingParameters(): in every reachable state a
\* parameter whose bit is clear has reached Python, or is about to, or a setter of
\* its block has raised.
THEOREM NoChangeLost == Spec => []NoUpdateLost
<1>1. Init => Typed /\ NoUpdateLost
  BY TypedInit DEF Init, NoUpdateLost
<1>2. Typed /\ NoUpdateLost /\ [Next]_vars => Typed' /\ NoUpdateLost'
  <2> SUFFICES ASSUME Typed, NoUpdateLost, [Next]_vars PROVE Typed' /\ NoUpdateLost'
    OBVIOUS
  <2>1. CASE Next
    BY <2>1, TypedStep, HostStep, WorkerStep, PageStep DEF Next
  <2>2. CASE UNCHANGED vars
    BY <2>2, TypedStep, Untouched DEF vars, worker, page
  <2> QED BY <2>1, <2>2
<1> QED BY <1>1, <1>2, PTL DEF Spec
-----------------------------------------------------------------------------
\* The worker owes the block nothing and does nothing for it.
Quiet(b) == cur # b /\ served[b] = seq[b] /\ Len(ran[b]) = Len(posted[b])

\* A request is out: the worker has not seen it, or is on its way to Python with
\* it, or Python has it.
Asked(b) ==
  /\ state[b] = "BUSY" /\ op[b] \in Calls
  /\ Len(posted[b]) > 0 /\ posted[b][Len(posted[b])] = [call |-> op[b], args |-> args[b]]
  /\ \/ cur # b /\ served[b] + 1 = seq[b] /\ Len(ran[b]) + 1 = Len(posted[b])
     \/ cur = b /\ served[b] = seq[b] /\ wpc \in {"op", "drain", "apply"}
        /\ Len(ran[b]) + 1 = Len(posted[b]) /\ (wpc # "op" => wop = op[b])
     \/ cur = b /\ served[b] = seq[b] /\ wpc \in {"raised", "python"}
        /\ Len(ran[b]) = Len(posted[b])

\* Its answer is there, and is the answer to it.
Replied(b) ==
  state[b] \in {"DONE", "FAILED"} /\ Quiet(b) /\ (state[b] = "DONE" => result[b] = seq[b])

\* The block has asked its pump to end.
Left(b) == op[b] = "exit" /\ Len(ran[b]) = Len(posted[b]) /\ (cur = b => wpc = "op")

\* What has run so far, and what was asked for: a request that a setter kept from
\* Python is followed by stop() at most.
Follows(s, t) ==
  \A k \in 1 .. Len(s) :
    /\ k <= Len(t)
    /\ \/ s[k] = t[k]
       \/ s[k] = NotRun /\ \A j \in k + 1 .. Len(t) : t[j].call = "stop"

\* A setter has raised in the call under way: it is to be answered FAILED, or is.
Failing(b) ==
  hpc[b] \in {"wait", "take"} /\ ((cur = b /\ wpc = "raised") \/ state[b] = "FAILED")

\* A setter that has raised has ended the block, or is about to.
Noted(b) == Raised(b) => b \in thrown \/ Failing(b)

\* Where the block's thread is tells which of these holds.
Handshake(b) ==
  /\ Follows(ran[b], posted[b])
  /\ Noted(b)
  /\ hpc[b] \in {"new", "idle", "exit", "leave"} => Quiet(b)
  /\ hpc[b] \in {"op", "seq"} => Quiet(b) /\ state[b] = "BUSY" /\ call[b] \in Calls
  /\ hpc[b] = "seq" => op[b] = call[b]
  /\ hpc[b] = "wait" => Asked(b) \/ Replied(b)
  /\ hpc[b] = "take" => Replied(b)
  /\ hpc[b] = "leave" => op[b] = "exit"
  /\ hpc[b] = "ended" => Quiet(b) \/ Left(b)

\* A block that has thrown makes no call but stop().
OnlyStops(b) ==
  b \in thrown => hpc[b] # "new" /\ (hpc[b] \in {"idle", "ended"} \/ call[b] = "stop")

HandshakeInv ==
  /\ Typed /\ WorkAnswers
  /\ \A b \in Block : OnlyStops(b) /\ (b \notin timedOut => Handshake(b))

\* What Append adds is its last element.
LEMMA LastOne ==
  ASSUME NEW s \in Seq(Request), NEW r \in Request, NEW k \in 1 .. Len(s) + 1
  PROVE  Append(s, r)[k] = r \/ (k \in 1 .. Len(s) /\ Append(s, r)[k] = s[k])
<1>1. Len(s) \in Nat
  BY LenProperties
<1>2. /\ \A j \in 1 .. Len(s) : Append(s, r)[j] = s[j]
      /\ Append(s, r)[Len(s) + 1] = r
  BY AppendProperties
<1> QED BY <1>1, <1>2

\* It stays so when more is asked for, which is stop() if a setter has raised ...
LEMMA OneMore ==
  ASSUME NEW s \in Seq(Request), NEW t \in Seq(Request), NEW r \in Request, Follows(s, t),
         (\E k \in 1 .. Len(s) : s[k] = NotRun) => r.call = "stop"
  PROVE  Follows(s, Append(t, r))
<1>1. Len(s) \in Nat /\ Len(t) \in Nat /\ Len(Append(t, r)) = Len(t) + 1
  BY AppendProperties, LenProperties
<1>2. /\ \A k \in 1 .. Len(t) : Append(t, r)[k] = t[k]
      /\ Append(t, r)[Len(t) + 1] = r
  BY AppendProperties
<1>3. ASSUME NEW k \in 1 .. Len(s), s[k] = NotRun,
             \A j \in k + 1 .. Len(t) : t[j].call = "stop",
             NEW j \in k + 1 .. Len(t) + 1
      PROVE  Append(t, r)[j].call = "stop"
  <2>1. CASE j = Len(t) + 1
    BY <1>2, <1>3, <2>1
  <2>2. CASE j # Len(t) + 1
    <3>1. j \in k + 1 .. Len(t) /\ j \in 1 .. Len(t) BY <1>1, <2>2
    <3> QED BY <1>2, <1>3, <3>1
  <2> QED BY <2>1, <2>2
<1>4. ASSUME NEW k \in 1 .. Len(s)
      PROVE  /\ k <= Len(Append(t, r))
             /\ \/ s[k] = Append(t, r)[k]
                \/ s[k] = NotRun /\ \A j \in k + 1 .. Len(Append(t, r)) :
                                      Append(t, r)[j].call = "stop"
  <2>1. k <= Len(t) /\ k \in 1 .. Len(t) BY <1>1 DEF Follows
  <2>2. CASE s[k] = t[k] BY <1>1, <1>2, <2>1, <2>2
  <2>3. CASE s[k] = NotRun /\ \A j \in k + 1 .. Len(t) : t[j].call = "stop"
    <3>1. \A j \in k + 1 .. Len(t) + 1 : Append(t, r)[j].call = "stop"
      BY <1>3, <2>3
    <3> QED BY <1>1, <2>1, <2>3, <3>1
  <2> QED BY <2>2, <2>3 DEF Follows
<1> QED BY <1>4 DEF Follows

\* ... and when what was asked for next is run, or the last of it kept from Python.
LEMMA NextOne ==
  ASSUME NEW s \in Seq(Request), NEW t \in Seq(Request), NEW r \in Request, Follows(s, t),
         Len(s) < Len(t), t[Len(s) + 1] = r \/ (r = NotRun /\ Len(s) + 1 = Len(t))
  PROVE  Follows(Append(s, r), t)
<1>1. Len(s) \in Nat /\ Len(t) \in Nat /\ Len(Append(s, r)) = Len(s) + 1
  BY AppendProperties, LenProperties
<1>2. \A k \in 1 .. Len(s) : Append(s, r)[k] = s[k]
  BY AppendProperties
<1>3. Append(s, r)[Len(s) + 1] = r
  BY AppendProperties
<1> QED BY <1>1, <1>2, <1>3 DEF Follows

\* A step of somebody else, as the block sees it.
Apart(b) ==
  /\ state'[b] = state[b] /\ op'[b] = op[b] /\ seq'[b] = seq[b] /\ args'[b] = args[b]
  /\ result'[b] = result[b] /\ served'[b] = served[b]
  /\ hpc'[b] = hpc[b] /\ call'[b] = call[b] /\ (b \in thrown => b \in thrown')
  /\ posted'[b] = posted[b] /\ ran'[b] = ran[b]
  /\ (cur' = b <=> cur = b) /\ (cur = b => UNCHANGED <<wpc, wop>>)

LEMMA ApartStep ==
  ASSUME NEW b \in Block, Handshake(b), Apart(b)
  PROVE  Handshake(b)'
<1>1. (Quiet(b) => Quiet(b)') /\ (Replied(b) => Replied(b)') /\ (Left(b) => Left(b)')
  BY DEF Apart, Quiet, Replied, Left
<1>2. Asked(b) => Asked(b)'
  BY DEF Apart, Asked
<1>3. Noted(b) => Noted(b)'
  BY DEF Apart, Noted, Raised, Failing
<1> QED BY <1>1, <1>2, <1>3 DEF Handshake, Apart

\* The block's own steps, one by one.
LEMMA HostHandshake ==
  ASSUME NEW b \in Block, Typed, Typed', Handshake(b), OnlyStops(b), Host(b), b \notin timedOut'
  PROVE  Handshake(b)'
<1> USE DEF Typed, TypeOK, At, Goes
<1>1. UNCHANGED <<ran, served, cur, wpc, wop>>
  BY DEF Host, Start, Stop, Work, Post, StoreOp, Bump, GiveUp, Answered, Take, ExitOp, ExitBump,
         worker
<1>10. Noted(b)'
  <2>1. Raised(b)' => Raised(b)
    BY <1>1 DEF Raised
  <2>2. thrown \subseteq thrown'
    BY DEF Host, Start, Stop, Work, Post, StoreOp, Bump, GiveUp, Answered, Take, Throw, ExitOp,
           ExitBump
  <2>3. ASSUME Raised(b), b \notin thrown PROVE b \in thrown' \/ Failing(b)'
    <3>1. Failing(b)
      BY <2>3 DEF Handshake, Noted
    <3>2. Answered(b) \/ Take(b)
      BY <3>1 DEF Failing, Host, Start, Stop, Work, StoreOp, Bump, GiveUp, ExitOp, ExitBump
    <3>3. state[b] = "FAILED"
      BY <3>1, <3>2 DEF Failing, Answered, Take, Handshake, Asked, Replied, Quiet
    <3>4. CASE Answered(b)
      BY <3>3, <3>4 DEF Answered, Failing, words
    <3>5. CASE Take(b)
      BY <3>3, <3>5 DEF Take, Throw
    <3> QED BY <3>2, <3>4, <3>5
  <2> QED BY <2>1, <2>2, <2>3 DEF Noted
<1>2. CASE Start(b) \/ Stop(b) \/ \E c \in {"work", "forecast"} : Work(b, c)
  <2>1. /\ hpc[b] \in {"new", "idle"} /\ hpc'[b] = "op"
        /\ state'[b] = "BUSY" /\ call'[b] \in Calls
        /\ UNCHANGED <<seq, posted>>
    BY <1>2 DEF Start, Stop, Work, Post, Calls
  <2>2. Quiet(b)'
    BY <1>1, <2>1 DEF Handshake, Quiet
  <2> QED BY <1>1, <1>10, <2>1, <2>2 DEF Handshake
<1>3. CASE StoreOp(b)
  <2>1. /\ hpc[b] = "op" /\ hpc'[b] = "seq" /\ op'[b] = call[b]
        /\ UNCHANGED <<state, seq, call, posted>>
    BY <1>3 DEF StoreOp
  <2>2. Quiet(b)'
    BY <1>1, <2>1 DEF Handshake, Quiet
  <2> QED BY <1>1, <1>10, <2>1, <2>2 DEF Handshake
<1>4. CASE Bump(b)
  <2> DEFINE r == [call |-> call[b], args |-> args[b]]
  <2>1. /\ hpc[b] = "seq" /\ hpc'[b] = "wait" /\ seq'[b] = seq[b] + 1
        /\ posted'[b] = Append(posted[b], r)
        /\ UNCHANGED <<state, op, args, call>>
    BY <1>4 DEF Bump
  <2>2. Quiet(b) /\ state[b] = "BUSY" /\ op[b] = call[b] /\ call[b] \in Calls
    BY <2>1 DEF Handshake
  <2>3. posted[b] \in Seq(Request) /\ r \in Request
    BY DEF Request
  <2> HIDE DEF r
  <2>4. /\ Len(posted'[b]) = Len(posted[b]) + 1 /\ posted'[b][Len(posted[b]) + 1] = r
        /\ \A k \in 1 .. Len(posted[b]) : posted'[b][k] = posted[b][k]
        /\ Len(posted[b]) \in Nat
    <3>1. Len(Append(posted[b], r)) = Len(posted[b]) + 1
      BY <2>3, AppendProperties
    <3>2. Append(posted[b], r)[Len(posted[b]) + 1] = r
      BY <2>3, AppendProperties
    <3>3. \A k \in 1 .. Len(posted[b]) : Append(posted[b], r)[k] = posted[b][k]
      BY <2>3, AppendProperties
    <3>4. Len(posted[b]) \in Nat
      BY <2>3, LenProperties
    <3> QED BY <2>1, <3>1, <3>2, <3>3, <3>4
  <2>5. Asked(b)'
    BY <1>1, <2>1, <2>2, <2>4 DEF Asked, Quiet, r
  <2>6. Raised(b) => b \in thrown
    BY <2>1 DEF Handshake, Noted, Failing
  <2>7. (\E k \in 1 .. Len(ran[b]) : ran[b][k] = NotRun) => r.call = "stop"
    <3>1. b \in thrown => call[b] = "stop"
      BY <2>1 DEF OnlyStops
    <3> QED BY <2>6, <3>1 DEF Raised, r
  <2>8. Follows(ran'[b], posted'[b])
    <3>1. Follows(ran[b], posted[b]) /\ ran'[b] = ran[b] /\ ran[b] \in Seq(Request)
      BY <1>1 DEF Handshake
    <3>2. Follows(ran[b], Append(posted[b], r))
      BY <2>3, <2>7, <3>1, OneMore
    <3> QED BY <2>1, <3>1, <3>2
  <2> QED BY <1>10, <2>1, <2>5, <2>8 DEF Handshake
<1>5. CASE GiveUp(b)
  BY <1>5 DEF GiveUp
<1>6. CASE Answered(b)
  <2>1. /\ hpc[b] = "wait" /\ hpc'[b] = "take" /\ state[b] # "BUSY"
        /\ UNCHANGED <<state, op, seq, args, result, posted, call>>
    BY <1>6 DEF Answered, words
  <2>2. Replied(b)'
    BY <1>1, <2>1 DEF Handshake, Asked, Replied, Quiet
  <2> QED BY <1>1, <1>10, <2>1, <2>2 DEF Handshake
<1>7. CASE Take(b)
  <2>1. /\ hpc[b] = "take" /\ hpc'[b] \in {"idle", "ended", "exit"}
        /\ UNCHANGED <<state, op, seq, args, result, posted, call>>
    BY <1>7 DEF Take, Throw, words
  <2>2. Quiet(b)'
    BY <1>1, <2>1 DEF Handshake, Replied, Quiet
  <2> QED BY <1>1, <1>10, <2>1, <2>2 DEF Handshake
<1>8. CASE ExitOp(b)
  <2>1. /\ hpc[b] = "exit" /\ hpc'[b] = "leave" /\ op'[b] = "exit"
        /\ UNCHANGED <<seq, posted>>
    BY <1>8 DEF ExitOp
  <2>2. Quiet(b)'
    BY <1>1, <2>1 DEF Handshake, Quiet
  <2> QED BY <1>1, <1>10, <2>1, <2>2 DEF Handshake
<1>9. CASE ExitBump(b)
  <2>1. /\ hpc[b] = "leave" /\ hpc'[b] = "ended"
        /\ UNCHANGED <<op, posted>>
    BY <1>9 DEF ExitBump
  <2>2. Left(b)'
    BY <1>1, <2>1 DEF Handshake, Quiet, Left
  <2> QED BY <1>1, <1>10, <2>1, <2>2 DEF Handshake
<1> QED BY <1>2, <1>3, <1>4, <1>5, <1>6, <1>7, <1>8, <1>9 DEF Host

\* The worker's steps for the block it is at work for, or takes up.
LEMMA WorkerHandshake ==
  ASSUME NEW b \in Block, Typed, Typed', Handshake(b), Worker, cur = b \/ cur' = b
  PROVE  Handshake(b)'
<1> USE DEF Typed, TypeOK
<1>1. UNCHANGED <<op, seq, args, hpc, call, posted, thrown>>
  BY DEF Worker, Bind, Notice, LoadOp, Drain, Apply, Raises, Serve, Answer, words, host
<1>2. b # None
  BY PythonAssumption DEF PythonAssumption
<1>3. ASSUME NEW x \in Block, Bind(x) PROVE Handshake(b)'
  BY <1>2, <1>3 DEF Bind
<1>4. ASSUME NEW x \in Block, Notice(x) PROVE Handshake(b)'
  <2>1. /\ x = b /\ cur = None /\ cur' = b /\ wpc' = "op" /\ seq[b] # served[b]
        /\ served'[b] = seq[b] /\ UNCHANGED <<state, result, ran, wop>>
    BY <1>2, <1>4 DEF Notice, Posted, words
  <2>2. ~Quiet(b) /\ ~Replied(b)
    BY <2>1 DEF Quiet, Replied
  <2>3. Asked(b) => Asked(b)'
    BY <1>1, <1>2, <2>1 DEF Asked
  <2>4. Left(b) => Left(b)'
    BY <1>1, <2>1 DEF Left
  <2>5. Noted(b)'
    <3>1. ~Failing(b)
      BY <1>2, <2>1, <2>2 DEF Failing, Handshake, Asked
    <3> QED BY <1>1, <2>1, <3>1 DEF Handshake, Noted, Raised
  <2> QED BY <1>1, <2>1, <2>2, <2>3, <2>4, <2>5 DEF Handshake
<1>5. ASSUME ~(\E x \in Block : Bind(x) \/ Notice(x)) PROVE Handshake(b)'
  <2>1. cur = b /\ wpc # "idle" /\ UNCHANGED served
    <3>1. \/ LoadOp \/ Drain \/ (\E c \in Callback : Apply(c) \/ Raises(c)) \/ Serve
          \/ \E how \in {"DONE", "FAILED"} : Answer(how)
      BY <1>5 DEF Worker
    <3>2. wpc # "idle" /\ cur' \in {cur, None} /\ UNCHANGED served
      BY <3>1 DEF LoadOp, Drain, Apply, Raises, Serve, Answer
    <3> QED BY <1>2, <3>2
  <2>2. ~Quiet(b) /\ ~Replied(b)
    BY <2>1 DEF Quiet, Replied
  <2>3. /\ hpc[b] \in {"wait", "ended"}
        /\ hpc[b] = "wait" => Asked(b)
        /\ hpc[b] = "ended" => Left(b)
    BY <2>2 DEF Handshake
  <2>10. ASSUME wpc # "raised", UNCHANGED ran PROVE Noted(b)'
    <3>1. ~Failing(b)
      BY <2>3, <2>10 DEF Failing, Asked
    <3> QED BY <1>1, <2>10, <3>1 DEF Handshake, Noted, Raised
  <2>4. CASE LoadOp
    <3>1. wpc = "op" /\ wop' = op[b] /\ UNCHANGED <<state, result, ran>>
      BY <2>1, <2>4 DEF LoadOp, words
    <3>2. CASE op[b] = "exit"
      <4>1. hpc[b] = "ended"
        BY <2>3, <3>2 DEF Asked, Calls
      <4>2. Left(b)'
        BY <1>1, <1>2, <2>3, <2>4, <3>1, <3>2, <4>1 DEF LoadOp, Left
      <4> QED BY <1>1, <2>10, <3>1, <4>1, <4>2 DEF Handshake
    <3>3. CASE op[b] # "exit"
      <4>1. hpc[b] = "wait" /\ Asked(b)
        BY <2>3, <3>3 DEF Left
      <4>2. wpc' = "drain" /\ cur' = b
        BY <2>1, <2>4, <3>1, <3>3 DEF LoadOp
      <4>3. Asked(b)'
        BY <1>1, <2>1, <3>1, <4>1, <4>2 DEF Asked
      <4> QED BY <1>1, <2>10, <3>1, <4>1, <4>3 DEF Handshake
    <3> QED BY <3>2, <3>3
  <2>5. CASE ~LoadOp
    <3>1. wpc \in {"drain", "apply", "raised", "python"}
      BY <1>5, <2>1, <2>5 DEF Worker, LoadOp, Drain, Apply, Raises, Serve, Answer
    <3>2. hpc[b] = "wait" /\ Asked(b)
      BY <2>1, <2>3, <3>1 DEF Left
    <3>3. CASE Drain \/ \E c \in Callback : Apply(c)
      <4>1. /\ wpc \in {"drain", "apply"} /\ wpc' = "apply"
            /\ UNCHANGED <<state, result, cur, wop, ran>>
        BY <3>3 DEF Drain, Apply, words
      <4>2. Asked(b)'
        BY <1>1, <2>1, <3>2, <4>1 DEF Asked
      <4> QED BY <1>1, <2>10, <3>2, <4>1, <4>2 DEF Handshake
    <3>4. CASE Serve
      <4> DEFINE r == [call |-> wop, args |-> args[b]]
      <4>1. /\ wpc = "apply" /\ wpc' = "python" /\ ran'[b] = Append(ran[b], r)
            /\ UNCHANGED <<state, result, cur>>
        BY <2>1, <3>4 DEF Serve, words
      <4>2. /\ wop = op[b] /\ Len(ran[b]) + 1 = Len(posted[b])
            /\ posted[b][Len(posted[b])] = [call |-> op[b], args |-> args[b]]
        BY <2>1, <3>2, <4>1 DEF Asked
      <4>3. posted[b][Len(ran[b]) + 1] = r
        BY <4>2
      <4>4. ran[b] \in Seq(Request) /\ posted[b] \in Seq(Request) /\ r \in Request
        BY DEF Request
      <4> HIDE DEF r
      <4>5. Len(ran'[b]) = Len(ran[b]) + 1
        BY <4>1, <4>4, AppendProperties
      <4>6. Len(ran[b]) < Len(posted[b])
        BY <4>2, <4>4, LenProperties
      <4>7. Follows(ran[b], posted[b])
        BY DEF Handshake
      <4>8. Follows(Append(ran[b], r), posted[b])
        BY <4>3, <4>4, <4>6, <4>7, NextOne
      <4>9. Noted(b)'
        <5>1. ~Failing(b)
          BY <3>2, <4>1 DEF Failing, Asked
        <5>2. r # NotRun
          BY <3>2, <4>2 DEF r, NotRun, Asked, Calls
        <5>3. Raised(b)' => Raised(b)
          BY <4>1, <4>4, <4>5, <5>2, LastOne DEF Raised
        <5> QED BY <1>1, <5>1, <5>3 DEF Handshake, Noted
      <4>10. Follows(ran'[b], posted'[b])
        BY <1>1, <4>1, <4>8
      <4>11. Asked(b)'
        BY <1>1, <2>1, <3>2, <4>1, <4>2, <4>5 DEF Asked
      <4> QED BY <1>1, <3>2, <4>1, <4>9, <4>10, <4>11 DEF Handshake
    <3>6. ASSUME NEW c \in Callback, Raises(c) PROVE Handshake(b)'
      <4>1. /\ wpc = "apply" /\ wpc' = "raised" /\ ran'[b] = Append(ran[b], NotRun)
            /\ UNCHANGED <<state, result, cur>>
        BY <2>1, <3>6 DEF Raises, words
      <4>2. Len(ran[b]) + 1 = Len(posted[b])
        BY <2>1, <3>2, <4>1 DEF Asked
      <4>3. ran[b] \in Seq(Request) /\ posted[b] \in Seq(Request) /\ NotRun \in Request
        BY DEF Request, NotRun
      <4>4. /\ Len(ran'[b]) = Len(ran[b]) + 1 /\ Len(ran[b]) < Len(posted[b])
        BY <4>1, <4>2, <4>3, AppendProperties, LenProperties
      <4>5. Follows(Append(ran[b], NotRun), posted[b])
        <5>1. Follows(ran[b], posted[b])
          BY DEF Handshake
        <5> QED BY <4>2, <4>3, <4>4, <5>1, NextOne
      <4>6. Follows(ran'[b], posted'[b])
        BY <1>1, <4>1, <4>5
      <4>7. Noted(b)'
        BY <1>1, <2>1, <3>2, <4>1 DEF Noted, Failing
      <4>8. Asked(b)'
        BY <1>1, <2>1, <3>2, <4>1, <4>2, <4>4 DEF Asked
      <4> QED BY <1>1, <3>2, <4>1, <4>6, <4>7, <4>8 DEF Handshake
    <3>5. ASSUME NEW how \in {"DONE", "FAILED"}, Answer(how) PROVE Handshake(b)'
      <4>1. /\ wpc \in {"raised", "python"} /\ cur' = None /\ state'[b] = how
            /\ wpc = "raised" => how = "FAILED"
            /\ result'[b] = IF how = "DONE" THEN served[b] ELSE result[b]
            /\ UNCHANGED ran
        BY <2>1, <3>5 DEF Answer
      <4>2. Len(ran[b]) = Len(posted[b]) /\ served[b] = seq[b]
        BY <2>1, <3>2, <4>1 DEF Asked
      <4>3. Replied(b)'
        BY <1>1, <1>2, <2>1, <4>1, <4>2 DEF Replied, Quiet
      <4>4. Noted(b)'
        <5>1. CASE wpc = "python"
          BY <2>10, <4>1, <5>1
        <5>2. CASE wpc = "raised"
          BY <1>1, <3>2, <4>1, <5>2 DEF Noted, Failing
        <5> QED BY <4>1, <5>1, <5>2
      <4> QED BY <1>1, <3>2, <4>1, <4>3, <4>4 DEF Handshake
    <3> QED BY <1>5, <2>5, <3>3, <3>4, <3>5, <3>6 DEF Worker
  <2> QED BY <2>4, <2>5
<1> QED BY <1>3, <1>4, <1>5

\* A step of one block or of the worker is Apart for every other block.
LEMMA HandshakeStep ==
  ASSUME Typed, Typed', HandshakeInv, [Next]_vars,
         NEW b \in Block, b \notin timedOut'
  PROVE  Handshake(b)'
<1> USE DEF Typed, TypeOK
<1>1. ASSUME NEW x \in Block, Host(x), x # b PROVE Apart(b)
  <2>1. UNCHANGED worker
    BY <1>1 DEF Host, Start, Stop, Work, Post, StoreOp, Bump, GiveUp, Answered, Take, ExitOp,
                ExitBump
  <2>2. UNCHANGED <<served, ran, cur, wpc, wop>> /\ (b \in thrown => b \in thrown')
    <3>1. thrown \subseteq thrown'
      BY <1>1 DEF Host, Start, Stop, Work, Post, StoreOp, Bump, GiveUp, Answered, Take, Throw,
                  ExitOp, ExitBump
    <3> QED BY <2>1, <3>1 DEF worker
  <2>3. ASSUME NEW c \in Calls, Post(x, c) PROVE /\ state'[b] = state[b] /\ UNCHANGED <<op, seq, posted>>
                                                /\ hpc'[b] = hpc[b] /\ call'[b] = call[b]
    BY <1>1, <2>3 DEF Post, Goes
  <2>4. CASE Start(x) \/ Stop(x)
    BY <2>2, <2>3, <2>4 DEF Start, Stop, Calls, Apart
  <2>5. ASSUME NEW c \in {"work", "forecast"}, Work(x, c) PROVE Apart(b)
    <3>1. args'[b] = args[b] /\ result'[b] = result[b]
      BY <1>1, <2>5 DEF Work
    <3> QED BY <2>2, <2>3, <2>5, <3>1 DEF Work, Calls, Apart
  <2>6. CASE StoreOp(x)
    BY <1>1, <2>2, <2>6 DEF StoreOp, Goes, Apart
  <2>7. CASE ExitOp(x)
    BY <1>1, <2>2, <2>7 DEF ExitOp, Goes, Apart
  <2>8. CASE ExitBump(x)
    BY <1>1, <2>2, <2>8 DEF ExitBump, Goes, Apart
  <2>9. CASE Bump(x)
    BY <1>1, <2>2, <2>9 DEF Bump, Goes, Apart
  <2>10. CASE GiveUp(x) \/ Answered(x) \/ Take(x)
    <3>1. UNCHANGED <<words, call, posted>>
      BY <2>10 DEF GiveUp, Answered, Take
    <3>2. \E place : Goes(x, place)
      BY <2>10 DEF GiveUp, Answered, Take, Throw
    <3>3. hpc'[b] = hpc[b]
      BY <1>1, <3>2 DEF Goes
    <3> QED BY <2>2, <3>1, <3>3 DEF words, Apart
  <2> QED BY <1>1, <2>4, <2>5, <2>6, <2>7, <2>8, <2>9, <2>10 DEF Host
<1>2. ASSUME Worker, cur # b, cur' # b PROVE Apart(b)
  <2>1. UNCHANGED <<op, seq, args, host>>
    BY <1>2 DEF Worker, Bind, Notice, LoadOp, Drain, Apply, Raises, Serve, Answer, words
  <2>2. CASE \E x \in Block : Bind(x) \/ Notice(x)
    BY <1>2, <2>1, <2>2 DEF Bind, Notice, words, host, Apart
  <2>3. CASE ~(\E x \in Block : Bind(x) \/ Notice(x))
    <3>1. wpc # "idle" /\ cur \in Block /\ UNCHANGED served
      BY <1>2, <2>3 DEF Worker, LoadOp, Drain, Apply, Raises, Serve, Answer
    <3>2. state'[b] = state[b] /\ result'[b] = result[b]
      <4>1. ASSUME NEW how \in {"DONE", "FAILED"}, Answer(how)
            PROVE  state'[b] = state[b] /\ result'[b] = result[b]
        BY <1>2, <3>1, <4>1 DEF Answer
      <4> QED BY <1>2, <2>3, <4>1 DEF Worker, LoadOp, Drain, Apply, Raises, Serve, words
    <3>3. ran'[b] = ran[b]
      <4>1. UNCHANGED ran \/ \E e : ran' = [ran EXCEPT ![cur] = e]
        <5>1. ASSUME NEW c \in Callback, Raises(c)
              PROVE  ran' = [ran EXCEPT ![cur] = Append(ran[cur], NotRun)]
          BY <5>1 DEF Raises
        <5>2. Serve => ran' = [ran EXCEPT ![cur] =
                                 Append(ran[cur], [call |-> wop, args |-> args[cur]])]
          BY DEF Serve
        <5>3. LoadOp \/ Drain \/ (\E c \in Callback : Apply(c))
                \/ (\E how \in {"DONE", "FAILED"} : Answer(how)) => UNCHANGED ran
          BY DEF LoadOp, Drain, Apply, Answer
        <5> QED BY <1>2, <2>3, <5>1, <5>2, <5>3 DEF Worker
      <4> QED BY <1>2, <3>1, <4>1
    <3> QED BY <1>2, <2>1, <3>1, <3>2, <3>3 DEF host, Apart
  <2> QED BY <2>2, <2>3
<1>3. ASSUME Page \/ UNCHANGED vars PROVE Apart(b)
  BY <1>3 DEF Page, SetValue, SetBit, StopFlowgraph, vars, words, host, worker, Apart
<1>4. timedOut \subseteq timedOut'
  BY DEF Next, Host, Start, Stop, Work, Post, StoreOp, Bump, GiveUp, Answered, Take, Throw, ExitOp,
         ExitBump, Worker, Bind, Notice, LoadOp, Drain, Apply, Raises, Serve, Answer, Page, SetValue,
         SetBit, StopFlowgraph, host, vars
<1>5. Handshake(b) /\ OnlyStops(b)
  BY <1>4 DEF HandshakeInv
<1> QED BY <1>1, <1>2, <1>3, <1>5, ApartStep, HostHandshake, WorkerHandshake DEF Next

\* An exception leads to stop() or out: a block that has thrown asks for nothing else.
LEMMA OnlyStopsStep ==
  ASSUME Typed, [Next]_vars, NEW b \in Block, OnlyStops(b)
  PROVE  OnlyStops(b)'
<1> USE DEF Typed, TypeOK, OnlyStops, At, Goes
<1>1. ASSUME UNCHANGED <<thrown, hpc, call>> PROVE OnlyStops(b)'
  BY <1>1
<1>2. ASSUME NEW x \in Block, Start(x) \/ Stop(x) \/ \E c \in {"work", "forecast"} : Work(x, c)
      PROVE OnlyStops(b)'
  BY <1>2 DEF Start, Stop, Work, Post
<1>3. ASSUME NEW x \in Block, StoreOp(x) \/ Bump(x) \/ Answered(x) \/ ExitOp(x) \/ ExitBump(x)
      PROVE OnlyStops(b)'
  BY <1>3 DEF StoreOp, Bump, Answered, ExitOp, ExitBump
<1>4. ASSUME NEW x \in Block, GiveUp(x) \/ Take(x) PROVE OnlyStops(b)'
  BY <1>4 DEF GiveUp, Take, Throw
<1>5. Worker \/ Page \/ UNCHANGED vars => UNCHANGED <<thrown, hpc, call>>
  BY DEF Worker, Bind, Notice, LoadOp, Drain, Apply, Raises, Serve, Answer, Page, SetValue, SetBit,
         StopFlowgraph, host, vars
<1> QED BY <1>1, <1>2, <1>3, <1>4, <1>5 DEF Next, Host

\* Answers are taken in Take alone.
LEMMA WorkAnswersStep ==
  ASSUME Typed, HandshakeInv, [Next]_vars
  PROVE  WorkAnswers'
<1> USE DEF Typed, TypeOK
<1>1. CASE UNCHANGED answers
  BY <1>1 DEF HandshakeInv, WorkAnswers
<1>2. ASSUME NEW x \in Block, Take(x), state[x] # "FAILED" PROVE WorkAnswers'
  <2> DEFINE a == [call |-> call[x], asked |-> seq[x], got |-> result[x]]
  <2>1. /\ hpc[x] = "take" /\ thrown' = thrown /\ timedOut' = timedOut
        /\ answers' = [answers EXCEPT ![x] = @ \cup {a}]
    BY <1>2 DEF Take, At
  <2>2. call[x] # "stop" => result[x] = seq[x]
    <3>1. SUFFICES ASSUME call[x] # "stop" PROVE result[x] = seq[x]
      OBVIOUS
    <3>2. x \notin timedOut
      BY <2>1, <3>1 DEF HandshakeInv, OnlyStops
    <3>3. Replied(x)
      BY <2>1, <3>2 DEF HandshakeInv, Handshake
    <3> QED BY <1>2, <3>3 DEF Replied
  <2>3. a.call # "stop" => a.got = a.asked
    BY <2>2
  <2> HIDE DEF a
  <2>4. \A y \in Block : \A z \in answers'[y] : z \in answers[y] \/ z = a
    BY <2>1
  <2> QED BY <2>3, <2>4 DEF HandshakeInv, WorkAnswers
<1>3. UNCHANGED answers \/ \E x \in Block : Take(x) /\ state[x] # "FAILED"
  BY DEF Next, Host, Start, Stop, Work, Post, StoreOp, Bump, GiveUp, Answered, Take, ExitOp,
         ExitBump, Worker, Bind, Notice, LoadOp, Drain, Apply, Raises, Serve, Answer, Page, SetValue,
         SetBit, StopFlowgraph, host, vars
<1> QED BY <1>1, <1>2, <1>3

LEMMA HandshakeInvariant == Spec => []HandshakeInv
<1>1. Init => HandshakeInv
  <2> SUFFICES ASSUME Init PROVE HandshakeInv
    OBVIOUS
  <2>1. Typed
    BY TypedInit
  <2>2. WorkAnswers
    BY DEF Init, WorkAnswers
  <2>3. ASSUME NEW b \in Block PROVE OnlyStops(b) /\ Handshake(b)
    <3>1. b # None BY PythonAssumption DEF PythonAssumption
    <3>2. /\ hpc[b] = "new" /\ b \notin thrown /\ cur # b /\ served[b] = 0 /\ seq[b] = 0
          /\ ran[b] = <<>> /\ posted[b] = <<>>
      BY <3>1 DEF Init
    <3>3. Follows(ran[b], posted[b]) /\ Noted(b)
      BY <3>2 DEF Follows, Noted, Raised
    <3> QED BY <3>2, <3>3 DEF OnlyStops, Handshake, Quiet
  <2> QED BY <2>1, <2>2, <2>3 DEF HandshakeInv
<1>2. HandshakeInv /\ [Next]_vars => HandshakeInv'
  <2> SUFFICES ASSUME HandshakeInv, [Next]_vars PROVE HandshakeInv'
    OBVIOUS
  <2>1. Typed /\ Typed'
    BY TypedStep DEF HandshakeInv
  <2>2. \A b \in Block : OnlyStops(b)'
    BY <2>1, OnlyStopsStep DEF HandshakeInv
  <2>3. \A b \in Block : b \notin timedOut' => Handshake(b)'
    BY <2>1, HandshakeStep
  <2>4. WorkAnswers'
    BY <2>1, WorkAnswersStep
  <2> QED BY <2>1, <2>2, <2>3, <2>4 DEF HandshakeInv
<1> QED BY <1>1, <1>2, PTL DEF Spec

\* The words, the histories and the worker keep their types.
THEOREM TypeCorrect == Spec => []TypeOK
<1>1. HandshakeInv => TypeOK
  BY DEF HandshakeInv, Typed
<1> QED BY <1>1, HandshakeInvariant, PTL

\* request() and pump(): until a request gives up, Python runs what the block asked,
\* in order and once, whichever blocks share the worker; what a raising setter kept
\* from it is followed by stop() at most.
THEOREM RunsInOrder == Spec => []RanInOrder
<1>1. HandshakeInv => RanInOrder
  <2> SUFFICES ASSUME HandshakeInv, NEW b \in Block \ timedOut
               PROVE  /\ Len(ran[b]) <= Len(posted[b])
                      /\ \A k \in 1 .. Len(ran[b]) :
                           \/ ran[b][k] = posted[b][k]
                           \/ /\ ran[b][k] = NotRun
                              /\ \A j \in k + 1 .. Len(posted[b]) : posted[b][j].call = "stop"
    BY DEF RanInOrder
  <2>1. Follows(ran[b], posted[b])
    BY DEF HandshakeInv, Handshake
  <2>2. Len(ran[b]) \in Nat /\ Len(posted[b]) \in Nat
    BY LenProperties DEF HandshakeInv, Typed
  <2>3. Len(ran[b]) <= Len(posted[b])
    BY <2>1, <2>2 DEF Follows
  <2> QED BY <2>1, <2>3 DEF Follows
<1> QED BY <1>1, HandshakeInvariant, PTL

\* request(): the answer a call of start(), forecast() or general_work() takes is
\* the answer to that call, also after another request has given up.
THEOREM AnswersMatch == Spec => []WorkAnswers
<1>1. HandshakeInv => WorkAnswers
  BY DEF HandshakeInv
<1> QED BY <1>1, HandshakeInvariant, PTL
=============================================================================
