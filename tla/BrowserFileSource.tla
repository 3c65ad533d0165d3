-------------------------- MODULE BrowserFileSource --------------------------
(***************************************************************************)
(* The File Source block and its reader worker.  The block thread runs     *)
(* start(), work() and stop() of blocks/src/browser_file_source.cpp; the   *)
(* worker runs runner/src/browser_file_reader.js; the page launches and    *)
(* terminates the worker.  They share a ring and the control words         *)
(* READ_POS, WRITE_POS and STATE, and nothing else.                        *)
(*                                                                         *)
(* A step ends wherever the other side can run in between: at each atomic  *)
(* load or store of a word the other side writes, and at each await.  The  *)
(* selection is Length items of ItemSize bytes; a byte is its offset in    *)
(* the selection, so that an item put together from the wrong bytes shows. *)
(*                                                                         *)
(* A definition that ends in _Something is a faulty variant of the one     *)
(* after it, a slip this code could have; no specification uses it.        *)
(***************************************************************************)
EXTENDS Integers, Sequences, FiniteSetsExt

CONSTANTS
  Capacity,    \* slots in the ring
  Length,      \* items in one pass over the selection
  ItemSize,    \* bytes per item
  MaxChunk,    \* items per request (MAX_CHUNK_BYTES)
  MaxOutput,   \* bound: the largest noutput_items the scheduler asks for
  MaxRetries,  \* MAX_RETRIES
  MaxPasses,   \* bound: a repeating source is asked for this many passes
  Kinds,       \* the kinds of source considered
  TagPlan,     \* offsets of the recording's tags in a pass, in order
  NoItem

ASSUME SourceAssumption ==
  /\ Capacity \in Nat /\ Capacity >= 2
  /\ Length \in Nat \ {0} /\ ItemSize \in Nat \ {0} /\ MaxChunk \in Nat \ {0}
  /\ MaxOutput \in Nat \ {0} /\ MaxRetries \in Nat \ {0} /\ MaxPasses \in Nat \ {0}
  /\ Kinds \subseteq [remote : BOOLEAN, repeat : BOOLEAN]
  /\ TagPlan \in Seq(Nat)
  /\ \A e \in 1 .. Len(TagPlan) - 1 : TagPlan[e] <= TagPlan[e + 1]

VARIABLES
  kind,         \* a URL read with range requests or a local File; Repeat or not
  \* shared control block and ring
  readPos, writePos, state, ring,
  \* the reader worker
  rpc,          \* where it is in run(); "none" before the launch, "gone" at the end
  position,     \* first item of the current request
  remaining,    \* items of this pass not requested yet
  want,         \* requestItems of the current request
  published,    \* items of the request already published
  filled,       \* items copied into the ring, WRITE_POS not stored yet
  carry,        \* bytes of a piece that ended inside an item
  fetched,      \* bytes of the request received (streamHttp's position - start)
  attempt, progressed,
  pass,         \* passes completed by the reader
  dry,          \* history: attempts in a row that brought no byte
  cause,        \* history: why the reader failed
  \* the block thread
  wpc,          \* where it is in work() or stop()
  wanted,       \* noutput_items of the call
  produced,     \* items produced by the call
  avail,        \* what the last loads of the positions said
  taken, hand,  \* items copied out, READ_POS not stored yet
  intoPass, repeats, tagCursor,
  stopping,     \* the flowgraph was asked to stop
  outcome,      \* how the block ended
  returned,     \* items work() has handed to the scheduler
  out,          \* history: every item copied out and released
  begins,       \* history: the begin tags, as <<offset, repeat count>>
  tags          \* history: tags[e] is where plan entry e was put

shared == <<readPos, writePos, state, ring>>
request == <<position, remaining, want, published, filled, carry, fetched>>
retry == <<attempt, progressed, dry, cause>>
reader == <<rpc, request, retry, pass>>
call == <<wanted, produced, avail, taken, hand>>
progress == <<intoPass, repeats, tagCursor, begins, tags>>
block == <<wpc, call, progress, stopping, outcome, returned, out>>
vars == <<kind, shared, reader, block>>

States == {"INITIAL", "RUNNING", "EOF_REACHED", "ERROR", "CANCELLED"}

-----------------------------------------------------------------------------
Remote == kind.remote
Repeat == kind.repeat

Slot == 0 .. Capacity - 1
Advance(p, n) == (p + n) % Capacity
Used == IF writePos >= readPos THEN writePos - readPos ELSE Capacity - (readPos - writePos)

\* One slot is always left empty.
Free == Capacity - Used - 1

\* Item number i of the selection, as the bytes it is made of.
FileItem(i) == [b \in 1 .. ItemSize |-> i * ItemSize + b - 1]

-----------------------------------------------------------------------------
Init ==
  /\ kind \in Kinds
  /\ readPos = 0 /\ writePos = 0 /\ state = "INITIAL"
  /\ ring = [s \in Slot |-> NoItem]
  /\ rpc = "none" /\ position = 0 /\ remaining = Length
  /\ want = 0 /\ published = 0 /\ filled = 0 /\ carry = <<>> /\ fetched = 0
  /\ attempt = 0 /\ progressed = FALSE /\ pass = 0 /\ dry = 0 /\ cause = "none"
  /\ wpc = "new" /\ wanted = 0 /\ produced = 0 /\ avail = 0 /\ taken = 0 /\ hand = <<>>
  /\ intoPass = 0 /\ repeats = 0 /\ tagCursor = 0
  /\ stopping = FALSE /\ outcome = "none" /\ returned = 0
  /\ out = <<>> /\ begins = <<>> /\ tags = [e \in DOMAIN TagPlan |-> <<>>]

(***************************************************************************)
(* The block thread                                                        *)
(***************************************************************************)
\* start(): the control words are at their initial values; the launch of the
\* worker is proxied to the page and either succeeds or makes start() throw.
Start ==
  /\ wpc = "new"
  /\ \/ /\ rpc' = "boot" /\ wpc' = "idle"
        /\ UNCHANGED <<state, outcome>>
     \/ /\ state' = "ERROR" /\ outcome' = "error" /\ wpc' = "stopped"
        /\ UNCHANGED rpc
  /\ UNCHANGED <<readPos, writePos, ring, request, retry, pass, call, progress,
                 stopping, returned, out>>

\* The flowgraph is stopped: its threads notice between two calls of work().
StopFlowgraph ==
  /\ ~stopping /\ wpc # "new"
  /\ stopping' = TRUE
  /\ UNCHANGED <<kind, shared, reader, wpc, call, progress, outcome, returned, out>>

\* The scheduler calls work() for n items.
Work(n) ==
  /\ wpc = "idle" /\ ~stopping /\ outcome = "none"
  /\ Repeat => Len(out) + n <= MaxPasses * Length
  /\ wpc' = "load"
  /\ wanted' = n /\ produced' = 0
  /\ UNCHANGED <<shared, reader, avail, taken, hand, progress, stopping, outcome,
                 returned, out>>

\* The positions are loaded at the head of the loop.
WorkLoad ==
  /\ wpc = "load"
  /\ avail' = Used
  /\ wpc' = IF Used = 0 THEN "state" ELSE "copy"
  /\ UNCHANGED <<shared, reader, wanted, produced, taken, hand, progress, stopping,
                 outcome, returned, out>>

AtEnd_NoEof == state = "CANCELLED"
AtEnd == state \in {"EOF_REACHED", "CANCELLED"}

Failed_Never == FALSE
Failed == state = "ERROR"

\* Only for an empty ring is STATE loaded, and later than the positions were.
\* With nothing decided the thread waits on WRITE_POS for 100 ms at most.
WorkState ==
  /\ wpc = "state"
  /\ \/ /\ AtEnd
        /\ wpc' = "idle"
        /\ outcome' = IF produced = 0 THEN "done" ELSE outcome
        /\ returned' = returned + produced
     \/ /\ Failed
        /\ wpc' = "idle" /\ outcome' = "error"
        /\ UNCHANGED returned
     \/ /\ ~AtEnd /\ ~Failed
        /\ wpc' = "load"
        /\ UNCHANGED <<outcome, returned>>
  /\ UNCHANGED <<shared, reader, call, progress, stopping, out>>

\* The tags of the plan that are on the next n samples.
Due_OneEarly(n) == {e \in DOMAIN TagPlan : e > tagCursor /\ TagPlan[e] <= intoPass + n}
Due(n) == {e \in DOMAIN TagPlan : e > tagCursor /\ TagPlan[e] < intoPass + n}

\* Tags go on the samples about to be produced, then the samples are copied: no
\* more than are there, are wanted, are left of the pass or fit before the wrap.
WorkCopy ==
  LET take == Min({avail, wanted - produced, Length - intoPass, Capacity - readPos})
      into(e) == IF TagPlan[e] > intoPass THEN TagPlan[e] - intoPass ELSE 0
  IN
  /\ wpc = "copy"
  /\ wpc' = "release"
  /\ begins' = IF intoPass = 0 THEN Append(begins, <<Len(out), repeats>>) ELSE begins
  /\ tags' = [e \in DOMAIN TagPlan |->
                IF e \in Due(take) THEN Append(tags[e], Len(out) + into(e)) ELSE tags[e]]
  /\ tagCursor' = Max(Due(take) \cup {tagCursor})
  /\ hand' = [k \in 1 .. take |-> ring[readPos + k - 1]]
  /\ taken' = take
  /\ produced' = produced + take
  /\ intoPass' = intoPass + take
  /\ UNCHANGED <<shared, reader, wanted, avail, repeats, stopping, outcome, returned, out>>

\* The next pass starts the plan over.
NextPass_KeepsCursor == intoPass' = 0 /\ repeats' = repeats + 1 /\ UNCHANGED tagCursor
NextPass == intoPass' = 0 /\ repeats' = repeats + 1 /\ tagCursor' = 0

\* READ_POS is stored.
WorkRelease ==
  /\ wpc = "release"
  /\ readPos' = Advance(readPos, taken)
  /\ out' = out \o hand
  /\ hand' = <<>> /\ taken' = 0 /\ avail' = 0
  /\ IF intoPass = Length THEN NextPass ELSE UNCHANGED <<intoPass, tagCursor, repeats>>
  /\ IF produced = wanted
     THEN wpc' = "idle" /\ returned' = returned + produced
     ELSE wpc' = "load" /\ UNCHANGED returned
  /\ UNCHANGED <<writePos, state, ring, reader, wanted, produced, begins, tags, stopping,
                 outcome>>

\* stop(): CANCELLED is stored first; the worker is terminated by the page, to
\* which the call is proxied, and may run on until then.
StopStore ==
  /\ wpc = "idle" /\ (stopping \/ outcome # "none")
  /\ state' = "CANCELLED"
  /\ wpc' = "stop"
  /\ UNCHANGED <<readPos, writePos, ring, reader, call, progress, stopping, outcome,
                 returned, out>>

StopTerminate ==
  /\ wpc = "stop"
  /\ rpc' = "gone" /\ wpc' = "stopped"
  /\ UNCHANGED <<shared, request, retry, pass, call, progress, stopping, outcome,
                 returned, out>>

(***************************************************************************)
(* The reader worker                                                       *)
(***************************************************************************)
\* The worker closes itself; nothing of it runs afterwards.
Close == rpc' = "gone"

\* fail(): the message is in place before STATE says ERROR.
Fail(why) ==
  /\ Close /\ state' = "ERROR" /\ cause' = why
  /\ UNCHANGED <<readPos, writePos, ring, request, attempt, progressed, dry, pass, block>>

\* The worker's script does not load: the page logs it, STATE stays as it is.
NeverLoads ==
  /\ rpc = "boot"
  /\ Close /\ cause' = "unloaded"
  /\ UNCHANGED <<shared, request, attempt, progressed, dry, pass, block>>

\* run() begins by storing RUNNING, whatever STATE holds by then.
Boot ==
  /\ rpc = "boot"
  /\ rpc' = "check" /\ state' = "RUNNING"
  /\ UNCHANGED <<readPos, writePos, ring, request, retry, pass, block>>

Check ==
  /\ rpc = "check"
  /\ IF state = "CANCELLED" THEN Close ELSE rpc' = "size"
  /\ UNCHANGED <<shared, request, retry, pass, block>>

\* READ_POS is loaded.  A full ring is waited on for a second at most.
Size ==
  /\ rpc = "size"
  /\ IF Free = 0
     THEN /\ rpc' = "check"
          /\ UNCHANGED <<request, attempt, progressed, dry>>
     ELSE /\ rpc' = IF Remote THEN "fetch" ELSE "read"
          /\ want' = Min({Free, MaxChunk, remaining})
          /\ published' = 0 /\ carry' = <<>> /\ fetched' = 0
          /\ attempt' = 0 /\ progressed' = FALSE /\ dry' = 0
          /\ UNCHANGED <<position, remaining, filled>>
  /\ UNCHANGED <<shared, cause, pass, block>>

\* n more bytes of the range arrive, after the carry of the piece before.
Bytes(n) == [b \in 1 .. n |-> position * ItemSize + fetched + b - 1]
Input_NoCarry(n) == Bytes(n)
Input(n) == carry \o Bytes(n)

\* publish(): they make whole items, which go into the ring after those already
\* published, and a new carry.  Without a whole item nothing is published.
Deliver(n, next) ==
  LET input == Input(n)
      items == Len(input) \div ItemSize
      item(k) == SubSeq(input, k * ItemSize + 1, (k + 1) * ItemSize)
      after(s) == IF s >= writePos THEN s - writePos ELSE Capacity - (writePos - s)
  IN
  /\ ring' = [s \in Slot |-> IF after(s) < items THEN item(after(s)) ELSE ring[s]]
  /\ filled' = items
  /\ carry' = SubSeq(input, items * ItemSize + 1, Len(input))
  /\ fetched' = fetched + n
  /\ rpc' = IF items = 0 THEN next ELSE "publish"
  /\ UNCHANGED <<readPos, writePos, state, position, remaining, want, published, pass, block>>

\* A slice of a local file: all of it, or less when the file has shrunk.
ReadLocal(n) ==
  /\ rpc = "read"
  /\ n <= want * ItemSize
  /\ Deliver(n, "verify")
  /\ UNCHANGED retry

\* WRITE_POS is stored, which publishes the items.
Publish ==
  /\ rpc = "publish"
  /\ writePos' = Advance(writePos, filled)
  /\ published' = published + filled
  /\ filled' = 0
  /\ rpc' = IF Remote THEN "body" ELSE "verify"
  /\ UNCHANGED <<readPos, state, ring, position, remaining, want, carry, fetched, retry, pass,
                 block>>

\* A file that can no longer be read, or a server's answer that another attempt
\* would not change: a 404, a range that is not the one asked for, a body that
\* is longer than the range.
GiveUpAtOnce ==
  /\ rpc \in {"read", "fetch", "body"}
  /\ ~(rpc # "read" /\ state = "CANCELLED")
  /\ ~(rpc = "body" /\ fetched = want * ItemSize)
  /\ Fail("refused")

\* streamHttp() looks at STATE before each attempt, before each piece and after
\* each failure, and returns when the block was stopped.
Abandon ==
  /\ rpc \in {"fetch", "body", "retry"} /\ state = "CANCELLED"
  /\ rpc' = "verify"
  /\ UNCHANGED <<shared, request, retry, pass, block>>

\* An attempt to fetch what is left of the range is answered with a body.
Fetch ==
  /\ rpc = "fetch" /\ state # "CANCELLED"
  /\ rpc' = "body" /\ progressed' = FALSE
  /\ UNCHANGED <<shared, request, attempt, dry, cause, pass, block>>

\* A piece of the body is delivered.
Piece(n) ==
  /\ rpc = "body" /\ state # "CANCELLED"
  /\ fetched + n <= want * ItemSize
  /\ Deliver(n, "body")
  /\ progressed' = TRUE /\ dry' = 0
  /\ UNCHANGED <<attempt, cause>>

\* The range is complete.
BodyComplete ==
  /\ rpc = "body" /\ fetched = want * ItemSize
  /\ rpc' = "verify"
  /\ UNCHANGED <<shared, request, retry, pass, block>>

\* A retryable failure: no connection, a 5xx, 20 seconds without data, a body
\* that ends early.
AttemptFails ==
  /\ rpc \in {"fetch", "body"}
  /\ rpc = "body" => fetched < want * ItemSize
  /\ rpc' = "retry"
  /\ progressed' = (progressed /\ rpc = "body")
  /\ dry' = IF progressed' THEN 0 ELSE dry + 1
  /\ UNCHANGED <<shared, request, attempt, cause, pass, block>>

\* An attempt that brought bytes starts the count over.
NextAttempt_Counts == attempt + 1
NextAttempt == IF progressed THEN 0 ELSE attempt + 1

\* The next attempt resumes after the last byte delivered; the last one ends the
\* source.
Retry ==
  /\ rpc = "retry" /\ state # "CANCELLED"
  /\ LET next == NextAttempt
     IN \/ /\ next < MaxRetries
           /\ rpc' = "fetch" /\ attempt' = next
           /\ UNCHANGED <<shared, request, progressed, dry, cause, pass, block>>
        \/ /\ next = MaxRetries
           /\ Fail("retries")

Short_Carry == carry # <<>>
Short == carry # <<>> \/ published # want

\* The request is over: cancelled, or checked to be whole items and all of them.
Verify ==
  /\ rpc = "verify"
  /\ \/ /\ state = "CANCELLED"
        /\ Close
        /\ UNCHANGED <<shared, request, retry, pass, block>>
     \/ /\ state # "CANCELLED"
        /\ Short /\ Fail("short")
     \/ /\ state # "CANCELLED"
        /\ ~Short /\ rpc' = "advance"
        /\ UNCHANGED <<shared, request, retry, pass, block>>

MoreToCome_OneShort == remaining > want + 1
MoreToCome == remaining > want

\* On to the next request, the next pass or the end of the file.
NextRequest ==
  /\ rpc = "advance"
  /\ want' = 0 /\ published' = 0 /\ fetched' = 0
  /\ \/ /\ MoreToCome
        /\ position' = position + want /\ remaining' = remaining - want
        /\ rpc' = "check"
        /\ UNCHANGED <<state, pass>>
     \/ /\ ~MoreToCome /\ Repeat
        /\ position' = 0 /\ remaining' = Length
        /\ pass' = pass + 1
        /\ rpc' = "check"
        /\ UNCHANGED state
     \/ /\ ~MoreToCome /\ ~Repeat
        /\ position' = position + want /\ remaining' = 0
        /\ pass' = pass + 1
        /\ state' = "EOF_REACHED"
        /\ Close
  /\ UNCHANGED <<readPos, writePos, ring, filled, carry, retry, block>>

-----------------------------------------------------------------------------
Pieces == 1 .. MaxChunk * ItemSize

Request == \/ \E n \in 0 .. MaxChunk * ItemSize : ReadLocal(n)
           \/ Fetch \/ (\E n \in Pieces : Piece(n)) \/ BodyComplete
           \/ AttemptFails \/ Retry \/ Abandon \/ GiveUpAtOnce

Reader ==
  /\ NeverLoads \/ Boot \/ Check \/ Size \/ Request \/ Publish \/ Verify \/ NextRequest
  /\ UNCHANGED kind

WorkStep == WorkLoad \/ WorkState \/ WorkCopy \/ WorkRelease
StopStep == StopStore \/ StopTerminate
Block ==
  /\ Start \/ (\E n \in 1 .. MaxOutput : Work(n)) \/ WorkStep \/ StopStep
  /\ UNCHANGED kind

\* The run is over: nothing more is expected to happen.
Over == wpc = "stopped" /\ rpc \in {"none", "gone"} /\ UNCHANGED vars

Next == Block \/ Reader \/ StopFlowgraph \/ Over

Spec == Init /\ [][Next]_vars

(***************************************************************************)
(* The block's thread keeps running and its scheduler keeps calling work(). *)
(* The worker keeps running; a read always ends, because a fetch without   *)
(* data is aborted after STALL_TIMEOUT_MS.  Nobody has to stop the graph.  *)
(***************************************************************************)
Fairness == WF_vars(Block) /\ WF_vars(Reader)

FairSpec == Spec /\ Fairness

-----------------------------------------------------------------------------
TypeOK ==
  /\ kind \in Kinds
  /\ readPos \in Slot /\ writePos \in Slot /\ state \in States
  /\ rpc \in {"none", "boot", "check", "size", "read", "fetch", "body", "publish", "retry",
              "verify", "advance", "gone"}
  /\ position \in 0 .. Length /\ remaining \in 0 .. Length
  /\ want \in 0 .. Capacity - 1 /\ published \in 0 .. want /\ filled \in 0 .. want - published
  /\ Len(carry) < ItemSize /\ fetched \in 0 .. want * ItemSize
  /\ attempt \in 0 .. MaxRetries - 1 /\ progressed \in BOOLEAN
  /\ pass \in Nat /\ dry \in 0 .. MaxRetries
  /\ cause \in {"none", "unloaded", "refused", "retries", "short"}
  /\ wpc \in {"new", "idle", "load", "state", "copy", "release", "stop", "stopped"}
  /\ wanted \in 0 .. MaxOutput /\ produced \in 0 .. wanted
  /\ avail \in 0 .. Capacity - 1 /\ taken \in 0 .. avail /\ Len(hand) = taken
  /\ intoPass \in 0 .. Length /\ repeats \in Nat
  /\ tagCursor \in 0 .. Len(TagPlan)
  /\ stopping \in BOOLEAN /\ outcome \in {"none", "done", "error"}

\* Whatever the sizes of pieces, requests and outputs, the wraps, the retries in
\* the middle of an item and the passes: the output is the selection, pass after
\* pass, with no item missing, twice, or made of bytes of two items.
OutputIsSelection ==
  \A i \in 1 .. Len(out) : out[i] = FileItem((i - 1) % Length)

\* The samples of the output at offset off of a pass.
PlacesOf(off) == {i \in 0 .. Len(out) + taken - 1 : i % Length = off}

\* Every tag of the plan is on its own sample, once in every pass, however the
\* passes are cut into copies; begin tags count the passes.
TagsOnTheirSamples ==
  /\ \A e \in DOMAIN TagPlan :
       /\ Len(tags[e]) = Cardinality(PlacesOf(TagPlan[e]))
       /\ \A k \in 1 .. Len(tags[e]) : tags[e][k] = (k - 1) * Length + TagPlan[e]
  /\ Len(begins) = Cardinality(PlacesOf(0))
  /\ \A k \in 1 .. Len(begins) : begins[k] = <<(k - 1) * Length, k - 1>>

\* A remote source gives up on retryable failures only after MAX_RETRIES attempts
\* in a row without a byte.
OnlyDeadLinksGiveUp == cause = "retries" => dry = MaxRetries

\* EOF_REACHED says that the whole selection is in the ring or has been read.
EofMeansPublished == state = "EOF_REACHED" => Len(out) + Used = Length

\* What progress() shows: the place in the pass and the passes completed.
Progress ==
  LET n == Len(out) + taken
  IN IF n > 0 /\ n % Length = 0 THEN [position |-> Length, passes |-> (n \div Length) - 1]
                                ELSE [position |-> n % Length, passes |-> n \div Length]

\* A source that ended by reaching the end of the file shows all of it as read.
ReadToItsEnd == outcome = "done" => Progress.position = Length

\* Asked to stop, the block comes to rest, and so does its worker; only a worker
\* whose script never loaded leaves work() waiting, with STATE at INITIAL.
StopCompletes ==
  stopping ~> ((wpc = "stopped" /\ rpc \in {"none", "gone"}) \/ cause = "unloaded")

\* Left alone, a source without Repeat ends: at the end of the file or in error.
PassEnds == ~Repeat => <>(outcome # "none" \/ stopping \/ cause = "unloaded")

\* The two sides implement the ring.
MaxItems == Length * (MaxPasses + 1) + Capacity

Ring == INSTANCE SpscRing WITH
          Total <- MaxItems,
          Stream <- [i \in 0 .. MaxItems - 1 |-> FileItem(i % Length)],
          budget <- want - published,
          hand <- [k \in 0 .. taken - 1 |-> hand[k + 1]],
          sent <- Len(out) + Used,
          received <- Len(out),
          out <- [i \in 0 .. Len(out) - 1 |-> out[i + 1]]
RingSpec == Ring!Spec
=============================================================================
