--------------------------- MODULE BrowserFileSink ---------------------------
(***************************************************************************)
(* The SigMF Sink: the block of blocks/src/browser_file_sink.cpp, its      *)
(* writer worker runner/src/browser_file_writer.js and the page code of    *)
(* runner/src/runner.html that launches, messages and terminates it.       *)
(*                                                                         *)
(* Block and worker share a ring and the words READ_POS, WRITE_POS and     *)
(* STATE; worker and page exchange messages; the block calls the page      *)
(* synchronously, from start() and stop() only.  The items of the stream   *)
(* are numbered 0, 1, 2...  A step ends where another thread can run in    *)
(* between: at each load or store of a shared word, each message and each  *)
(* await.  cancel(), called by the destructor, is left out: stop() has     *)
(* always run by then and left it nothing to do.                           *)
(***************************************************************************)
EXTENDS Integers, Sequences, SequencesExt, FiniteSetsExt

CONSTANTS
  Capacity,     \* slots in the ring
  Total,        \* bound: items the flowgraph offers the sink
  MaxInput,     \* bound: the largest noutput_items of a call of work()
  MaxChunk,     \* items the writer takes at a time (MAX_CHUNK_BYTES)
  Kinds,        \* the kinds of recording considered
  MaxDownload,  \* items a buffered recording may reach (MAX_DOWNLOAD_BYTES)
  None          \* no item, no message, no file

ASSUME SinkAssumption ==
  /\ Capacity \in Nat /\ Capacity >= 2
  /\ Total \in Nat /\ MaxInput \in Nat \ {0} /\ MaxChunk \in Nat \ {0}
  /\ Kinds \subseteq [mode : {"fsaccess", "download"}, patient : BOOLEAN]
  /\ MaxDownload \in Nat

VARIABLES
  kind,          \* the destination, and whether FINISH_TIMEOUT_MS never passes
  readPos, writePos, state, ring,
  \* the block thread
  wpc,           \* where it is in work() or stop()
  wanted,        \* noutput_items of the call
  consumed,      \* items of the call accepted so far
  take, filled,  \* items to be copied in; copied, WRITE_POS not stored yet
  accepted,      \* history: items whose WRITE_POS has been stored
  itemsWritten,  \* d_items_written, the sample count of the metadata
  stopping,      \* the flowgraph was asked to stop
  thrown,        \* work() threw the writer's error
  reports,       \* what stop() logged
  \* the writer worker
  kpc,           \* where it is in run(); "none" before the launch, "gone" at the end
  seen,          \* STATE as loaded at the head of the loop
  avail,         \* items counted by the loads of the positions
  taken, chunk,  \* items copied out, READ_POS not stored yet; the last chunk
  drained,       \* history: all items released
  file,          \* the items written to the destination
  finishRequested, failure,
  \* the page
  registered,    \* the worker is in fileWriters
  posted,        \* the finish message on its way to the worker: its sample count
  tasks,         \* messages and timers waiting for the page, in order
  savedData, savedMeta   \* what the reader has: the data, the metadata's count

shared == <<readPos, writePos, state, ring>>
call == <<wanted, consumed, take, filled>>
ended == <<stopping, thrown, reports>>
block == <<wpc, call, accepted, itemsWritten, ended>>
drain == <<seen, avail, taken, chunk, drained, file>>
worker == <<kpc, drain, finishRequested, failure>>
saved == <<savedData, savedMeta>>
page == <<registered, posted, tasks, saved>>
vars == <<kind, shared, block, worker, page>>

States == {"INITIAL", "RUNNING", "FINISHING", "ERROR", "CLOSED"}

-----------------------------------------------------------------------------
\* "fsaccess", files on disk, or "download", a recording buffered in memory.
Mode == kind.mode
Patient == kind.patient

Slot == 0 .. Capacity - 1

Advance(p, n) == (p + n) % Capacity
Used == IF writePos >= readPos THEN writePos - readPos ELSE Capacity - (readPos - writePos)

\* Faulty variant: the empty slot is forgotten.
Free_NoGap == Capacity - Used

\* One slot is always left empty.
Free == Capacity - Used - 1

Init ==
  /\ kind \in Kinds
  /\ readPos = 0 /\ writePos = 0 /\ state = "INITIAL" /\ ring = [s \in Slot |-> None]
  /\ wpc = "new" /\ wanted = 0 /\ consumed = 0 /\ take = 0 /\ filled = 0
  /\ accepted = 0 /\ itemsWritten = 0
  /\ stopping = FALSE /\ thrown = FALSE /\ reports = {}
  /\ kpc = "none" /\ seen = "INITIAL" /\ avail = 0 /\ taken = 0 /\ chunk = <<>>
  /\ drained = <<>> /\ file = <<>> /\ finishRequested = FALSE /\ failure = "none"
  /\ registered = FALSE /\ posted = None /\ tasks = <<>>
  /\ savedData = None /\ savedMeta = None

(***************************************************************************)
(* The block thread                                                        *)
(***************************************************************************)
\* start(): the page launches and registers the worker, or start() throws.
Start ==
  /\ wpc = "new"
  /\ \/ /\ wpc' = "idle" /\ kpc' = "boot" /\ registered' = TRUE
        /\ UNCHANGED <<state, thrown>>
     \/ /\ wpc' = "stopped" /\ thrown' = TRUE /\ state' = "ERROR"
        /\ UNCHANGED <<kpc, registered>>
  /\ UNCHANGED <<readPos, writePos, ring, call, accepted, itemsWritten, stopping, reports,
                 drain, finishRequested, failure, posted, tasks, saved>>

\* The flowgraph is stopped, or its upstream blocks are done.
StopFlowgraph ==
  /\ ~stopping /\ wpc # "new"
  /\ stopping' = TRUE
  /\ UNCHANGED <<kind, shared, wpc, call, accepted, itemsWritten, thrown, reports, worker, page>>

\* The scheduler calls work() with n items.
Work(n) ==
  /\ wpc = "idle" /\ ~stopping /\ ~thrown
  /\ accepted + n <= Total
  /\ wpc' = "state" /\ wanted' = n /\ consumed' = 0
  /\ UNCHANGED <<kind, shared, take, filled, accepted, itemsWritten, ended, worker, page>>

\* STATE is loaded at the head of the loop.  An error is thrown, and the items
\* of this call are then not counted.  (CLOSED and CANCELLED are never found
\* here: stop() runs on this thread too.)
WorkState ==
  /\ wpc = "state"
  /\ IF state = "ERROR" THEN wpc' = "idle" /\ thrown' = TRUE
                        ELSE wpc' = "load" /\ UNCHANGED thrown
  /\ UNCHANGED <<shared, call, accepted, itemsWritten, stopping, reports, worker, page>>

\* The positions are loaded.  A full ring is waited on for 100 ms at most.
WorkLoad ==
  /\ wpc = "load"
  /\ IF Free = 0
     THEN wpc' = "state" /\ UNCHANGED take
     ELSE wpc' = "copy" /\ take' = Min({Free, wanted - consumed, Capacity - writePos})
  /\ UNCHANGED <<shared, wanted, consumed, filled, accepted, itemsWritten, ended, worker, page>>

\* The items are copied in.
WorkCopy ==
  /\ wpc = "copy"
  /\ wpc' = "publish"
  /\ ring' = [s \in Slot |-> IF s \in writePos .. writePos + take - 1
                             THEN accepted + (s - writePos) ELSE ring[s]]
  /\ consumed' = consumed + take /\ filled' = take
  /\ UNCHANGED <<readPos, writePos, state, wanted, take, accepted, itemsWritten, ended, worker,
                 page>>

\* Faulty variant: only the items of the call's last copy are counted.
Counted_LastCopy == filled
Counted == consumed

\* WRITE_POS is stored; the call that is complete counts its items.
WorkPublish ==
  /\ wpc = "publish"
  /\ writePos' = Advance(writePos, filled)
  /\ accepted' = accepted + filled
  /\ take' = 0 /\ filled' = 0
  /\ IF consumed = wanted
     THEN wpc' = "idle" /\ itemsWritten' = itemsWritten + Counted
     ELSE wpc' = "state" /\ UNCHANGED itemsWritten
  /\ UNCHANGED <<readPos, state, ring, wanted, consumed, ended, worker, page>>

\* stop(), run by the executor's destructor also after an exception: the page
\* posts the metadata to the worker, if it still knows the worker.
StopPayload ==
  /\ wpc = "idle" /\ (stopping \/ thrown)
  /\ wpc' = "finish"
  /\ posted' = IF registered THEN itemsWritten ELSE posted
  /\ UNCHANGED <<shared, call, accepted, itemsWritten, ended, worker, registered, tasks, saved>>

\* FINISHING is stored, whatever STATE holds by then.
StopStore ==
  /\ wpc = "finish"
  /\ wpc' = "wait" /\ state' = "FINISHING"
  /\ UNCHANGED <<readPos, writePos, ring, call, accepted, itemsWritten, ended, worker, page>>

\* Faulty variant: stop() waits without a deadline.
DeadlinePasses_Never == FALSE
DeadlinePasses == ~Patient /\ state \notin {"CLOSED", "ERROR"}

\* The wait ends when STATE says that the worker has closed the file or failed,
\* or at the deadline, which is reported.
StopWait ==
  /\ wpc = "wait"
  /\ wpc' = "verdict"
  /\ \/ /\ state \in {"CLOSED", "ERROR"}
        /\ UNCHANGED reports
     \/ /\ DeadlinePasses
        /\ reports' = reports \cup {"timeout"}
  /\ UNCHANGED <<shared, call, accepted, itemsWritten, stopping, thrown, worker, page>>

\* STATE is loaded once more, for the error to report.
StopVerdict ==
  /\ wpc = "verdict"
  /\ wpc' = "terminate"
  /\ reports' = IF state = "ERROR" THEN reports \cup {"failed"} ELSE reports
  /\ UNCHANGED <<shared, call, accepted, itemsWritten, stopping, thrown, worker, page>>

\* Faulty variant: the worker is terminated at once, with its messages still queued.
StopTerminate_AtOnce ==
  /\ wpc = "terminate"
  /\ wpc' = "stopped"
  /\ IF registered THEN tasks' = <<>> /\ registered' = FALSE /\ kpc' = "gone"
                   ELSE UNCHANGED <<tasks, registered, kpc>>
  /\ UNCHANGED <<shared, call, accepted, itemsWritten, ended, drain, finishRequested, failure,
                 posted, saved>>

\* The page is asked to terminate the worker, which it puts off by a task.
StopTerminate ==
  /\ wpc = "terminate"
  /\ wpc' = "stopped"
  /\ tasks' = IF registered THEN Append(tasks, "terminate") ELSE tasks
  /\ UNCHANGED <<shared, call, accepted, itemsWritten, ended, worker, registered, posted, saved>>

(***************************************************************************)
(* The writer worker                                                       *)
(***************************************************************************)
\* fail(): STATE says ERROR, then the page is told.
Fail(why) ==
  /\ kpc' = "failing" /\ state' = "ERROR" /\ failure' = why
  /\ UNCHANGED <<readPos, writePos, ring, block, drain, finishRequested, page>>

TellFailure ==
  /\ kpc = "failing"
  /\ kpc' = "gone" /\ tasks' = Append(tasks, "error")
  /\ UNCHANGED <<shared, block, drain, finishRequested, failure, registered, posted, saved>>

\* The script runs and gets its start message; or it does not load, and only the
\* page learns of it (worker.onerror).
Boot ==
  /\ kpc = "boot"
  /\ \/ /\ kpc' = "open"
        /\ UNCHANGED <<failure, tasks>>
     \/ /\ kpc' = "gone" /\ failure' = "unloaded" /\ tasks' = Append(tasks, "error")
  /\ UNCHANGED <<shared, block, drain, finishRequested, registered, posted, saved>>

\* The destination is open: RUNNING is stored, whatever STATE holds by then.
Open ==
  /\ kpc = "open"
  /\ \/ /\ kpc' = "head" /\ state' = "RUNNING"
        /\ UNCHANGED <<readPos, writePos, ring, block, drain, finishRequested, failure, page>>
     \/ /\ Mode = "fsaccess"
        /\ Fail("open")

\* The worker awaits the file system or a timer; a buffered write awaits neither.
\* Faulty variant: it sleeps in Atomics.wait, where no message reaches it.
Awaits_Files == kpc \in IF Mode = "fsaccess" THEN {"open", "write"} ELSE {}
Awaits == kpc = "idle" \/ (Mode = "fsaccess" /\ kpc \in {"open", "write"})

\* Only then can the finish message be handled.
Finish ==
  /\ posted # None /\ ~finishRequested /\ Awaits
  /\ finishRequested' = TRUE
  /\ UNCHANGED <<kind, shared, block, kpc, drain, failure, page>>

\* STATE is loaded, then the positions.
LoadState ==
  /\ kpc = "head"
  /\ kpc' = "look" /\ seen' = state
  /\ UNCHANGED <<shared, block, avail, taken, chunk, drained, file, finishRequested, failure,
                 page>>

\* Faulty variant: FINISHING ends the loop before the ring is looked at.
AfterLook_NoDrain ==
  IF seen = "FINISHING" /\ finishRequested THEN "finish" ELSE IF Used > 0 THEN "copy" ELSE "idle"
AfterLook ==
  IF Used > 0 THEN "copy" ELSE IF seen = "FINISHING" /\ finishRequested THEN "finish" ELSE "idle"

\* An empty ring is the end once the STATE seen was FINISHING and the metadata is
\* here; otherwise the worker sleeps for IDLE_POLL_MS.
Look ==
  /\ kpc = "look"
  /\ avail' = Used
  /\ kpc' = AfterLook
  /\ UNCHANGED <<shared, block, seen, taken, chunk, drained, file, finishRequested, failure,
                 page>>

Wake ==
  /\ kpc = "idle"
  /\ kpc' = "head"
  /\ UNCHANGED <<shared, block, drain, finishRequested, failure, page>>

\* A chunk is copied out, up to the wrap at most.
Copy ==
  LET n == Min({avail, MaxChunk, Capacity - readPos}) IN
  /\ kpc = "copy"
  /\ kpc' = "release"
  /\ taken' = n /\ chunk' = SubSeq([s \in 1 .. Capacity |-> ring[s - 1]], readPos + 1, readPos + n)
  /\ UNCHANGED <<shared, block, seen, avail, drained, file, finishRequested, failure, page>>

\* READ_POS is stored before the chunk is written.
Release ==
  /\ kpc = "release"
  /\ kpc' = "write"
  /\ readPos' = Advance(readPos, taken)
  /\ drained' = drained \o chunk
  /\ taken' = 0 /\ avail' = 0
  /\ UNCHANGED <<writePos, state, ring, block, seen, chunk, file, finishRequested, failure, page>>

\* The write ends.  A disk can refuse it, a buffer has a limit.
Write ==
  /\ kpc = "write"
  /\ \/ /\ Mode = "download" => Len(file) + Len(chunk) <= MaxDownload
        /\ kpc' = "head" /\ file' = file \o chunk /\ chunk' = <<>>
        /\ UNCHANGED <<shared, block, seen, avail, taken, drained, finishRequested, failure, page>>
     \/ /\ Mode = "download" => Len(file) + Len(chunk) > MaxDownload
        /\ Fail("write")

\* A buffered recording goes to the page in the "done" message.
FinishDownload ==
  /\ kpc = "finish" /\ Mode = "download"
  /\ kpc' = "close" /\ tasks' = Append(tasks, "done")
  /\ UNCHANGED <<shared, block, drain, finishRequested, failure, registered, posted, saved>>

\* Faulty variant: a file closed with the metadata still to come counts as done.
FinishData_Only ==
  /\ kpc = "finish" /\ Mode = "fsaccess"
  /\ kpc' = "close" /\ savedData' = file /\ tasks' = Append(tasks, "done")
  /\ UNCHANGED <<shared, block, drain, finishRequested, failure, registered, posted, savedMeta>>

\* On disk the data file is closed, then the metadata written, then "done" posted.
FinishData ==
  /\ kpc = "finish" /\ Mode = "fsaccess"
  /\ \/ /\ kpc' = "meta" /\ savedData' = file
        /\ UNCHANGED <<shared, block, drain, finishRequested, failure, registered, posted, tasks,
                       savedMeta>>
     \/ Fail("close")

\* The metadata file is written.
FinishMeta ==
  /\ kpc = "meta"
  /\ \/ /\ kpc' = "close" /\ savedMeta' = posted /\ tasks' = Append(tasks, "done")
        /\ UNCHANGED <<shared, block, drain, finishRequested, failure, registered, posted,
                       savedData>>
     \/ Fail("meta")

\* Only then is CLOSED stored.
Close ==
  /\ kpc = "close"
  /\ kpc' = "gone" /\ state' = "CLOSED"
  /\ UNCHANGED <<readPos, writePos, ring, block, drain, finishRequested, failure, page>>

(***************************************************************************)
(* The page: one task at a time, in the order they were queued             *)
(***************************************************************************)
\* "done" and "error" unregister the worker; a buffered recording is handed to
\* the browser's downloader.
ServeMessage ==
  /\ tasks # <<>> /\ Head(tasks) \in {"done", "error"}
  /\ tasks' = Tail(tasks)
  /\ registered' = FALSE
  /\ IF Head(tasks) = "done" /\ Mode = "download"
     THEN savedData' = file /\ savedMeta' = posted
     ELSE UNCHANGED saved
  /\ UNCHANGED <<shared, block, worker, posted>>

\* The timer of __grStopBrowserFileSink: nothing if a message came first.
ServeTerminate ==
  /\ tasks # <<>> /\ Head(tasks) = "terminate"
  /\ tasks' = Tail(tasks)
  /\ registered' = FALSE
  /\ kpc' = IF registered THEN "gone" ELSE kpc
  /\ UNCHANGED <<shared, block, drain, finishRequested, failure, posted, saved>>

-----------------------------------------------------------------------------
StopStep == StopPayload \/ StopStore \/ StopWait \/ StopVerdict \/ StopTerminate
WorkStep == WorkState \/ WorkLoad \/ WorkCopy \/ WorkPublish
Block == (Start \/ WorkStep \/ StopStep) /\ UNCHANGED kind

Writer ==
  /\ \/ Boot \/ Open \/ LoadState \/ Look \/ Wake \/ Copy \/ Release \/ Write
     \/ FinishDownload \/ FinishData \/ FinishMeta \/ Close \/ TellFailure
  /\ UNCHANGED kind

Page == (ServeMessage \/ ServeTerminate) /\ UNCHANGED kind

\* The run is over: nothing more is expected to happen.
Over == wpc = "stopped" /\ kpc \in {"none", "gone"} /\ tasks = <<>> /\ UNCHANGED vars

Next == \/ Block \/ Writer \/ Page \/ Finish \/ StopFlowgraph \/ Over
        \/ \E n \in 1 .. MaxInput : Work(n)

Spec == Init /\ [][Next]_vars

(***************************************************************************)
(* The block's thread, the worker and the page keep running: the page is   *)
(* never blocked by a shutdown, and a message posted to the worker is      *)
(* handled at one of the awaits it keeps coming to.  Reads and writes of   *)
(* files end.  Nobody has to call work() or to stop the flowgraph.         *)
(***************************************************************************)
Fairness == WF_vars(Block) /\ WF_vars(Writer) /\ WF_vars(Page) /\ SF_vars(Finish)

FairSpec == Spec /\ Fairness

-----------------------------------------------------------------------------
TypeOK ==
  /\ kind \in Kinds
  /\ readPos \in Slot /\ writePos \in Slot /\ state \in States
  /\ wpc \in {"new", "idle", "state", "load", "copy", "publish", "finish", "wait", "verdict",
              "terminate", "stopped"}
  /\ wanted \in 0 .. MaxInput /\ consumed \in 0 .. wanted
  /\ take \in 0 .. Capacity - 1 /\ filled \in 0 .. take
  /\ accepted \in 0 .. Total /\ itemsWritten \in 0 .. accepted
  /\ stopping \in BOOLEAN /\ thrown \in BOOLEAN /\ reports \subseteq {"timeout", "failed"}
  /\ kpc \in {"none", "boot", "open", "head", "look", "idle", "copy", "release", "write", "finish",
              "meta", "close", "failing", "gone"}
  /\ seen \in States /\ avail \in 0 .. Capacity - 1 /\ taken \in 0 .. avail
  /\ Len(chunk) <= MaxChunk /\ (taken > 0 => Len(chunk) = taken)
  /\ finishRequested \in BOOLEAN
  /\ failure \in {"none", "unloaded", "open", "write", "close", "meta"}
  /\ registered \in BOOLEAN /\ posted \in 0 .. Total \cup {None}
  /\ Len(tasks) <= 2 /\ Range(tasks) \subseteq {"done", "error", "terminate"}
  /\ savedMeta \in 0 .. Total \cup {None}

Prefix(n) == [i \in 1 .. n |-> i - 1]

\* The items go to the destination once each and in order, wraps, chunk limits and
\* the early release of the ring notwithstanding; a write that fails is the last.
FileInOrder == file = Prefix(Len(file))

\* CLOSED means that every item work() accepted is in the file: the worker never
\* takes an empty ring for the end while the block can still publish.
ClosedIsComplete == state = "CLOSED" => Len(file) = accepted /\ accepted = itemsWritten

\* The metadata a reader finds beside a recording counts exactly its samples.
MetaMatchesData == savedMeta # None => savedData = Prefix(savedMeta)

\* The promise of a graceful stop, end to end: when stop() has reported nothing,
\* nothing was thrown and the page is through with its tasks, the reader has the
\* whole recording and its metadata.  In a buffered recording that rests on the
\* order of "done", CLOSED and the deferred terminate.
SilenceMeansSaved ==
  wpc = "stopped" /\ ~thrown /\ reports = {} /\ tasks = <<>>
    => savedData = Prefix(accepted) /\ savedMeta = itemsWritten

\* Asked to stop, the block comes to rest by its deadline, whatever the worker is
\* doing; only behind a worker whose script never loaded can work() wait for ever.
StopCompletes == (stopping /\ ~Patient) ~> (wpc = "stopped" \/ failure = "unloaded")

\* A writer past its opening answers FINISHING, though the two halves of the
\* handshake, the word and the posted metadata, can arrive in either order; it
\* needs no deadline for that.
OpenWriterAnswers ==
  (Patient /\ state = "FINISHING" /\ kpc \notin {"boot", "open", "failing", "gone"})
    ~> (state \in {"CLOSED", "ERROR"})

\* stop() waits for the worker to drain the ring and close the file: a writer
\* that does not fail gets there, also one still opening its file.
WriterAnswers == (wpc = "wait" /\ failure = "none") ~> (wpc = "stopped" \/ failure # "none")

\* Block and worker implement the ring, the block as its producer.
Ring == INSTANCE SpscRing WITH
          Stream <- [i \in 0 .. Total - 1 |-> i],
          NoItem <- None,
          budget <- take,
          hand <- IF taken = 0 THEN [i \in {} |-> i] ELSE [i \in 0 .. taken - 1 |-> chunk[i + 1]],
          sent <- accepted,
          received <- Len(drained),
          out <- [i \in 0 .. Len(drained) - 1 |-> drained[i + 1]]
RingSpec == Ring!Spec
=============================================================================
