# GNU Radio World: formal models

GNU Radio World runs GNU Radio, compiled to WebAssembly, in a browser page. This directory holds
TLA+ models of the parts of it where several threads, workers or servers change shared state, TLC
configurations that check the models on small instances, and TLAPS proofs for every size.

Contents: [the system](#the-system) (inventory), [the models](#the-models), [the runs](#the-runs),
[fairness](#fairness), [the proofs](#the-proofs), [what the models found](#what-the-models-found),
[what is left out](#what-is-left-out), [the plan](#the-plan). `PROJECT.json` maps every definition
to the lines it translates and lists the hazards, each at its line.

To run: `tlc -config SpscRing.cfg MCSpscRing` for one run, `tlapm SpscRing_proofs.tla` for one proof
module. All paths below are relative to `src/`.

## The system

| Component | State it keeps | Operations | What is hard |
|---|---|---|---|
| **Shared ring** of the browser-backed blocks (`blocks/src/browser_*.cpp`, `rtlsdr_source.cpp`, ..., with one worker each in `runner/src/*.js`) | an array of slots in shared memory, `READ_POS`, `WRITE_POS`, one producer, one consumer | count, copy, store the own position | each side works with a count that is stale when it is used |
| **File Source** (`blocks/src/browser_file_source.cpp`, `runner/src/browser_file_reader.js`) | the ring, `STATE`; in the block the place in the pass, the tag cursor; in the worker the request, the carry of a split item, retry counts | `start`, `work`, `stop`, `progress`; `run`, `streamHttp`, `publish` | pieces end inside items, connections fail and resume, the file may shrink, the end of file races the last publish |
| **SigMF Sink** (`blocks/src/browser_file_sink.cpp`, `runner/src/browser_file_writer.js`, the page in `runner/src/runner.html`) | the ring, `STATE`, the sample count; in the worker the open file and the finish message; on the page the registered workers and its task queue | `start`, `work`, `stop`; open, drain, finish, `fail`; launch, finish, deferred terminate | a handshake of two halves that arrive in either order, a 15 s deadline, a terminate that races a message with the recording in it |
| **Prepaid credits** (`workers/saas/src/ledger.ts`, `chat.ts`, `jobs.ts`, `webhooks.ts`) | rows of one D1 database: wallet, credit lots, holds, ledger, absorbed costs, processed webhooks | reserve, settle, release, absorb; reap, expire; grant, reverse | Workers that die, batches whose answer is lost, webhooks repeated and reordered, rows read before the batch that uses them |
| **Audio source and sink** (`blocks/src/browser_audio.*`, `runner/src/audio_worklet.js`, the page) | a ring of frames, `STATE`, `LOST_FRAMES`; on the page the device being opened | `start`, `work`, `stop`; open, suspend, stop; `process` on the audio thread | the audio thread may not wait; its first quantum stores `RUNNING` over a word it read earlier; the counters are read and written, not added; the device may never open |
| **Schedulers** (`runner/src/schedulers.hpp`) | the block list, rounds, which blocks are done; each block's messages | `pump_messages`, `round_robin_body`, `stop` | exact item counts per round (`docs/schedulers.md`), partial work, the end of a source, messages behind it |
| **HackRF source and sink** (`blocks/src/hackrf_*.cpp`, `runner/src/hackrf_worker.js`, the page) | a ring, `STATE`, a mailbox of parameter words with a counter; in the worker the command applied last, the transfers under way; the radio itself | `stage`, `start`, `work`, `stop`; configure, receive, transmit, emergency stop, close | commands are read while they are written; a stop comes at any await; a transmitter must never stay on |
| **Python blocks** (`blocks/src/python_block.hpp`, `runner/src/pyodide/gr_pyodide_worker.js`) | words of a request and its answer, a mask of changed parameters; one worker for all blocks | `start`, `work`, `forecast`, `stop`, `set_callback_value`; `pump`, `serve` | answers after the time-out, parameters changed while they are read, Python that never returns |
| **Runner lifecycle** (`runner/src/runner.cpp`, `runner.html`) | the top block, run generation, hardware-start counter, pending graph of a load | load chain, prepare, start, verdict, shutdown | asynchronous steps that keep their subject in globals; callbacks of an earlier run |
| **Editor run session** (`editor/src/run-session.ts`) | the run frame, its readiness, a pending stop | prepare, run, stop (20 s timeout) | a timeout against `gr-shutdown-done`; a run started while the last one is ending |
| **Hosted assistant's limiter** (`workers/ai-proxy/src/limiter.js`) | used and reserved tokens per window, for a visitor and for everybody | reserve, settle, roll | a settlement after its window has rolled, or never |
| **grwire** (`grwire/src`) | one session per radio, a bounded sample queue | take-over, push (drops the oldest), pop, close | take-over while streaming, drop accounting |
| **Recording upload and index Workers** (`workers/sigmf-*`) | objects in a bucket | single HTTP requests | partly written multi-part uploads |
| **Editor** (graph, canvas, dialogs, storage, assistant) | the graph, its history, tabs, autosave | one user's edits on one event loop | layout and wording, which the repository's own tests cover |
| **Blocks, plots, GRC lowering, registry, overlays of GNU Radio** | DSP state | sequential | numerical, third-party or generated |

How they interact. The editor runs a flowgraph in an iframe, the *runner page*. The page's WASM
module has a pthread per block (GNU Radio's scheduler), or one thread for all (round robin). A block
that needs the browser asks the page, synchronously, to launch a Web Worker and shares a ring and a
control block of atomic words with it; block and worker then talk only through these words, worker
and page by messages. Waiting is `memory.atomic.wait`/`Atomics.wait` or a timer, always with a
timeout (100 ms in the blocks, up to 1 s in the workers), so the models treat it as polling. The
editor stops a run with a message and a deadline. The credits Worker is another program altogether:
Workers in any number, at once, around one database.

What makes each part correct:

- ring: nothing lost, repeated, reordered or torn; both sides make progress;
- File Source: the output is the selected items, pass after pass, with each tag on its sample; a
  stop, an error and the end of the file all reach the block;
- SigMF Sink: what `stop()` does not complain about is on disk, complete and described correctly;
- credits: wallet, lots, holds and ledger agree; a request is paid once, by one of two; a hold ends;
  nobody loses credits they hold or is refunded credits they used;
- audio: every frame in its place or counted as lost; no flowgraph held up by a device; a processor
  that ends when its block has;
- schedulers: the promised counts, no message unheard, no sleep with work to do, an end;
- HackRF: what is acknowledged is in effect, the last change arrives, samples lost are samples
  counted, and a transmitter is off when its worker is gone;
- Python: each call runs once, in order, with its own answer; no parameter change is lost; no thread
  waits for ever;
- runner and editor: one run at a time, callbacks of old runs without effect, a stop that waits for
  open recordings; limiter: reservations never exceed the budget of a window;
- grwire: one owner of a radio, every dropped sample counted.

## The models

| Module | Models | Extends / instantiates |
|---|---|---|
| `Fifo` | what any ring promises: batches put and got in order, at most `Bound` on their way | |
| `SpscRing` | the ring protocol: look, copy, store on each side | refines `Fifo` |
| `BrowserFileSource` | block, reader worker and shutdown of the File Source | refines `SpscRing` (block is the consumer) |
| `BrowserFileSink` | block, writer worker and page of the SigMF Sink | refines `SpscRing` (block is the producer) |
| `CreditLedger` | one user's wallet and everything that changes it | |
| `RadioLink` | HackRF block, worker, radio, page, and the threads that change parameters | |
| `RoundRobin` | the two single-threaded schedulers on a chain of blocks | |
| `PythonBlock` | any number of Python blocks and the worker they share | |
| `AudioLink` | Audio Sink or Source, page, audio thread | |
| `*_proofs` (one per model but `Fifo`) | theorems and proofs | extend their modules and `TLAPS`; those of the two file modules instantiate `SpscRing_proofs` |
| `MC*` | constants for TLC | extend their modules |

Definitions ending in `_Something` (`Free_NoGap`, `Deliver_Partial`, ...) are *faulty variants* of the
definition before the underscore: a slip this code could have. None is part of a specification;
putting one in the place of its original breaks the property `PROJECT.json` pairs it with, which
shows that the property depends on that code.

**SpscRing.** `ProducerLook` is the loads of both positions and the count of free slots;
`ProducerFill` copies some of them, `ProducerPublish` stores `WRITE_POS`. `ConsumerLook`,
`ConsumerCopy` and `ConsumerRelease` are the same on the other side. Between any two of them the
other side may run, so `budget` and `avail` are counts of the past, which is the point. Copies of
one side that are not published yet are `filled` and `hand`. A side loads the position it owns and
the other's in two instructions; only the other's can change under it, so one step is exact.

**BrowserFileSource.** A step ends at each atomic access of a word the other side writes and at each
`await`. `work()` is `Work`, `WorkLoad`, `WorkState`, `WorkCopy`, `WorkRelease`; the worker's
`run()` is `Boot` to `NextRequest`, with `streamHttp()` as `Fetch`, `Piece`, `BodyComplete`,
`AttemptFails`, `NextAttempt`, `Retry`. Items are sequences of byte offsets, since the carry logic
is about bytes; pieces have every length, down to one byte. An HTTP attempt can be refused for good,
fail before or after bytes, or be complete. `WorkState` keeps the block waiting only on `RUNNING`
and `INITIAL`. `stop()` runs on the block's own thread between two calls of `work()` (the scheduler
interrupts the thread, and the block executor's destructor calls it after an exception too), so
`work()` never sees the `CANCELLED` that `stop()` stores; the worker does. `MaxPasses` bounds how
much the scheduler asks a repeating source for.

**BrowserFileSink.** `work()` is `Work`, `WorkState`, `WorkLoad`, `WorkCopy`, `WorkPublish`;
`stop()` is `StopPayload` (the metadata posted through the page), `StopStore` (`FINISHING`),
`StopWait`, `StopVerdict` and `StopTerminate`. The writer is `Boot` to `Close`, in the two modes of
`openDestination()`: a folder (`"fsaccess"`), where each file operation may fail, and a buffer
(`"download"`) with a limit. `Finish` is the worker's `onmessage`, which runs only while the worker
awaits a file operation or a timer, not in the microtask of a buffered write. The page handles its
`tasks` in the order they were queued, its messages and timers being those of one event loop;
`"terminate"` is the timer of `__grStopBrowserFileSink`. `cancel()` is left out: it runs from the
destructor, after `stop()` has zeroed the writer's id, and returns at once. With `Patient = TRUE`
the 15 second deadline never passes, so that a property cannot hold merely because of it.

In both file modules an error the worker stores is thrown by `work()` at its next look at `STATE`,
whatever it produced or consumed before in the same call; that call's items are not reported to the
scheduler, which does not matter any more. A worker whose script does not load (`NeverLoads`; `Boot`
of the sink) never touches `STATE`. A source then waits for ever, as
`runner/src/schedulers.hpp:411-414` says of such waits; the liveness properties name that case.

**CreditLedger.** One user, since no statement touches the rows of two. A D1 batch is a transaction,
so each of `Reserve`, `Settle`, `Release`, `AbsorbAndRelease`, `ReapHold`, `ExpireLot`, `GrantOrder`
and `ReverseRefund` is one step that happens whole or not at all (a `CHECK` or `UNIQUE` in the
schema, or the database itself, can fail it), and a `SELECT` whose rows are used later is a step of
its own: `ReaperSelects`, `ExpirySelects`, `ReadLot`, `ReadWallet`. The answer to a batch may be
lost after it committed (`Chat` may end there, `Complete` may go to the fallback), and a Worker may
die between two steps. The lots are numbered by expiry, which is the order `consumeLots()` empties
them in; they may be granted in either order. `LotFallsDue` and `HoldExpires` are time. A webhook
call (`Delivery`) is one of several under way; the provider may deliver any event again, in any
order. A reservation that is refused changes nothing and is no step. Charges are at least one
micro-dollar, which `ResolvedOnce` rests on: a rate's minimum charge is above zero, and the schema's
`CHECK(amount_micros != 0)` would refuse a usage row of nothing. They may exceed the estimate by
`Overrun`: estimates count bytes, and images are charged by the provider's own count.

The wallet itself is a row that may be missing (`opened`): the hook after sign-up that makes it
(`OpenWallet`) asks the payment provider first and may fail, and the first order that is paid makes
it too (`GrantOrder`, by `INSERT OR IGNORE`). Until then an `UPDATE` of it changes nothing and is no
error, so a reservation is refused and a dispute freezes nothing; `unmet` remembers the refunds that
were processed in that time.

**RadioLink.** A setting is the number of the command that wrote it, and a frequency is two settings,
its halves, as in the mailbox. `SetFrequencyHi`, `SetFrequencyLo`, `SetFlag` and `Publish` are the
stores of `stage()`; `ReadSeq`, `ReadSlot` and `Recheck` the loads of `readCommand()`, with its
retries. Everything else in the worker is a step from one `await` to the next. `safe` to `power` are
the requests of the first configuration (later ones skip what has not changed); between them, and at
every transfer, the stop message may be served (`StopMessage`, `EmergencyFlags`), except where the
worker does not await. The ring is a queue: that slots, positions and stale counts make one is what
`SpscRing` shows. The page terminates a worker a second after the message, which is long for a
control request and nothing for a transfer that will not end: `Terminate` is therefore possible only
when the message has been served and a transfer is awaited. The gains, the sample rate and the
bandwidth travel like the flags and are not separate slots.

**RoundRobin.** `BeginRound`, `Skip`, `TakeTurn`, `EndRound` and `Wake` are the loop of
`round_robin_body`, `Stop` another thread's. The graph is a chain of one-to-one stream blocks and
blocks with only message ports before, after or in addition. What GNU Radio's executor finds at a
block (`Gone`, `Dry`, `Exhausted`, `CallSize`, `Returned`) is external: in a deterministic run
`work()` moves all it can, in an ordinary one at least an item, and a source may have none for now.
`Post` lets any call of `work()` post any number of messages.

**PythonBlock.** The thread of a block goes through `request()` store by store (`Post`, `StoreOp`,
`Bump`), waits, and takes the answer (`Answered`, `Take`) or gives up (`GiveUp`). The worker is one
event loop: once `Notice` has seen a counter move, `LoadOp`, `Drain`, `Apply`, `Serve` and `Answer`
run to the end before another pump does. `Answer` may never come. A setter is user code like the
rest and may raise (`Raises`): the worker has cleared the mask by then, drops the values behind it,
does not run the call and answers `FAILED`. `ran` then has a `NotRun` in the place of the call, so
that a call which was kept from Python can be told from one that is still to come. The order in
which the setters are called is left open. `args` and `result` stand for all
words of a request and of its answer; an answer carries the number of its request, so that a wrong
one can be told.

**AudioLink.** `work()` is `WorkState` to `WorkStore`; the sink's clock when there is no device is
`WorkPace` with any number of frames due. The processor runs from `Render` to `PlayStore` or
`RecordStore` and never waits. `Open` may never happen, `Suspend` may happen at any time.
`CANCELLED` is never seen by `work()`, for the reason given for the File Source. The device runs at
the rate of the flowgraph, so the code that interpolates is not in the model.

## The runs

Each run finishes within three minutes on two cores. Runs with `CHECK_DEADLOCK FALSE` are of systems
that stop: bounded requests and orders for the credits, bounded samples, calls and frames, a
scheduler that has ended; in `file_sink_opening`, a wait that has no deadline.

| Run | Question | Result |
|---|---|---|
| `spsc_ring` | Two sides with stale counts pass 9 items through 4 usable slots. Is anything lost, repeated, reordered, torn? Does all arrive? | `ItemsInOrder`, `NoSharedSlot`, `FifoSpec`, `EverythingArrives` hold |
| `file_source` | A recording read once over HTTP, with split items and failing connections, or a local file played again and again that may shrink; a stop at any time | `OutputIsSelection`, `TagsOnTheirSamples`, `OnlyDeadLinksGiveUp`, `EofMeansPublished`, `StopCompletes`, `PassEnds`, `RingSpec` hold |
| `file_source_eof` | Does a file read to its end come out to its end? | **no** (`ReadToItsEnd`) |
| `file_sink` | A recording to a folder, each file operation able to fail, with the deadline at any moment; and one to a buffer that can reach its limit, with no deadline to help | `FileInOrder`, `ClosedIsComplete`, `MetaMatchesData`, `SilenceMeansSaved`, `StopCompletes`, `OpenWriterAnswers`, `RingSpec` hold |
| `file_sink_opening` | Does a writer that does not fail always answer a stop? | **no** (`WriterAnswers`) |
| `credit_ledger` | Two requests, two packs, a disputed refund, the reaper, the expiry job, in every order | `HeldIsActive`, `LotsCoverBalance`, `ResolvedOnce`, `NoFreeInference` hold |
| `credit_webhooks` | Two webhook calls at once, repeated or reordered, before or after there is a wallet; holds of dead Workers | `BalanceIsLedger`, `DisputeFreezes`, `EveryHoldEnds` hold |
| `credit_refund` | Are consumed credits never refunded? | **no** (`NoConsumedRefund`) |
| `radio_link` | Both directions, commands staged under the reader's eyes, failing requests, a ring that fills or runs dry, a stop at any step. Are samples accounted for, commands in effect in the radio, and is the transmitter off in the end? | `StreamAccounted`, `AckedIsApplied`, `TransmitterOff`, `LastCommandApplied` hold |
| `round_robin` | Both schedulers, partial work, message blocks, the end of a source, an exception or a stop at any turn | `ExactCount`, `MessagesHeard`, `SleepsOnlyWhenIdle`, `RunEnds` hold |
| `python_block` | Two blocks on a worker that may be late, raise (in a call or in a setter) or never answer; time-outs; parameters changed meanwhile | `RanInOrder`, `WorkAnswers`, `NoUpdateLost`, `ThreadsEnd` hold |
| `audio_link` | Sink and source, waiting or not, a device that opens late or never, a context suspended and resumed | `FramesAccounted`, `NeverWedged`, `ProcessorEnds` hold |

Each module also states its `TypeOK`. It documents the state; four of them are theorems
([the proofs](#the-proofs)).

Bounds, and why they are enough:

- *Ring*: 5 slots, 9 items. Positions go round twice, batches of 1 to 4 meet the wrap in every
  alignment, and the ring is both full and empty. The theorems lift this to every size.
- *File Source*: a ring of 4 slots (3 usable) for a selection of 4, requests of up
  to 3 items, calls of up to 3 items: every request can be cut by the ring and every copy by a wrap,
  a pass end and a call. Items of two bytes are the smallest that a piece can split. `MaxRetries` is
  2 (8 in the code): one attempt that is followed by another and one that is not. Three passes have
  a first, a middle and a last. Two tags on the last sample, one on the first and one next to it.
- *SigMF Sink*: 4 slots, 6 offered items, chunks of 2: the ring wraps and refills while chunks are
  written; the buffer's limit of 4 is reached before, at and after the stop. The three-item calls
  are split by a full ring.
- *Credits*: two requests (1 and 2 credits), two packs of 2, one refund of the first pack, so
  requests compete for the balance, a charge empties a lot and reaches into the next, and a refund
  meets a partly used lot. `Overrun = 1` makes the wallet's `CHECK` fail. Two concurrent webhook
  calls are needed for the same event to be in progress twice; they come with one request in
  `credit_webhooks`, since both together exceed what can be searched in a few minutes.
- *HackRF*: two transfers under way of two pairs each, in the smallest ring the worker accepts plus a
  pair, six samples: a transmitter fills the ring, sends a transfer and can run dry; a receiver gets
  full, short and empty transfers and overruns. Three commands: one applied, one half read, one half
  written. Two attempts: a torn read that is repeated and one that is given up. A reader gives up on
  a command after the first only with four of them, which `radio_link` cannot search together with
  its stream; with `Depth`, `Pairs` and `MaxSamples` 1, `Capacity` 2 and `MaxCommands` 4 in the same
  configuration, `LastCommandApplied` holds as well.
- *Schedulers*: a source, a middle and a sink, a message block before the chain and one after it, and
  a sink that is also a listener. Chunks of 2 in buffers of 3 and a source of 5 items, so chunks are
  cut by room, by supply and by the end. Three rounds are a first, a middle and a last.
- *Python*: one block that works, with two parameters and a `forecast()`, and one that starts and
  stops next to it and so takes the worker away from the first; two changes, so that one can come
  before, between and after every access of the other, and of two values the first can keep the
  second from its setter.
- *Audio*: 4 slots (3 usable) and quanta of 2, so that quanta meet the wrap, a ring with less than a
  quantum and one with less room; 8 frames; two idle waits (10 in the code), one that is followed by
  another and one that is not.

## Fairness

- *Ring*: weak fairness of each side's looks that find something, copies and stores. Both are
  threads that poll.
- *File Source*: weak fairness of the block's thread (the scheduler calls `work()` again as long as
  the source is not done) and of the worker (a `fetch` without data is aborted after
  `STALL_TIMEOUT_MS`, so no read waits for ever). Nothing makes anyone stop the flowgraph.
- *SigMF Sink*: weak fairness of block, writer and page; a file operation ends, in success or in
  error. Strong fairness of `Finish`: the worker leaves and enters its awaits, and a queued message
  is delivered at one of them. Nobody has to call `work()` or to stop.
- *Credits*: time passes and the minute cron runs (weak fairness of `HoldExpires`, `ReaperSelects`);
  the reaper's batch does not fail for ever (strong fairness of `ReapHold`, because a failure takes
  the row off the list until the next minute). Nothing is asked of the chat Workers.
- *HackRF*: weak fairness of a half-staged command, of the worker's own steps, of the block's thread;
  a transfer ends while the radio is on, and need not when it is off. Strong fairness of the stop
  message and of the emergency stop's second half, which are served at one of the worker's awaits.
- *Schedulers*: weak fairness of the loop; a source that has items now and then (strong fairness of a
  turn in which it makes some). Nobody has to stop the run.
- *Python*: weak fairness of each block's thread, whose waits are of 100 ms each. None of the worker.
- *Audio*: weak fairness of the block's thread, of the audio thread while the context runs, and of
  the stop message. Nobody has to open a device or resume a context.

## The proofs

All theorems hold for every value of the constants that satisfies the named assumptions of the
modules; the leaves are checked by Z3, Zenon and LS4.

`SpscRing_proofs` (from `CapacityAssumption`: at least two slots; `TotalAssumption`):

- `RingInvariant`: `Spec => []RingInv`. `ItemsInOrder` alone is not inductive: the next item out
  depends on the slots, these on when they were written, and that on stale counts. `RingInv` adds
  - `CountsAreSafe`: the distance of the positions is `sent - received`, and `budget` and `avail`,
    though old, never promise more than there is, since the other side's moves only add to them;
  - `PublishedIntact`, `FilledIntact`, `HandIntact`: each copy of an item (in the ring and
    published, in the ring and not yet, in the consumer's hands) is the one its place stands for.

  There is one lemma per action. Positions are compared by `Distance`, so that only two small lemmas
  need to know what `%` does.
- `TypeCorrect`, `InOrder`, `NoTornItem`: `TypeOK`, `ItemsInOrder` and `NoSharedSlot` follow.
- `ImplementsFifo`: `Spec => FifoSpec`. `ProducerPublish` is a `Put`, `ConsumerRelease` a `Get` (its
  `hand` is the next items of the stream by `HandIntact`), everything else a stutter.

`BrowserFileSource_proofs` (from `SourceAssumption`, which says among others that the tag plan is an
ordered sequence of offsets):

- `ImplementsRing`: `Spec => RingSpec`. The reader is the producer: a request is its look, the pieces
  that complete items are its copies, `Publish` its store; `WorkLoad`, `WorkCopy` and `WorkRelease`
  are the consumer. The mapping needs `Accounts`, proved first (`AccountsHold`):
  - `Requests`, `Pieced`: the bytes received of a request are its first ones, those of whole items
    and, in the carry, the beginning of the next; so each piece, wherever it was cut, completes the
    items that the ring's stream has next, also after a retry in the middle of an item;
  - `Calls`, `Counts`: what was released, is in the ring or is in hand adds up to what was published,
    over all passes, and `want` and `avail` never count on more than there is.
- `SelectionComesOut`: `Spec => []OutputIsSelection`. `RingProofs == INSTANCE SpscRing_proofs` with the
  same substitution as `RingSpec` carries the ring's invariant over (`RingHolds`): what is
  released is what the ring's stream has at that place, which is the selection, pass after pass.
- `TagsInPlace`: `Spec => []TagsOnTheirSamples`, from `TagsPut` and `BeginsPut`: the tags before the
  cursor are those before the place in the pass, and each was put once per pass.
- `DeadLinksOnly` (`OnlyDeadLinksGiveUp`), `EofIsComplete` (`EofMeansPublished`): from the same accounts.

`BrowserFileSink_proofs` (from `SinkAssumption`):

- `ImplementsRing`: `Spec => RingSpec`; the block is the producer, the writer the consumer, from
  `Sides` alone (`SidesHold`), which says in which place which count is in use.
- `InOrder` (`FileInOrder`), `ClosedMeansComplete` (`ClosedIsComplete`), `MetadataMatches`
  (`MetaMatchesData`), `SilentStopSaved` (`SilenceMeansSaved`), from the ring's invariant and
  - `Books`: what the block accepted is what it reports, up to the call it is in; only `stop()` stores
    `FINISHING` and an error ends the worker before `work()` can throw it;
  - `Files`: what is released is in the file, but for the chunk being written;
  - `Savings`: a worker that is ending, one that has closed, and a page that has a `"done"` to serve
    have the whole file, which the reader has or is about to get;
  - `Silence`: a wait that reported nothing saw `CLOSED` or `ERROR`.

  `SilenceMeansSaved` by itself says nothing of the states on the way, which is where the order of
  `"done"`, `CLOSED` and the deferred `terminate` matters.

`CreditLedger_proofs` (from `EstimateAssumption`, and for the sums `RowsAssumption`: finitely many
requests and refunds, as there are in a database; `OrdersAssumption`, `CreditsAssumption`,
`RefundAssumption`): `HoldInv` is inductive and gives

- `OneResolution`: `Spec => []ResolvedOnce`, for any number of requests, with their own Worker, its
  fallback and the reaper all trying. It needs that a request without a hold has not begun
  (`BegunWithHold`), or a second reservation could bring a resolved hold back, and that a charge is
  never zero (`ChargeIsMoney`), or a usage row could not be told from none.
- `NothingFree`: `Spec => []NoFreeInference`. Not inductive by itself: a request released with
  nothing generated could generate afterwards. `FreedUnused` adds that such a request's Worker is at
  its end.
- `DisputesFreeze`: `Spec => []DisputeFreezes`: a dispute that found a wallet has frozen it, and no
  later step unfreezes it. What becomes of one that found none is told
  [below](#what-the-models-found), and the theorem excludes it by name (`unmet`).

`LedgerInv` is inductive and gives

- `HoldsAddUp` (`HeldIsActive`), `LotsCover` (`LotsCoverBalance`), `BalanceAddsUp` (`BalanceIsLedger`),
  `TypeCorrect` (`TypeOK`), for any finite number of orders, requests, refunds and webhook calls. To
  the sums it adds `Unwritten`: a row whose event has not been processed adds nothing. Without it the
  grant of an order could write over a row that is in the sum already.
- The sums are folds of the community modules, which choose an element by themselves. `SumIs` is the
  equation of the fold; that the choice does not matter is proved by induction over the subsets of a
  finite set (`SubsetInduction`, from the well-founded order of their cardinalities), stated with
  a set of subsets where the library has a predicate. From it follow the laws the actions
  need: a sum over one more row, without one, with one row changed (`SumWith`, `SumWithout`,
  `SumChanged`). What settling takes out of the lots, the oldest first, is
  `LotsConsumed`: as much as the charge, or all there is.

`RadioLink_proofs` (from `SizeAssumption`), about the worker, the block and the page together:

- `LeftOff`: `Spec => []TransmitterOff`. "Off when over" is not inductive: the invariant says where
  the radio is off before the worker is over. Before `on` nothing has switched it on; from `on` to
  `refill` it may be on; an emergency stop that has been served at an await leaves it off, because
  the message is posted after `CANCELLED` is stored, and a worker that finds `CANCELLED` does not
  pass `waitForTxPrefill()`. Closing switches it off in any case.
- `Acknowledged`: `Spec => []AckedIsApplied`. Each slot holds a command no older than the last one
  published for it, so a slot loaded after the counter is no older than the counter; the invariant
  carries that through the four loads, the retries and the requests. That the counter has not moved
  at the end (`Recheck`) is not needed for this: it only spares the radio a mixture. That the
  settings are also in the radio is `Effect`: after the first configuration, which sends everything,
  only what differs from the command before is sent, so the invariant says what the radio has between
  the two transfers of a command: the new frequency, and still the flags taken before.
- `SamplesAccounted`: `Spec => []StreamAccounted`. `takeTx()` does not look at `WRITE_POS`, so this
  rests on where it is called: after the prefill the ring holds what the first transfers take, and
  the worker counts before each later one.

`RoundRobin_proofs` (from `GraphAssumption`):

- `ExactlyTheBudget`: `Spec => []ExactCount`, for every chain, chunk, buffer, and budget. Inside a
  round the blocks before the turn are one chunk ahead of the rest (`InStep`), so that every block
  finds a chunk in front of it and room for one behind it, and nobody ends.
- `SleepsIdle`: `Spec => []SleepsOnlyWhenIdle`. `NothingMissed` is what makes it inductive: as long as
  a round has made no progress, the blocks that have had their turn can do nothing; a step of a later
  block that would enable one of them is progress.
- `HeardBeforeLeaving`: `Spec => []MessagesHeard`, from the order in which a block is told, handles
  what it was told, and leaves (`EndsHeard`).
- `CountsHold`: `live` counts the blocks that are not done, buffers are never over- or underrun.
  `TypeCorrect`: `TypeOK`.

`PythonBlock_proofs` (from `PythonAssumption`), for any number of blocks, parameters, calls and changes:

- `NoChangeLost`: `Spec => []NoUpdateLost`, with one lemma per step that touches the mask, the values
  or the worker's draining. A setter that raised excuses its block for good, and only its block.
- `RunsInOrder`: `Spec => []RanInOrder`. `Handshake` ties the place of a block's thread to the words
  and to the worker: a request that is out has either not been seen, or is on its way to Python with
  its own operation and arguments, or has been run, or refused by a setter, and not answered
  (`Asked`), or its answer is there (`Replied`). A call that a setter kept from Python is answered
  `FAILED` (`Noted`), which throws, and a block that has thrown posts nothing but `stop()`. It is only
  claimed of blocks none of whose calls has timed out.
- `AnswersMatch`: `Spec => []WorkAnswers`, for all blocks; a block that has given up calls nothing but
  `stop()` (`OnlyStops`). `TypeCorrect`: `TypeOK`.

`AudioLink_proofs` (from `AudioAssumption`), for sink and source at once:

- `AllFramesAccounted`: `Spec => []FramesAccounted`. The inductive invariant adds to the order of what
  came out: the slots from `READ_POS` on hold what was put in and not taken out (`Backed`), frames go
  in as they come (`Rising`), and each side's old counts and copies still fit, since the other side's
  moves only add to them; where the loss is in a local, between its load and its store, the difference
  is stated with the local (`Sides`). `RingIntact` is that invariant.

So every safety invariant that a passing run checks, and each of the three refinements (`FifoSpec`,
and `RingSpec` twice), is a theorem. Only model-checked: all properties that need fairness
(`EverythingArrives`, `StopCompletes`, `PassEnds`, `OpenWriterAnswers`, `EveryHoldEnds`,
`LastCommandApplied`, `RunEnds`, `ThreadsEnd`, `NeverWedged`, `ProcessorEnds`), for which the
prover has no rules here (`ENABLED`). `TypeOK` as it stands, with all its bounds, is proved of
`SpscRing`, `CreditLedger`, `RoundRobin` and `PythonBlock`; the other proofs have a `Types` with what
they need.

## What the models found

1. *The tail of a file can be lost* (`file_source_eof`, `blocks/src/browser_file_source.cpp:232`).
   `work()` loads the positions, finds nothing, and only then loads `STATE`. If the reader publishes
   the last items and stores `EOF_REACHED` in between, `work()` returns `WORK_DONE` with these items
   unread. A look at the positions after `EOF_REACHED` has been seen would close the gap.
2. *A stop during the opening of the destination is not answered* (`file_sink_opening`,
   `runner/src/browser_file_writer.js:149`). The writer stores `RUNNING` over `FINISHING`, polls for
   ever, and `stop()` runs into its deadline; the file is neither closed nor handed over.
3. *A refund can return consumed credits* (`credit_refund`, `workers/saas/src/webhooks.ts:90`). The
   reversal is computed from rows read before the batch; the wallet is debited by it in any case,
   the lot only if it still has that much.

Behaviour that the models have, and that a reader of the code may not expect; no run asserts it:

- `stop()` of the SigMF Sink stores `FINISHING` over an `ERROR` (`browser_file_sink.cpp:119`), waits
  15 seconds for a worker that is gone and reports a timeout in place of its message.
- Credits can expire under a request that reserved between the selection and the batch
  (`jobs.ts:78`), against the comment on line 67.
- The HackRF worker can accept a frequency whose halves come from two commands, while the second is
  half staged and the counter has not moved. The same protocol is said to exclude it in
  `blocks/src/rtlsdr_source.cpp:140-142`. The next look at the counter repairs it, unless the mixture
  is outside the radio's range: then the worker ends with an error (`Accept`).
- Its worker, too, stores `RUNNING` over `CANCELLED` (`hackrf_worker.js:519`, `:601`), though
  `runner.html:674` calls that word the authoritative signal. The message and the `terminate()`
  behind it are what ends the worker then, and `TransmitterOff` holds because of them.
- The audio processor does the same in its first quantum (`audio_worklet.js:83`), and `CANCELLED` is
  said to be what ends it (`runner.html:1007`); without the message it would run on.
- A Python `work()` that timed out and answers late can answer the `stop()` that follows, whose
  `request_exit()` then overwrites the operation before the worker has read it: Python's own `stop()`
  does not run, though `gr_pyodide_worker.js:238-241` says that no request can be missed.
- A setter of a Python block that raises takes other parameters with it
  (`runner/src/pyodide/gr_pyodide_worker.js:292-300`): the mask is exchanged for zero before the
  setters are called, and the values behind the one that raised are dropped. The call is not run and
  its request fails, so the block is at its end, but its Python `stop()` still runs, with the old
  values. `docs/embedded-python.md:116` says that no update is lost. `NoUpdateLost` and `RanInOrder`
  name the case (`Raised`, `NotRun`).
- A dispute that is processed before its `order.paid`, for a user without a wallet row, freezes
  nothing and is marked processed (`webhooks.ts:95`); the grant then opens a wallet that is not frozen
  and has the credits (`webhooks.ts:32-36`). `workers/saas/README.md:42` lists "dispute freezes"
  without a condition. `DisputeFreezes` names the case (`unmet`).
- A client abort whose settlement fails is left to the reaper, which books it as absorbed
  (`chat.ts:165`), against the comment on line 163.
- A source that may block holds its thread for a microphone that never opens. `NeverWedged` is about
  sinks and about sources that may not.

The traces come from `tlc` with the configurations of these names.

## What is left out

In the modelled components: ring geometry checks at the start of the workers, statistics messages,
the text of tags and annotations, the low-balance notice and its e-mail, the daily reconciliation
(it only reads), rates and token estimates, requests that are refused, identities at the payment
provider; for the HackRF its fake device, the carried odd byte and the arithmetic of requests; for
audio the resampling, the `EVENTS` counter, media tracks, the sharing of contexts, and the processor
that is made for a sink stopped during its opening and disconnected at once
(`runner.html:943-953`; it would find `CANCELLED` at its first quantum); for Python the
preparation and detaching of the worker, and requests made on the main thread, which do not wait.
No line of the repository says what a `refund.created` that precedes its `order.paid` should give
back, so the model has that behaviour (it reverses nothing and the later grant is in full) and no
property about it, but for the freeze of a dispute. `SleepsOnlyWhenIdle` is about the
stream blocks behind the source; that no message stays unheard is `MessagesHeard`.

Most of the repository's lines are generated registries, DSP overlays, drawing and user interface,
which are sequential or have no state of their own to check. Components that are not modelled are
listed in `PROJECT.json` with the reason.

## The plan

In this order; each step with its configuration, invariants and, where given, theorems.

1. `RunnerLifecycle`: the load chain with its globals, generations, `gr_hardware_init_*`, the
   start-up verdict, shutdown.
2. `RunSession`: the editor's run, stop and timeout composed with `RunnerLifecycle` and an abstract
   SigMF Sink, whose promise is `SilenceMeansSaved`.
3. `TokenLimiter`: windows, reserve, settle. Theorem: reservations and use never exceed the limit of
   a window, whatever arrives late.
4. `CreditLedger`: the low-balance notice (`jobs.ts:102-133`), whose threshold is stored after the
   e-mail went out and may overwrite a purchase's reset.
5. `GrwireQueue` and `GrwireSession`: drop-oldest accounting, take-over.
6. `RadioLink` with the mailboxes of the other radios.
7. Theorems: `TypeOK` of the two file modules, `RadioLink` and `AudioLink`;
   and the safety of the modules above as they come.
