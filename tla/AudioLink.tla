------------------------------ MODULE AudioLink ------------------------------
(***************************************************************************)
(* Audio Sink and Audio Source: the blocks of blocks/src/browser_audio.cpp *)
(* on their scheduler threads, the page code of runner/src/runner.html     *)
(* that opens and closes the device, and the processor of                  *)
(* runner/src/audio_worklet.js on the audio thread, which renders one      *)
(* quantum at a time and never waits.  They share a ring and the words     *)
(* READ_POS, WRITE_POS, STATE and LOST_FRAMES.  (EVENTS only feeds a       *)
(* message on the console.)                                                *)
(*                                                                         *)
(* A step ends at each load or store of a word that another side writes.   *)
(* Frames are numbered 1, 2, 3... as they come from the flowgraph or the   *)
(* microphone.  The AudioContext runs at the flowgraph's rate, so a        *)
(* quantum of the device is a quantum of the ring.  The context may be     *)
(* suspended at any time, and the microphone may never be granted.         *)
(***************************************************************************)
EXTENDS Integers, Sequences, FiniteSetsExt

CONSTANTS
  Capacity,    \* slots in the ring
  Quantum,     \* frames the device renders at a time
  MaxItems,    \* bound: the largest noutput_items of a call of work()
  MaxFrames,   \* bound: frames that the flowgraph or the microphone has
  StallWaits,  \* STALL_WAITS
  Kinds,       \* the kinds of block considered
  NoFrame

ASSUME AudioAssumption ==
  /\ Capacity \in Nat /\ Quantum \in Nat \ {0} /\ Capacity > Quantum
  /\ MaxItems \in Nat \ {0} /\ MaxFrames \in Nat
  /\ StallWaits \in Nat \ {0}
  /\ Kinds \subseteq [sink : BOOLEAN, okToBlock : BOOLEAN]

VARIABLES
  kind,        \* Audio Sink or Source, and its OK to Block parameter
  readPos, writePos, state, ring, lost,
  \* the block's thread
  wpc,         \* where it is in work() or stop()
  wanted, done,  \* noutput_items, and the items consumed or produced so far
  seen,        \* STATE as loaded at the head of the loop
  room,        \* frames, or free slots, counted from the positions loaded
  seenRead,    \* READ_POS as loaded
  hand,        \* frames copied, the position not stored yet
  tally,       \* LOST_FRAMES as loaded by count_lost(), the sum not stored yet
  idleWaits,   \* d_idle_waits
  stopping, thrown,
  \* the page
  opening,     \* the device: "none", "pending", "open", "failed" or "closed"
  message,     \* the stop message to the processor: "none", "posted" or "here"
  suspended,   \* the AudioContext does not run
  \* the processor
  ppc,         \* where it is in process(); "none" before it is made, "gone" after
  announced, pavail, phand, ptally,
  \* histories
  entered,     \* frames that came from the flowgraph or the microphone
  kept, out    \* those put into the ring and those taken out of it, in order

positions == <<readPos, writePos, ring>>
shared == <<positions, lost, state>>
call == <<wanted, done, seen, room, seenRead, hand, tally, idleWaits>>
block == <<wpc, call, stopping, thrown>>
page == <<opening, message, suspended>>
processor == <<ppc, announced, pavail, phand, ptally>>
history == <<entered, kept, out>>
vars == <<kind, shared, block, page, processor, history>>

-----------------------------------------------------------------------------
Sink == kind.sink
OkToBlock == kind.okToBlock

Slot == 0 .. Capacity - 1
Advance(p, n) == (p + n) % Capacity
Used == IF writePos >= readPos THEN writePos - readPos ELSE Capacity - (readPos - writePos)

\* Faulty variant: the empty slot is forgotten.
Free_NoGap == Capacity - Used
Free == Capacity - Used - 1

\* Slot p after the frames fs were copied in at WRITE_POS, across the wrap.
Filled(fs) ==
  [p \in Slot |-> LET k == Advance(p - writePos, Capacity) + 1
                  IN IF k <= Len(fs) THEN fs[k] ELSE ring[p]]
Copied(n) == [k \in 1 .. n |-> ring[Advance(readPos, k - 1)]]
Coming(n) == [k \in 1 .. n |-> entered + k]

Init ==
  /\ kind \in Kinds
  /\ readPos = 0 /\ writePos = 0 /\ state = "INITIAL" /\ ring = [p \in Slot |-> NoFrame]
  /\ lost = 0
  /\ wpc = "new" /\ wanted = 0 /\ done = 0 /\ seen = "INITIAL" /\ room = 0 /\ seenRead = 0
  /\ hand = <<>> /\ tally = 0 /\ idleWaits = 0 /\ stopping = FALSE /\ thrown = FALSE
  /\ opening = "none" /\ message = "none" /\ suspended = TRUE
  /\ ppc = "none" /\ announced = FALSE /\ pavail = 0 /\ phand = <<>> /\ ptally = 0
  /\ entered = 0 /\ kept = <<>> /\ out = <<>>

(***************************************************************************)
(* The block's thread                                                      *)
(***************************************************************************)
\* start(): the page begins to open the device, or start() throws.
Start ==
  /\ wpc = "new"
  /\ \/ wpc' = "idle" /\ opening' = "pending" /\ UNCHANGED <<state, thrown>>
     \/ wpc' = "stopped" /\ state' = "ERROR" /\ thrown' = TRUE /\ UNCHANGED opening
  /\ UNCHANGED <<kind, positions, lost, call, stopping, message, suspended, processor,
                 history>>

StopFlowgraph ==
  /\ ~stopping /\ wpc # "new"
  /\ stopping' = TRUE
  /\ UNCHANGED <<kind, shared, wpc, call, thrown, page, processor, history>>

Work(n) ==
  /\ wpc = "idle" /\ ~stopping /\ ~thrown
  /\ Sink => entered + n <= MaxFrames
  /\ wpc' = "state" /\ wanted' = n /\ done' = 0
  /\ UNCHANGED <<kind, shared, seen, room, seenRead, hand, tally, idleWaits, stopping, thrown,
                 page, processor, history>>

\* STATE is loaded; an error is thrown.  (CANCELLED is never found here: stop()
\* runs on this thread too.)
WorkState ==
  /\ wpc = "state"
  /\ seen' = state
  /\ IF state = "ERROR" THEN wpc' = "idle" /\ thrown' = TRUE
                        ELSE wpc' = "load" /\ UNCHANGED thrown
  /\ UNCHANGED <<kind, shared, wanted, done, room, seenRead, hand, tally, idleWaits, stopping,
                 page, processor, history>>

MayWait == OkToBlock /\ seen = "RUNNING" /\ idleWaits < StallWaits

\* The positions are loaded.  With nothing to copy the sink waits for the device
\* or goes by the clock; the source returns what it has or waits.
WorkLoad ==
  /\ wpc = "load"
  /\ seenRead' = readPos
  /\ room' = IF Sink THEN Free ELSE Used
  /\ wpc' = IF room' > 0 THEN "copy"
            ELSE IF Sink THEN (IF MayWait THEN "wait" ELSE "pace")
            ELSE IF done > 0 \/ ~OkToBlock THEN "idle" ELSE "wait"
  /\ UNCHANGED <<kind, shared, wanted, done, seen, hand, tally, idleWaits, stopping, thrown, page,
                 processor, history>>

\* Faulty variant: waits in vain are not added up.
IdleWaits_Forgotten == IF readPos = seenRead THEN 1 ELSE 0
IdleWaits == IF readPos = seenRead THEN idleWaits + 1 ELSE 0

\* The wait ends, after 100 ms at most.  The sink looks whether the device took
\* anything.
WorkWait ==
  /\ wpc = "wait"
  /\ wpc' = "state"
  /\ idleWaits' = IF Sink THEN IdleWaits ELSE idleWaits
  /\ UNCHANGED <<kind, shared, wanted, done, seen, room, seenRead, hand, tally, stopping, thrown,
                 page, processor, history>>

\* paced_allowance(): n frames are due by the clock, and are dropped.  With none
\* due work() returns.  count_lost() loads LOST_FRAMES...
WorkPace(n) ==
  /\ wpc = "pace"
  /\ n <= wanted - done
  /\ wpc' = IF n = 0 THEN "idle" ELSE "count"
  /\ tally' = IF n = 0 THEN tally ELSE lost + n
  /\ done' = done + n
  /\ entered' = entered + n
  /\ UNCHANGED <<kind, shared, wanted, seen, room, seenRead, hand, idleWaits, stopping, thrown,
                 page, processor, kept, out>>

\* ... and stores the sum.
WorkCount ==
  /\ wpc = "count"
  /\ wpc' = IF done = wanted THEN "idle" ELSE "state"
  /\ lost' = tally
  /\ UNCHANGED <<kind, positions, state, call, stopping, thrown, page, processor, history>>

\* Frames are copied, up to the wrap.
WorkCopy ==
  LET edge == IF Sink THEN writePos ELSE readPos
      take == Min({room, wanted - done, Capacity - edge})
  IN
  /\ wpc = "copy"
  /\ wpc' = "store"
  /\ done' = done + take
  /\ IF Sink THEN /\ hand' = Coming(take) /\ ring' = Filled(hand') /\ entered' = entered + take
             ELSE /\ hand' = Copied(take) /\ UNCHANGED <<ring, entered>>
  /\ UNCHANGED <<kind, readPos, writePos, lost, state, wanted, seen, room, seenRead, tally,
                 idleWaits, stopping, thrown, page, processor, kept, out>>

\* The position is stored.  A device that makes room is alive.
WorkStore ==
  /\ wpc = "store"
  /\ wpc' = IF done = wanted THEN "idle" ELSE "state"
  /\ hand' = <<>>
  /\ IF Sink THEN /\ writePos' = Advance(writePos, Len(hand)) /\ kept' = kept \o hand
                  /\ idleWaits' = 0
                  /\ UNCHANGED <<readPos, out>>
             ELSE /\ readPos' = Advance(readPos, Len(hand)) /\ out' = out \o hand
                  /\ UNCHANGED <<writePos, kept, idleWaits>>
  /\ UNCHANGED <<kind, ring, lost, state, wanted, done, seen, room, seenRead, tally, stopping,
                 thrown, page, processor, entered>>

\* stop(), on this thread: CANCELLED is stored.
StopStore ==
  /\ wpc = "idle" /\ (stopping \/ thrown)
  /\ wpc' = "stop" /\ state' = "CANCELLED"
  /\ UNCHANGED <<kind, positions, lost, call, stopping, thrown, page, processor, history>>

\* Faulty variant: nobody posts a message, since STATE says it all.
StopTell_Silent ==
  /\ wpc = "stop"
  /\ wpc' = "stopped" /\ opening' = "closed"
  /\ UNCHANGED <<kind, shared, call, stopping, thrown, message, suspended, processor, history>>

\* __grStopAudio(): the processor, if there is one, is sent a message.  A page
\* that failed to open the device has been through this already.
StopTell ==
  /\ wpc = "stop"
  /\ wpc' = "stopped" /\ opening' = "closed"
  /\ message' = IF opening = "open" THEN "posted" ELSE message
  /\ UNCHANGED <<kind, shared, call, stopping, thrown, suspended, processor, history>>

(***************************************************************************)
(* The page                                                                *)
(***************************************************************************)
\* The device is open and the processor made, or failAudio() says why not.  A
\* source stopped in the meantime gets neither.  For a sink the page makes the
\* processor and disconnects it at once, and STATE is CANCELLED by then, which
\* ends a processor at its first quantum: none is modelled for it either.
Open ==
  /\ opening = "pending"
  /\ \/ opening' = "open" /\ ppc' = "idle" /\ UNCHANGED state
     \/ opening' = "failed" /\ state' = "ERROR" /\ UNCHANGED ppc
  /\ UNCHANGED <<kind, positions, lost, block, message, suspended, announced, pavail, phand,
                 ptally, history>>

\* The autoplay policy, a gesture, a sleeping tab.
Suspend == suspended' = ~suspended /\ UNCHANGED <<kind, shared, block, opening, message,
                                                  processor, history>>

Deliver ==
  /\ message = "posted"
  /\ message' = "here"
  /\ UNCHANGED <<kind, shared, block, opening, suspended, processor, history>>

(***************************************************************************)
(* The processor                                                           *)
(***************************************************************************)
Ended == message = "here" \/ state = "CANCELLED"

\* process() begins with alive().  A quantum without input (a microphone that
\* delivers nothing, here one past its last frame) looks whether the block has
\* ended and leaves the rest alone.
Render ==
  /\ ppc = "idle" /\ ~suspended
  /\ Ended \/ Sink \/ entered + Quantum <= MaxFrames
  /\ ppc' = IF Ended THEN "gone" ELSE IF announced THEN "look" ELSE "announce"
  /\ UNCHANGED <<kind, shared, block, page, announced, pavail, phand, ptally, history>>

\* The first quantum stores RUNNING, whatever STATE holds by then.
Announce ==
  /\ ppc = "announce"
  /\ ppc' = "look" /\ announced' = TRUE /\ state' = "RUNNING"
  /\ UNCHANGED <<kind, positions, lost, block, page, pavail, phand, ptally, history>>

\* The sink's processor counts the frames.  Too few: a silent quantum, which
\* leaves the ring alone.
LookSink ==
  /\ ppc = "look" /\ Sink
  /\ pavail' = Used
  /\ ppc' = IF Used < Quantum THEN "idle" ELSE "render"
  /\ UNCHANGED <<kind, positions, lost, state, block, page, announced, phand, ptally, history>>

PlayCopy ==
  /\ ppc = "render" /\ Sink
  /\ ppc' = "publish"
  /\ phand' = Copied(Quantum)
  /\ UNCHANGED <<kind, shared, block, page, announced, pavail, ptally, history>>

PlayStore ==
  /\ ppc = "publish" /\ Sink
  /\ ppc' = "idle"
  /\ readPos' = Advance(readPos, Quantum)
  /\ out' = out \o phand /\ phand' = <<>>
  /\ UNCHANGED <<kind, writePos, ring, lost, state, block, page, announced, pavail, ptally,
                 entered, kept>>

Kept == Min({Quantum, pavail})

\* A quantum of the microphone: what does not fit is counted as lost...
LookSource ==
  /\ ppc = "look" /\ ~Sink
  /\ pavail' = Free
  /\ ppc' = IF Quantum > Free THEN "overrun" ELSE "render"
  /\ UNCHANGED <<kind, shared, block, page, announced, phand, ptally, history>>

Overrun ==
  /\ ppc = "overrun"
  /\ ppc' = "lose"
  /\ ptally' = lost + (Quantum - pavail)
  /\ UNCHANGED <<kind, positions, lost, state, block, page, announced, pavail, phand, history>>

Lose ==
  /\ ppc = "lose"
  /\ ppc' = "render"
  /\ lost' = ptally
  /\ UNCHANGED <<kind, positions, state, block, page, announced, pavail, phand, ptally,
                 history>>

\* ... and the rest is copied in, and published if there is any.
RecordCopy ==
  /\ ppc = "render" /\ ~Sink
  /\ phand' = Coming(Kept)
  /\ ring' = Filled(phand')
  /\ entered' = entered + Quantum
  /\ ppc' = IF phand' = <<>> THEN "idle" ELSE "publish"
  /\ UNCHANGED <<kind, readPos, writePos, lost, state, block, page, announced, pavail, ptally,
                 kept, out>>

RecordStore ==
  /\ ppc = "publish" /\ ~Sink
  /\ ppc' = "idle"
  /\ writePos' = Advance(writePos, Len(phand))
  /\ kept' = kept \o phand /\ phand' = <<>>
  /\ UNCHANGED <<kind, readPos, ring, lost, state, block, page, announced, pavail, ptally,
                 entered, out>>

-----------------------------------------------------------------------------
WorkStep ==
  \/ WorkState \/ WorkLoad \/ WorkWait \/ WorkCount \/ WorkCopy \/ WorkStore
  \/ \E n \in 0 .. MaxItems : WorkPace(n)
StopStep == StopStore \/ StopTell
Processor ==
  \/ Render \/ Announce \/ LookSink \/ PlayCopy \/ PlayStore
  \/ LookSource \/ Overrun \/ Lose \/ RecordCopy \/ RecordStore

Next ==
  \/ Start \/ StopFlowgraph \/ (\E n \in 1 .. MaxItems : Work(n)) \/ WorkStep \/ StopStep
  \/ Open \/ Suspend \/ Deliver
  \/ Processor

Spec == Init /\ [][Next]_vars

\* The block's thread keeps running and its waits end; so does a quantum that has
\* begun, and the context renders while it is not suspended.  A message arrives.
\* Nobody has to open a device, to wake a context or to call work().
Fairness ==
  /\ WF_vars(Start \/ StopStep) /\ WF_vars(WorkStep)
  /\ WF_vars(Processor) /\ WF_vars(Deliver)

FairSpec == Spec /\ Fairness

-----------------------------------------------------------------------------
TypeOK ==
  /\ kind \in Kinds
  /\ readPos \in Slot /\ writePos \in Slot
  /\ state \in {"INITIAL", "RUNNING", "ERROR", "CANCELLED"}
  /\ seen \in {"INITIAL", "RUNNING", "ERROR"}
  /\ lost \in 0 .. MaxFrames
  /\ wpc \in {"new", "idle", "state", "load", "wait", "pace", "count", "copy", "store", "stop",
              "stopped"}
  /\ wanted \in 0 .. MaxItems /\ done \in 0 .. wanted
  /\ room \in 0 .. Capacity - 1 /\ seenRead \in Slot /\ Len(hand) <= room
  /\ tally \in 0 .. MaxFrames /\ idleWaits \in 0 .. StallWaits
  /\ stopping \in BOOLEAN /\ thrown \in BOOLEAN /\ suspended \in BOOLEAN /\ announced \in BOOLEAN
  /\ opening \in {"none", "pending", "open", "failed", "closed"}
  /\ message \in {"none", "posted", "here"}
  /\ ppc \in {"none", "idle", "announce", "look", "render", "overrun", "lose", "publish", "gone"}
  /\ pavail \in 0 .. Capacity - 1 /\ Len(phand) <= Quantum /\ ptally \in 0 .. MaxFrames
  /\ entered \in 0 .. MaxFrames

\* The ring hands over what was put into it, in order and once, through wraps,
\* underruns that leave it alone and overruns that cut a quantum.
InOrder ==
  /\ Len(out) <= Len(kept) /\ \A i \in 1 .. Len(out) : out[i] = kept[i]
  /\ Used = Len(kept) - Len(out)
  /\ \A i \in 1 .. Len(kept) - 1 : kept[i] < kept[i + 1]

\* LOST_FRAMES is exact, though counting is a load and a store: only one side ever
\* counts, the block of a sink and the processor of a source.
LossCounted ==
  /\ Sink => entered - Len(kept) - Len(hand) = IF wpc = "count" THEN tally ELSE lost
  /\ ~Sink /\ ppc \notin {"render", "publish"} => entered - Len(kept) = lost

\* Every frame is played or recorded in its place, or counted as lost, whichever
\* quantum meets a full ring, an empty one or a suspended context.
FramesAccounted == InOrder /\ LossCounted

\* The flowgraph does not stop for the device: a sink, or a source that may not
\* block, gets through its call of work() though no device was ever opened, or the
\* context is suspended for good.  (A source that may block waits in work() for a
\* microphone, and a stop of the flowgraph does not reach it there.)
NeverWedged ==
  (stopping /\ (Sink \/ ~OkToBlock)) ~> wpc = "stopped"

\* The processor of a stopped block ends, though its first quantum can store RUNNING
\* over CANCELLED: it is the message that ends it then.
ProcessorEnds ==
  <>[]~suspended => (wpc = "stopped" ~> ppc \in {"none", "gone"})
=============================================================================
