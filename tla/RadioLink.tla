------------------------------ MODULE RadioLink ------------------------------
(***************************************************************************)
(* HackRF Source and Sink: the GNU Radio block (blocks/src/hackrf_*.cpp),  *)
(* the worker that owns the USB device (runner/src/hackrf_worker.js), the  *)
(* threads that stage live parameter changes in the command mailbox, and   *)
(* the page that stops the worker.                                         *)
(*                                                                         *)
(* The ring is a queue of samples here; that slots, positions and stale    *)
(* counts implement a queue is what SpscRing shows.  A worker step ends at *)
(* every await and, inside readCommand(), at every load.                   *)
(*                                                                         *)
(* A setting is the number of the command that staged it: 0 is "off".      *)
(***************************************************************************)
EXTENDS Integers, Sequences, FiniteSets

CONSTANTS
    Depth,         \* TRANSFER_DEPTH, the transfers under way
    Pairs,         \* IQ pairs in a full USB transfer
    Capacity,      \* capacity_pairs of the ring
    MaxCommands,   \* bound: commands staged, the constructor's included
    MaxAttempts,   \* readCommand() gives up after that many torn reads
    MaxSamples     \* bound: samples a direction moves

\* The worker refuses a ring that cannot hold the transfers under way.
SizeAssumption ==
    /\ {Depth, Pairs, MaxCommands, MaxAttempts, MaxSamples} \subseteq Nat \ {0}
    /\ Capacity \in Nat /\ Capacity >= Depth * Pairs + 1
ASSUME SizeAssumption

Slots == {"hi", "lo", "flags"}
NoCommand == [seq |-> 0, hi |-> 0, lo |-> 0, flags |-> 0]

VARIABLES
    direction,  \* "rx" or "tx", for the life of the block
    state,      \* control.state
    slot,       \* control: freq_hi, freq_lo, flags
    cmdSeq,     \* control.cmd_seq
    staged,     \* history: what each command wrote
    setter,     \* where the thread inside stage() is
    worker,     \* where the worker is
    reg,        \* the command readCommand() is assembling
    tries,      \* its attempts so far
    applied,    \* the command applied and acknowledged last
    device,     \* the radio: mode, frequency words, amplifier and bias tee
    emergency,  \* where emergencyStop() is
    stopMsg,    \* the page's "stop" message
    failing,    \* the worker ends with an exception
    block,      \* the block: running, threw, stopping, stopped
    ring, out,  \* samples in the ring; samples past it
    made, lost  \* samples the producing side had; LOST_SAMPLES

mailbox == <<slot, cmdSeq, staged, setter>>
reading == <<reg, tries>>
stream == <<ring, out, made, lost>>
ending == <<stopMsg, emergency, block>>
vars == <<direction, state, mailbox, worker, reading, applied, device, failing, ending, stream>>

Writes(kind) == IF kind = "all" THEN Slots ELSE IF kind = "freq" THEN {"hi", "lo"} ELSE {"flags"}
Cancelled == state = "CANCELLED"
First == applied = NoCommand
Free == Capacity - 1 - Len(ring)
Seconds == {"hi", "lo", "flags", "recheck", "loop"}  \* places without an await
AtAwait == worker \notin Seconds
Over == worker \in {"ended", "terminated"}

TypeOK ==
    /\ direction \in {"rx", "tx"}
    /\ state \in {"INITIAL", "RUNNING", "ERROR", "CANCELLED"}
    /\ slot \in [Slots -> 0..MaxCommands]
    /\ cmdSeq \in 1..MaxCommands
    /\ staged \in Seq({"all", "freq", "flags"}) /\ Len(staged) \in {cmdSeq, cmdSeq + 1}
    /\ setter \in {"idle", "lo", "seq"}
    /\ worker \in {"open", "config", "hi", "lo", "flags", "recheck", "safe", "safeFlags", "tune",
                   "power", "prefill", "on", "loop", "transfer", "refill", "close", "closeFlags",
                   "release", "ended", "terminated"}
    /\ reg \in [{"seq", "hi", "lo", "flags"} -> 0..MaxCommands]
    /\ applied \in [{"seq", "hi", "lo", "flags"} -> 0..MaxCommands]
    /\ tries \in 0..MaxAttempts
    /\ device \in [mode : {"off", "rx", "tx"}, hi : 0..MaxCommands, lo : 0..MaxCommands,
                   flags : 0..MaxCommands]
    /\ emergency \in {"none", "flags", "done"}
    /\ stopMsg \in {"none", "posted", "handled"}
    /\ failing \in BOOLEAN
    /\ block \in {"running", "threw", "stopping", "stopped"}
    /\ ring \in Seq(0..MaxSamples) /\ out \in Seq(0..MaxSamples)
    /\ made \in 0..MaxSamples /\ lost \in 0..MaxSamples

\* The constructor has staged the whole configuration, start() has reset the
\* rest and launched the worker.
Init ==
    /\ direction \in {"rx", "tx"}
    /\ state = "INITIAL"
    /\ slot = [s \in Slots |-> 1] /\ cmdSeq = 1 /\ staged = <<"all">> /\ setter = "idle"
    /\ worker = "open" /\ reg = NoCommand /\ tries = 0 /\ applied = NoCommand
    /\ device = [mode |-> "off", hi |-> 0, lo |-> 0, flags |-> 0]
    /\ emergency = "none" /\ stopMsg = "none" /\ failing = FALSE /\ block = "running"
    /\ ring = <<>> /\ out = <<>> /\ made = 0 /\ lost = 0

-----------------------------------------------------------------------------
(* stage(): one thread at a time, the slots one store each, then cmd_seq.    *)

Next1 == Len(staged) + 1

SetFrequencyHi ==
    /\ setter = "idle" /\ cmdSeq < MaxCommands /\ block = "running"
    /\ slot' = [slot EXCEPT !.hi = Next1]
    /\ staged' = Append(staged, "freq")
    /\ setter' = "lo"
    /\ UNCHANGED cmdSeq

SetFrequencyLo ==
    /\ setter = "lo"
    /\ slot' = [slot EXCEPT !.lo = Len(staged)]
    /\ setter' = "seq"
    /\ UNCHANGED <<cmdSeq, staged>>

SetFlag ==
    /\ setter = "idle" /\ cmdSeq < MaxCommands /\ block = "running"
    /\ slot' = [slot EXCEPT !.flags = Next1]
    /\ staged' = Append(staged, "flags")
    /\ setter' = "seq"
    /\ UNCHANGED cmdSeq

Publish ==
    /\ setter = "seq"
    /\ cmdSeq' = cmdSeq + 1
    /\ setter' = "idle"
    /\ UNCHANGED <<slot, staged>>

Stage == SetFrequencyHi \/ SetFrequencyLo \/ SetFlag \/ Publish

Setter ==
    /\ Stage
    /\ UNCHANGED <<direction, state, worker, reading, applied, device, failing, ending, stream>>

-----------------------------------------------------------------------------
(* The worker.  Every request may fail, which ends run() with an exception.  *)

Goto(place) == worker' = place

OpenDevice ==
    /\ worker = "open"
    /\ Goto("config") /\ device' = [device EXCEPT !.mode = "off"]
    /\ UNCHANGED <<direction, state, mailbox, reading, applied, failing, ending, stream>>

\* Faulty: the mailbox is read for the first configuration only.
CommandWaiting_Once == First
\* commandWaiting(), and the first load of readCommand().
CommandWaiting == First \/ cmdSeq # applied.seq
AfterConfiguration == IF direction = "rx" THEN "transfer" ELSE "refill"

ReadSeq ==
    /\ worker = "config"
    /\ IF CommandWaiting
       THEN Goto("hi") /\ reg' = [reg EXCEPT !.seq = cmdSeq] /\ tries' = 1
       ELSE Goto(AfterConfiguration) /\ UNCHANGED reading
    /\ UNCHANGED <<direction, state, mailbox, applied, device, failing, ending, stream>>

ReadSlot(s, following) ==
    /\ worker = s
    /\ reg' = [reg EXCEPT ![s] = slot[s]]
    /\ Goto(following)
    /\ UNCHANGED <<direction, state, mailbox, tries, applied, device, failing, ending, stream>>

\* cmd_seq has not moved: validateCommand().  A frequency put together from
\* two commands may be one the radio does not have.
Accept ==
    /\ cmdSeq = reg.seq
    /\ \/ Goto(IF First THEN "safe" ELSE "tune") /\ UNCHANGED failing
       \/ reg.hi # reg.lo /\ Goto("close") /\ failing' = TRUE
    /\ UNCHANGED reading

\* Faulty: the new counter is taken with the slots read under the old one.
Reread_SeqOnly ==
    /\ cmdSeq # reg.seq /\ tries < MaxAttempts
    /\ reg' = [reg EXCEPT !.seq = cmdSeq] /\ tries' = tries + 1
    /\ Goto("recheck") /\ UNCHANGED failing
Reread ==
    /\ cmdSeq # reg.seq /\ tries < MaxAttempts
    /\ reg' = [reg EXCEPT !.seq = cmdSeq] /\ tries' = tries + 1
    /\ Goto("hi") /\ UNCHANGED failing

GiveUp ==
    /\ cmdSeq # reg.seq /\ tries = MaxAttempts
    /\ IF First THEN Goto("close") /\ failing' = TRUE
                ELSE Goto(AfterConfiguration) /\ UNCHANGED failing
    /\ UNCHANGED reading

Recheck ==
    /\ worker = "recheck"
    /\ Accept \/ Reread \/ GiveUp
    /\ UNCHANGED <<direction, state, mailbox, applied, device, ending, stream>>

Request(place, following, settings) ==
    /\ worker = place
    /\ device' = settings
    /\ Goto(following)
    /\ UNCHANGED <<direction, state, mailbox, reading, applied, failing, ending, stream>>

\* The first configuration begins with everything off.
SafeMode == Request("safe", "safeFlags", [device EXCEPT !.mode = "off"])
SafeFlags == Request("safeFlags", "tune", [device EXCEPT !.flags = 0])

\* Only what differs from the command applied before is sent.
Changed(s) == First \/ reg[s] # applied[s]
Tune == Request("tune", "power",
                IF Changed("hi") \/ Changed("lo")
                THEN [device EXCEPT !.hi = reg.hi, !.lo = reg.lo] ELSE device)

\* The amplifier and the bias tee come last; then the command is acknowledged
\* and, the first time, a receiver is switched on.
Power ==
    /\ worker = "power"
    /\ device' = [device EXCEPT !.flags = IF Changed("flags") THEN reg.flags ELSE @,
                                !.mode = IF First /\ direction = "rx" THEN "rx" ELSE @]
    /\ applied' = reg
    /\ Goto(IF ~First THEN AfterConfiguration ELSE IF direction = "rx" THEN "on" ELSE "prefill")
    /\ UNCHANGED <<direction, state, mailbox, reading, failing, ending, stream>>

\* Faulty: STATE is not looked at again before the transmitter is on.
TransmitterOn_Unchecked ==
    /\ worker = "prefill" /\ Len(ring) >= Depth * Pairs
    /\ device' = [device EXCEPT !.mode = "tx"]
    /\ Goto("on")
    /\ UNCHANGED <<direction, state, mailbox, reading, applied, failing, ending, stream>>
\* waitForTxPrefill(), and setMode(TX) in the same turn.
TransmitterOn ==
    /\ worker = "prefill" /\ ~Cancelled /\ Len(ring) >= Depth * Pairs
    /\ device' = [device EXCEPT !.mode = "tx"]
    /\ Goto("on")
    /\ UNCHANGED <<direction, state, mailbox, reading, applied, failing, ending, stream>>

PrefillCancelled ==
    /\ worker = "prefill" /\ Cancelled
    /\ Goto("close")
    /\ UNCHANGED <<direction, state, mailbox, reading, applied, device, failing, ending, stream>>

\* takeTx(n transfers) does not look at WRITE_POS: where the queue is too
\* short it takes what the slots hold from before (0 below).
Take(n) ==
    LET k == n * Pairs IN
    /\ ring' = SubSeq(ring, k + 1, Len(ring))
    /\ out' = out \o [i \in 1..k |-> IF i <= Len(ring) THEN ring[i] ELSE 0]
    /\ UNCHANGED <<made, lost>>

\* STATE is stored whatever it was; a transmitter queues its first transfers.
Running ==
    /\ worker = "on"
    /\ state' = "RUNNING"
    /\ IF direction = "tx" THEN Take(Depth) ELSE UNCHANGED stream
    /\ Goto("loop")
    /\ UNCHANGED <<direction, mailbox, reading, applied, device, failing, ending>>

Loop ==
    /\ worker = "loop"
    /\ Goto(IF Cancelled THEN "close" ELSE IF direction = "rx" THEN "config" ELSE "transfer")
    /\ UNCHANGED <<direction, state, mailbox, reading, applied, device, failing, ending, stream>>

\* Faulty: what fits is delivered, the whole transfer is counted as lost.
Deliver_Partial(n) ==
    /\ made' = made + n
    /\ IF n <= Free
       THEN ring' = ring \o [i \in 1..n |-> made + i] /\ UNCHANGED lost
       ELSE ring' = ring \o [i \in 1..Free |-> made + i] /\ lost' = lost + n
    /\ UNCHANGED out
\* deliverRx(): a transfer that does not fit is dropped as a whole.
Deliver(n) ==
    /\ made' = made + n
    /\ IF n <= Free
       THEN ring' = ring \o [i \in 1..n |-> made + i] /\ UNCHANGED lost
       ELSE lost' = lost + n /\ UNCHANGED ring
    /\ UNCHANGED out

\* A USB transfer has ended; a received one may be short, or empty.
Transferred ==
    /\ worker = "transfer"
    /\ \/ Cancelled /\ Goto("close") /\ UNCHANGED stream
       \/ ~Cancelled /\ direction = "tx" /\ Goto("config") /\ UNCHANGED stream
       \/ /\ ~Cancelled /\ direction = "rx" /\ Goto("loop")
          /\ \E n \in {0, Pairs - 1, Pairs} : made + n <= MaxSamples /\ Deliver(n)
    /\ UNCHANGED <<direction, state, mailbox, reading, applied, device, failing, ending>>

Refill ==
    /\ worker = "refill"
    /\ IF Len(ring) < Pairs
       THEN /\ device' = [device EXCEPT !.mode = "off"]
            /\ failing' = TRUE /\ Goto("close") /\ UNCHANGED stream
       ELSE /\ Take(1) /\ Goto("loop") /\ UNCHANGED <<device, failing>>
    /\ UNCHANGED <<direction, state, mailbox, reading, applied, ending>>

Throws ==
    /\ worker \in {"open", "safe", "safeFlags", "tune", "power", "prefill", "on", "transfer"}
    /\ worker = "prefill" => ~Cancelled /\ Len(ring) >= Depth * Pairs
    /\ failing' = TRUE /\ Goto("close")
    /\ UNCHANGED <<direction, state, mailbox, reading, applied, device, ending, stream>>

\* The finally clause: close(), then run()'s caller stores the error.
CloseMode == Request("close", "closeFlags", [device EXCEPT !.mode = "off"])
CloseFlags == Request("closeFlags", "release", [device EXCEPT !.flags = 0])

Release ==
    /\ worker = "release"
    /\ state' = IF failing /\ ~Cancelled THEN "ERROR" ELSE state
    /\ Goto("ended")
    /\ UNCHANGED <<direction, mailbox, reading, applied, device, failing, ending, stream>>

\* onmessage: emergencyStop(), unless the device is not open or being closed.
DeviceOpen == worker \notin {"open", "closeFlags", "release"}

StopMessage ==
    /\ stopMsg = "posted" /\ AtAwait /\ ~Over
    /\ stopMsg' = "handled"
    /\ IF DeviceOpen
       THEN emergency' = "flags" /\ device' = [device EXCEPT !.mode = "off"]
       ELSE UNCHANGED <<emergency, device>>
    /\ UNCHANGED <<direction, state, mailbox, worker, reading, applied, failing, block, stream>>

EmergencyFlags ==
    /\ emergency = "flags" /\ AtAwait
    /\ emergency' = "done"
    /\ device' = IF Over THEN device ELSE [device EXCEPT !.flags = 0]
    /\ UNCHANGED <<direction, state, mailbox, worker, reading, applied, failing, stopMsg, block,
                   stream>>

\* The page's timer, one second after its message: far more than the control
\* requests take, but a transfer of a radio that is off need never end.
Terminate ==
    /\ stopMsg = "handled" /\ emergency # "flags" /\ worker = "transfer"
    /\ Goto("terminated")
    /\ UNCHANGED <<direction, state, mailbox, reading, applied, device, failing, ending, stream>>

Read == ReadSlot("hi", "lo") \/ ReadSlot("lo", "flags") \/ ReadSlot("flags", "recheck") \/ Recheck
Configure == ReadSeq \/ Read \/ SafeMode \/ SafeFlags \/ Tune \/ Power
Stream == TransmitterOn \/ PrefillCancelled \/ Running \/ Loop \/ Refill
Finish == CloseMode \/ CloseFlags \/ Release
Worker == OpenDevice \/ Configure \/ Stream \/ Transferred \/ Finish

-----------------------------------------------------------------------------
(* The block, on its scheduler thread: work(), then the executor's stop().   *)

Put ==
    /\ direction = "tx" /\ block = "running" /\ state \notin {"ERROR", "CANCELLED"}
    /\ \E n \in 1..Free :
          /\ made + n <= MaxSamples
          /\ ring' = ring \o [i \in 1..n |-> made + i]
          /\ made' = made + n
    /\ UNCHANGED <<out, lost, block>>

Get ==
    /\ direction = "rx" /\ block = "running" /\ ring # <<>>
    /\ \E n \in 1..Len(ring) :
          /\ out' = out \o SubSeq(ring, 1, n)
          /\ ring' = SubSeq(ring, n + 1, Len(ring))
    /\ UNCHANGED <<made, lost, block>>

\* A sink looks at STATE first, a source only when the ring is empty.
WorkThrows ==
    /\ block = "running" /\ state = "ERROR" /\ (direction = "rx" => ring = <<>>)
    /\ block' = "threw"
    /\ UNCHANGED stream

Work ==
    /\ Put \/ Get \/ WorkThrows
    /\ UNCHANGED <<direction, state, mailbox, worker, reading, applied, device, failing, stopMsg,
                   emergency>>

StopStore ==
    /\ block \in {"running", "threw"}
    /\ state' = "CANCELLED" /\ block' = "stopping"
    /\ UNCHANGED <<direction, mailbox, worker, reading, applied, device, failing, stopMsg,
                   emergency, stream>>

StopPost ==
    /\ block = "stopping"
    /\ block' = "stopped" /\ stopMsg' = "posted"
    /\ UNCHANGED <<direction, state, mailbox, worker, reading, applied, device, failing, emergency,
                   stream>>

-----------------------------------------------------------------------------
Next ==
    \/ Setter \/ Worker \/ Throws \/ StopMessage \/ EmergencyFlags \/ Terminate
    \/ Work \/ StopStore \/ StopPost

\* The scheduler threads and the worker go on; a radio that is on keeps
\* transferring.  Nothing makes anybody stage, stop or send.
Fairness ==
    /\ WF_vars((SetFrequencyLo \/ Publish) /\ Setter)
    /\ WF_vars(OpenDevice \/ Configure \/ Stream \/ Finish)
    /\ WF_vars(device.mode # "off" /\ Transferred)
    /\ WF_vars(Work)
    /\ WF_vars(StopPost) /\ SF_vars(StopMessage) /\ SF_vars(EmergencyFlags)

Spec == Init /\ [][Next]_vars /\ Fairness

-----------------------------------------------------------------------------
(* Properties.                                                               *)

\* What is past the ring and in it is in the order it was made, each sample
\* once, and what is missing is what LOST_SAMPLES says (a sink loses nothing
\* and never sends a slot it was not given).
StreamAccounted ==
    LET s == out \o ring IN
    /\ Len(s) + lost = made
    /\ \A i \in 1..Len(s) : s[i] > (IF i = 1 THEN 0 ELSE s[i - 1])

\* No setting the worker took is older than the last one staged for that slot up
\* to the command it acknowledged.
UpToDate ==
    \A s \in Slots : \A n \in 1..applied.seq : s \in Writes(staged[n]) => applied[s] >= n

\* The radio has what was taken, though only differences are sent, and until the
\* next command is being sent or the radio is being switched off.
Steady == {"config", "hi", "lo", "flags", "recheck", "tune", "prefill", "on", "loop", "transfer",
           "refill"}
InEffect ==
    ~First /\ worker \in Steady /\ emergency = "none" =>
        device.hi = applied.hi /\ device.lo = applied.lo /\ device.flags = applied.flags

\* An acknowledged command is in effect: the worker took settings that are new enough,
\* and the radio has them.
AckedIsApplied == UpToDate /\ InEffect

\* However the worker ends, the transmitter is off (docs/hackrf.md, TX safety).
TransmitterOff == direction = "tx" /\ Over => device.mode = "off"

\* While the radio streams, the last command staged is applied in the end.
LastCommandApplied ==
    \A n \in 2..MaxCommands :
        cmdSeq = n ~> (applied.seq >= n \/ failing \/ block # "running")

=============================================================================
