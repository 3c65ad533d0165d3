--------------------------- MODULE RadioLink_proofs ---------------------------
(***************************************************************************)
(* Three results about the HackRF link, for every ring, transfer depth and *)
(* number of commands and attempts.  However the worker ends, it leaves    *)
(* the transmitter off: nothing has switched it on before the first        *)
(* configuration is applied and the ring is filled, and a stop that comes  *)
(* before that keeps it off.  A command that is acknowledged is in effect: *)
(* readCommand() assembles no slot older than its counter.  And the stream *)
(* of samples is accounted for: takeTx(), which does not look at           *)
(* WRITE_POS, is only called where the ring holds what it takes.           *)
(***************************************************************************)
EXTENDS RadioLink, SequenceTheorems, TLAPS

Kinds == {"all", "freq", "flags"}

Fields == {"seq", "hi", "lo", "flags"}
Settings == [mode : {"off", "rx", "tx"}, hi : Nat, lo : Nat, flags : Nat]
Configuring == {"hi", "lo", "flags", "recheck", "safe", "safeFlags", "tune", "power"}
Streaming == {"prefill", "on", "loop", "transfer", "refill"}
Closing == {"closeFlags", "release", "ended"}

\* The types the steps need: those of the counters, the records and the places.
Types ==
    /\ cmdSeq \in Nat \ {0}
    /\ slot \in [Slots -> Nat]
    /\ staged \in Seq(Kinds)
    /\ setter \in {"idle", "lo", "seq"}
    /\ reg \in [Fields -> Nat] /\ applied \in [Fields -> Nat]
    /\ device \in Settings
    /\ worker \in {"open", "config", "close", "terminated"}
                    \cup Configuring \cup Streaming \cup Closing
    /\ worker \in Configuring => reg.seq >= 1
    /\ worker \in Streaming => ~First

LEMMA InitTypes == Init => Types
  BY DEF Init, Types, Kinds, Settings, Slots, Fields, NoCommand, Configuring, Streaming, Closing

LEMMA SetterTypes ==
    ASSUME Types, Setter
    PROVE  Types'
<1>1. cmdSeq' \in Nat \ {0} /\ setter' \in {"idle", "lo", "seq"}
  BY DEF Types, Setter, Stage, SetFrequencyHi, SetFrequencyLo, SetFlag, Publish
<1>2. staged' \in Seq(Kinds)
  <2>1. Append(staged, "freq") \in Seq(Kinds) /\ Append(staged, "flags") \in Seq(Kinds)
    <3>1. "freq" \in Kinds /\ "flags" \in Kinds /\ staged \in Seq(Kinds)
      BY DEF Kinds, Types
    <3> QED BY <3>1, AppendProperties
  <2> QED BY <2>1 DEF Types, Setter, Stage, SetFrequencyHi, SetFrequencyLo, SetFlag, Publish
<1>3. Len(staged) \in Nat
  BY DEF Types
<1>4. slot' \in [Slots -> Nat]
  <2>1. \/ slot' = slot
        \/ \E s \in Slots, n \in {Len(staged), Len(staged) + 1} : slot' = [slot EXCEPT ![s] = n]
    BY DEF Setter, Stage, SetFrequencyHi, SetFrequencyLo, SetFlag, Publish, Next1, Slots
  <2> QED BY <1>3, <2>1 DEF Types
<1>5. UNCHANGED <<reg, applied, device, worker>>
  BY DEF Setter, reading
<1> QED BY <1>1, <1>2, <1>4, <1>5 DEF Types, First

\* The worker's steps up to the acknowledgement.
LEMMA ConfigureTypes ==
    ASSUME Types, OpenDevice \/ Configure
    PROVE  Types'
<1> USE DEF Types, Settings, Fields, Slots, Goto, mailbox, reading
<1>1. CASE OpenDevice
  BY <1>1 DEF OpenDevice, Configuring, Streaming, Closing, First
<1>2. CASE ReadSeq
  BY <1>2 DEF ReadSeq, CommandWaiting, AfterConfiguration, Configuring, Streaming, Closing, First
<1>3. ASSUME NEW s \in Slots, NEW next \in Configuring, ReadSlot(s, next)
      PROVE  Types'
  BY <1>3 DEF ReadSlot, Configuring, Streaming, Closing, First
<1>4. CASE Recheck
  BY <1>4 DEF Recheck, Accept, Reread, GiveUp, AfterConfiguration, Configuring, Streaming, Closing,
              First
<1>5. CASE SafeMode
  BY <1>5 DEF SafeMode, Request, Configuring, Streaming, Closing, First
<1>6. CASE SafeFlags
  BY <1>6 DEF SafeFlags, Request, Configuring, Streaming, Closing, First
<1>7. CASE Tune
  BY <1>7 DEF Tune, Request, Configuring, Streaming, Closing, First
<1>8. CASE Power
  <2>1. reg.seq >= 1
    BY <1>8 DEF Power, Configuring
  <2>2. applied' # NoCommand
    BY <1>8, <2>1 DEF Power, NoCommand
  <2> QED BY <1>8, <2>2 DEF Power, AfterConfiguration, Configuring, Streaming, Closing, First
<1> QED BY <1>1, <1>2, <1>3, <1>4, <1>5, <1>6, <1>7, <1>8 DEF Configure, Read, Configuring

\* Its other steps, and everybody else's.
LEMMA OtherTypes ==
    ASSUME Types,
           \/ Stream \/ Transferred \/ Finish \/ Throws \/ StopMessage \/ EmergencyFlags
           \/ Terminate \/ Work \/ StopStore \/ StopPost
    PROVE  Types'
<1>1. UNCHANGED <<cmdSeq, slot, staged, setter, reg, applied>>
  BY DEF Stream, TransmitterOn, PrefillCancelled, Running, Loop, Refill, Transferred, Finish,
         CloseMode, CloseFlags, Request, Release, Throws, StopMessage, EmergencyFlags, Terminate,
         Work, StopStore, StopPost, mailbox, reading
<1>2. device' \in Settings
  <2>1. device \in Settings
    BY DEF Types
  <2>2. \/ device' = device
        \/ \E mode \in {"off", "tx"} : device' = [device EXCEPT !.mode = mode]
        \/ device' = [device EXCEPT !.flags = 0]
    BY DEF Stream, TransmitterOn, PrefillCancelled, Running, Loop, Refill, Transferred, Finish,
           CloseMode, CloseFlags, Request, Release, Throws, StopMessage, EmergencyFlags,
           Terminate, Work, StopStore, StopPost
  <2> QED BY <2>1, <2>2 DEF Settings
<1>3. /\ \/ worker' = worker
         \/ worker' \in {"close", "terminated"} \cup Streaming \cup Closing
         \/ worker' = "config"
      /\ worker' \in Streaming => worker' = worker \/ worker \in Streaming
  <2>1. CASE Stream
    BY <2>1 DEF Stream, TransmitterOn, PrefillCancelled, Running, Loop, Refill, Goto, Streaming,
                Closing, Types
  <2>2. CASE Transferred
    BY <2>2 DEF Transferred, Goto, Streaming, Closing, Types
  <2>3. CASE Finish
    BY <2>3 DEF Finish, CloseMode, CloseFlags, Request, Release, Goto, Streaming, Closing
  <2>4. CASE Throws \/ Terminate
    BY <2>4 DEF Throws, Terminate, Goto, Streaming, Closing
  <2>5. CASE StopMessage \/ EmergencyFlags \/ Work \/ StopStore \/ StopPost
    BY <2>5 DEF StopMessage, EmergencyFlags, Work, StopStore, StopPost
  <2> QED BY <2>1, <2>2, <2>3, <2>4, <2>5
<1> QED BY <1>1, <1>2, <1>3 DEF Types, First, Configuring, Streaming, Closing

LEMMA TypesStep ==
    ASSUME Types, [Next]_vars
    PROVE  Types'
<1>1. CASE UNCHANGED vars
  BY <1>1 DEF vars, mailbox, reading, Types, First
<1>2. CASE Worker
  BY <1>2, ConfigureTypes, OtherTypes DEF Worker
<1>3. CASE Setter
  BY <1>3, SetterTypes
<1>4. CASE Throws \/ StopMessage \/ EmergencyFlags \/ Terminate \/ Work \/ StopStore \/ StopPost
  BY <1>4, OtherTypes
<1> QED BY <1>1, <1>2, <1>3, <1>4 DEF Next

THEOREM TypesHold == Spec => []Types
<1>1. Init => Types BY InitTypes
<1>2. Types /\ [Next]_vars => Types' BY TypesStep
<1> QED BY <1>1, <1>2, PTL DEF Spec

-----------------------------------------------------------------------------
(* The transmitter.                                                          *)

\* Nothing has switched the transmitter on yet.
BeforeOn ==
    \/ worker \in {"open", "prefill"}
    \/ First /\ worker \in {"config"} \cup Configuring

Off == device.mode = "off"

TxInv ==
    direction = "tx" =>
        /\ BeforeOn \/ worker \in Closing \cup {"terminated"} => Off
        /\ block \in {"running", "threw", "stopping", "stopped"}
        /\ stopMsg # "none" => block = "stopped"
        /\ BeforeOn /\ block \in {"stopping", "stopped"} => Cancelled
        /\ stopMsg = "handled" => Off

\* The worker goes on without a look at the radio, at STATE or at the message.
LEMMA Quiet ==
    ASSUME Types, TxInv, UNCHANGED <<direction, state, device, stopMsg, block>>,
           BeforeOn' => BeforeOn,
           worker' \in Closing \cup {"terminated"} => worker \in Closing \cup {"terminated"}
    PROVE  TxInv'
  BY DEF TxInv, Off, Cancelled

LEMMA ConfigureTx ==
    ASSUME Types, TxInv, OpenDevice \/ Configure
    PROVE  TxInv'
<1>1. CASE OpenDevice
  BY <1>1 DEF OpenDevice, Goto, TxInv, BeforeOn, Off, Cancelled, ending, Types, Settings, Closing
<1>2. CASE ReadSeq \/ Read
  <2>1. UNCHANGED <<direction, state, device, stopMsg, block, applied>>
    BY <1>2 DEF ReadSeq, Read, ReadSlot, Recheck, ending
  <2>2. worker' \notin Closing \cup {"terminated", "open"}
    BY <1>2 DEF ReadSeq, Read, ReadSlot, Recheck, Accept, Reread, GiveUp, AfterConfiguration, Goto,
                Closing
  <2>3. worker \in {"config"} \cup Configuring
    BY <1>2 DEF ReadSeq, Read, ReadSlot, Recheck, Configuring
  <2>4. worker' # "prefill"
    BY <1>2 DEF ReadSeq, Read, ReadSlot, Recheck, Accept, Reread, GiveUp, AfterConfiguration, Goto
  <2>5. BeforeOn' => BeforeOn
    BY <2>1, <2>2, <2>3, <2>4 DEF BeforeOn, First
  <2> QED BY <2>1, <2>2, <2>5, Quiet
<1>3. CASE SafeMode \/ SafeFlags \/ Tune
  <2>1. UNCHANGED <<direction, state, applied, stopMsg, block>> /\ (Off => Off')
    BY <1>3 DEF SafeMode, SafeFlags, Tune, Request, Off, ending, Types, Settings
  <2>2. worker \in Configuring /\ worker' \in Configuring
    BY <1>3 DEF SafeMode, SafeFlags, Tune, Request, Goto, Configuring
  <2>3. (BeforeOn <=> BeforeOn') /\ worker' \notin Closing \cup {"terminated"}
    BY <2>1, <2>2 DEF BeforeOn, First, Configuring, Closing
  <2> QED BY <2>1, <2>3 DEF TxInv, Cancelled
<1>4. CASE Power
  <2>1. UNCHANGED <<direction, state, stopMsg, block>>
    BY <1>4 DEF Power, ending
  <2>2. direction = "tx" => (Off => Off')
    BY <1>4 DEF Power, Off, Types, Settings
  <2>3. worker' \notin Closing \cup {"terminated"}
    BY <1>4 DEF Power, Goto, AfterConfiguration, Closing
  <2>4. direction = "tx" /\ BeforeOn' => BeforeOn
    BY <1>4 DEF Power, Goto, AfterConfiguration, BeforeOn, Configuring
  <2> QED BY <2>1, <2>2, <2>3, <2>4 DEF TxInv, Cancelled
<1> QED BY <1>1, <1>2, <1>3, <1>4 DEF Configure

LEMMA OtherTx ==
    ASSUME Types, TxInv,
           \/ Stream \/ Transferred \/ Finish \/ Throws \/ StopMessage \/ EmergencyFlags
           \/ Terminate \/ Work \/ StopStore \/ StopPost
    PROVE  TxInv'
<1> USE DEF Closing
<1>1. UNCHANGED <<direction, applied>>
  BY DEF Stream, TransmitterOn, PrefillCancelled, Running, Loop, Refill, Transferred, Finish,
         CloseMode, CloseFlags, Request, Release, Throws, StopMessage, EmergencyFlags, Terminate,
         Work, StopStore, StopPost
<1>2. CASE TransmitterOn
  BY <1>2 DEF TransmitterOn, Goto, TxInv, BeforeOn, Cancelled, Configuring, ending, Types
<1>3. CASE PrefillCancelled \/ Loop \/ Transferred \/ Throws
  <2>1. UNCHANGED <<state, device, stopMsg, block>>
    BY <1>3 DEF PrefillCancelled, Loop, Transferred, Throws, ending
  <2>2. worker' \notin Closing \cup {"terminated"}
    BY <1>3 DEF PrefillCancelled, Loop, Transferred, Throws, Goto
  <2>3. BeforeOn' => BeforeOn
    BY <1>1, <1>3 DEF PrefillCancelled, Loop, Transferred, Throws, Goto, BeforeOn, First, Types,
                      Streaming, Configuring
  <2> QED BY <1>1, <2>1, <2>2, <2>3, Quiet
<1>4. CASE Running \/ Refill
  <2>1. UNCHANGED <<stopMsg, block>> /\ (Off => Off')
    BY <1>4 DEF Running, Refill, ending, Off, Types, Settings
  <2>2. ~BeforeOn' /\ worker' \notin Closing \cup {"terminated"}
    BY <1>4 DEF Running, Refill, Goto, BeforeOn, Configuring
  <2> QED BY <1>1, <2>1, <2>2 DEF TxInv
<1>5. CASE Finish
  <2>1. UNCHANGED <<stopMsg, block>> /\ (Off => Off')
    BY <1>5 DEF Finish, CloseMode, CloseFlags, Request, Release, ending, Off, Types, Settings
  <2>2. worker' \in Closing /\ (worker \in Closing \/ Off')
    BY <1>5 DEF Finish, CloseMode, CloseFlags, Request, Release, Goto, Off, Types, Settings
  <2> QED BY <1>1, <2>1, <2>2 DEF TxInv, BeforeOn, Configuring
<1>6. CASE StopMessage
  <2>1. UNCHANGED <<state, block, worker>> /\ (Off => Off') /\ stopMsg = "posted"
        /\ stopMsg' = "handled"
    BY <1>6 DEF StopMessage, Off, Types, Settings
  <2>2. Off' \/ worker = "open" \/ worker \in Closing
    BY <1>6 DEF StopMessage, DeviceOpen, Off, Types, Settings
  <2>3. BeforeOn' <=> BeforeOn
    BY <1>1, <2>1 DEF BeforeOn, First
  <2> QED BY <1>1, <2>1, <2>2, <2>3 DEF TxInv, BeforeOn, Cancelled
<1>7. CASE EmergencyFlags \/ Terminate
  <2>1. UNCHANGED <<state, stopMsg, block>> /\ (Off => Off')
    BY <1>7 DEF EmergencyFlags, Terminate, ending, Off, Types, Settings
  <2>2. worker' = worker \/ (worker' = "terminated" /\ stopMsg = "handled")
    BY <1>7 DEF EmergencyFlags, Terminate, Goto
  <2>3. BeforeOn' => BeforeOn
    BY <1>1, <2>2 DEF BeforeOn, First, Configuring
  <2> QED BY <1>1, <2>1, <2>2, <2>3 DEF TxInv, Cancelled
<1>8. CASE Work
  <2>1. UNCHANGED <<state, device, stopMsg, worker>>
    BY <1>8 DEF Work
  <2>2. block' = block \/ (block = "running" /\ block' = "threw")
    BY <1>8 DEF Work, Put, Get, WorkThrows
  <2> QED BY <1>1, <2>1, <2>2 DEF TxInv, BeforeOn, First, Off, Cancelled
<1>9. CASE StopStore \/ StopPost
  BY <1>1, <1>9 DEF StopStore, StopPost, TxInv, BeforeOn, First, Off, Cancelled
<1> QED BY <1>2, <1>3, <1>4, <1>5, <1>6, <1>7, <1>8, <1>9 DEF Stream

\* However the worker ends, the transmitter is off: for every ring, transfer
\* depth and number of commands, stops and failures at any moment included.
THEOREM LeftOff == Spec => []TransmitterOff
<1>1. Init => TxInv
  BY DEF Init, TxInv, Off, Closing
<1>2. Types /\ TxInv /\ [Next]_vars => TxInv'
  <2> SUFFICES ASSUME Types, TxInv, [Next]_vars PROVE TxInv'
    OBVIOUS
  <2>1. CASE UNCHANGED vars
    BY <2>1 DEF vars, ending, TxInv, BeforeOn, First, Off, Cancelled
  <2>2. CASE Setter
    <3>1. UNCHANGED <<direction, state, worker, applied, device, ending>>
      BY <2>2 DEF Setter
    <3> QED BY <3>1 DEF ending, TxInv, BeforeOn, First, Off, Cancelled
  <2>3. CASE Worker
    BY <2>3, ConfigureTx, OtherTx DEF Worker
  <2>4. CASE Throws \/ StopMessage \/ EmergencyFlags \/ Terminate \/ Work \/ StopStore
             \/ StopPost
    BY <2>4, OtherTx
  <2> QED BY <2>1, <2>2, <2>3, <2>4 DEF Next
<1>3. TxInv => TransmitterOff
  BY DEF TxInv, TransmitterOff, Over, Off, Closing
<1> QED BY <1>1, <1>2, <1>3, TypesHold, PTL DEF Spec

-----------------------------------------------------------------------------
(* The command mailbox.                                                      *)

\* The slot holds nothing older than the last command, up to the n-th, that
\* wrote it.
NotOlder(held, s, n) == \A k \in 1..n : s \in Writes(staged[k]) => held[s] >= k

\* The slots of a command are written before its counter is raised.
Mailbox ==
    /\ Len(staged) = IF setter = "idle" THEN cmdSeq ELSE cmdSeq + 1
    /\ \A s \in Slots : slot[s] <= Len(staged) /\ NotOlder(slot, s, cmdSeq)
    /\ setter = "lo" => staged[cmdSeq + 1] = "freq" /\ slot["hi"] = cmdSeq + 1
    /\ setter = "seq" => \A s \in Slots : NotOlder(slot, s, cmdSeq + 1)

\* The slots readCommand() has loaded in this attempt.
Loaded ==
    CASE worker = "lo" -> {"hi"}
      [] worker = "flags" -> {"hi", "lo"}
      [] worker \in Configuring \ {"hi", "lo", "flags"} -> Slots
      [] OTHER -> {}

Assembled ==
    /\ reg["seq"] <= cmdSeq /\ applied["seq"] <= cmdSeq
    /\ \A s \in Loaded : NotOlder(reg, s, reg["seq"])

MailInv == Mailbox /\ Assembled /\ UpToDate

LEMMA SetterMail ==
    ASSUME Types, MailInv, Setter
    PROVE  MailInv'
<1>1. /\ cmdSeq \in Nat \ {0} /\ Len(staged) \in Nat /\ slot \in [Slots -> Nat]
      /\ UNCHANGED <<worker, reg, applied>>
  BY DEF Types, Setter, reading
<1>2. \A kind \in Kinds : /\ Len(Append(staged, kind)) = Len(staged) + 1
                        /\ \A k \in 1..Len(staged) : Append(staged, kind)[k] = staged[k]
                        /\ Append(staged, kind)[Len(staged) + 1] = kind
  BY AppendProperties DEF Types
<1>3. /\ cmdSeq' >= cmdSeq
      /\ \A k \in 1..cmdSeq : staged'[k] = staged[k]
  <2>1. staged' = staged \/ \E kind \in Kinds : staged' = Append(staged, kind)
    BY DEF Setter, Stage, SetFrequencyHi, SetFrequencyLo, SetFlag, Publish, Kinds
  <2>2. cmdSeq <= Len(staged)
    BY <1>1 DEF MailInv, Mailbox
  <2>3. cmdSeq' = cmdSeq \/ cmdSeq' = cmdSeq + 1
    BY DEF Setter, Stage, SetFrequencyHi, SetFrequencyLo, SetFlag, Publish
  <2> QED BY <1>1, <1>2, <2>1, <2>2, <2>3
<1>4. Assembled' /\ UpToDate'
  <2>1. reg["seq"] \in Nat /\ applied["seq"] \in Nat
    BY DEF Types, Fields
  <2>2. Loaded' = Loaded
    BY <1>1 DEF Loaded
  <2>3. cmdSeq' \in Nat
    BY SetterTypes DEF Types
  <2>4. Assembled'
    BY <1>1, <1>3, <2>1, <2>2, <2>3 DEF MailInv, Assembled, NotOlder
  <2>5. UpToDate'
    BY <1>1, <1>3, <2>1 DEF MailInv, Assembled, UpToDate
  <2> QED BY <2>4, <2>5
<1>5. CASE SetFrequencyHi
  <2>1. /\ setter = "idle" /\ setter' = "lo" /\ cmdSeq' = cmdSeq /\ Len(staged) = cmdSeq
        /\ slot' = [slot EXCEPT !["hi"] = cmdSeq + 1] /\ staged' = Append(staged, "freq")
    BY <1>5 DEF SetFrequencyHi, Next1, MailInv, Mailbox
  <2>2. /\ Len(staged') = cmdSeq + 1 /\ staged'[cmdSeq + 1] = "freq" /\ slot'["hi"] = cmdSeq + 1
    BY <1>1, <1>2, <2>1 DEF Kinds, Slots
  <2>3. \A s \in Slots : slot'[s] <= cmdSeq + 1 /\ slot'[s] >= slot[s]
    BY <1>1, <2>1 DEF MailInv, Mailbox, Slots
  <2>4. \A s \in Slots : NotOlder(slot, s, cmdSeq)'
    BY <1>1, <1>3, <2>1, <2>3 DEF MailInv, Mailbox, NotOlder, Types
  <2> QED BY <1>4, <2>1, <2>2, <2>3, <2>4 DEF MailInv, Mailbox
<1>6. CASE SetFrequencyLo
  <2>1. /\ setter = "lo" /\ setter' = "seq" /\ cmdSeq' = cmdSeq /\ staged' = staged
        /\ Len(staged) = cmdSeq + 1 /\ slot' = [slot EXCEPT !["lo"] = cmdSeq + 1]
        /\ staged[cmdSeq + 1] = "freq" /\ slot["hi"] = cmdSeq + 1
    BY <1>6 DEF SetFrequencyLo, MailInv, Mailbox
  <2>2. \A s \in Slots : slot'[s] <= cmdSeq + 1 /\ slot'[s] >= slot[s]
    BY <1>1, <2>1 DEF MailInv, Mailbox, Slots
  <2>3. \A s \in Slots : NotOlder(slot, s, cmdSeq)'
    BY <1>1, <2>1, <2>2 DEF MailInv, Mailbox, NotOlder
  <2>4. \A s \in Writes("freq") : slot'[s] = cmdSeq + 1
    BY <1>1, <2>1 DEF Writes, Slots
  <2>5. \A s \in Slots : NotOlder(slot, s, cmdSeq + 1)'
    BY <1>1, <2>1, <2>3, <2>4 DEF NotOlder
  <2> QED BY <1>4, <2>1, <2>2, <2>3, <2>5 DEF MailInv, Mailbox
<1>7. CASE SetFlag
  <2>1. /\ setter = "idle" /\ setter' = "seq" /\ cmdSeq' = cmdSeq /\ Len(staged) = cmdSeq
        /\ slot' = [slot EXCEPT !["flags"] = cmdSeq + 1] /\ staged' = Append(staged, "flags")
    BY <1>7 DEF SetFlag, Next1, MailInv, Mailbox
  <2>2. Len(staged') = cmdSeq + 1 /\ staged'[cmdSeq + 1] = "flags"
    BY <1>1, <1>2, <2>1 DEF Kinds
  <2>3. \A s \in Slots : slot'[s] <= cmdSeq + 1 /\ slot'[s] >= slot[s]
    BY <1>1, <2>1 DEF MailInv, Mailbox, Slots
  <2>4. \A s \in Slots : NotOlder(slot, s, cmdSeq)'
    BY <1>1, <1>3, <2>1, <2>3 DEF MailInv, Mailbox, NotOlder, Types
  <2>5. \A s \in Writes("flags") : slot'[s] = cmdSeq + 1
    BY <1>1, <2>1 DEF Writes, Slots
  <2>6. \A s \in Slots : NotOlder(slot, s, cmdSeq + 1)'
    BY <1>1, <2>1, <2>2, <2>4, <2>5 DEF NotOlder
  <2> QED BY <1>4, <2>1, <2>2, <2>3, <2>4, <2>6 DEF MailInv, Mailbox
<1>8. CASE Publish
  <2>1. /\ setter = "seq" /\ setter' = "idle" /\ cmdSeq' = cmdSeq + 1
        /\ UNCHANGED <<slot, staged>> /\ Len(staged) = cmdSeq + 1
    BY <1>8 DEF Publish, MailInv, Mailbox
  <2>2. \A s \in Slots : NotOlder(slot, s, cmdSeq)'
    BY <2>1 DEF MailInv, Mailbox, NotOlder
  <2> QED BY <1>4, <2>1, <2>2 DEF MailInv, Mailbox
<1> QED BY <1>5, <1>6, <1>7, <1>8 DEF Setter, Stage

\* Whoever is not a setter leaves the mailbox alone.
LEMMA OthersMail ==
    ASSUME Types, MailInv, [Next]_vars, ~Setter
    PROVE  UNCHANGED mailbox
  BY DEF Next, vars, Worker, OpenDevice, Configure, ReadSeq, Read, ReadSlot, Recheck, SafeMode,
         SafeFlags, Tune, Power, Request, Stream, TransmitterOn, PrefillCancelled, Running, Loop,
         Refill, Transferred, Finish, CloseMode, CloseFlags, Release, Throws, StopMessage,
         EmergencyFlags, Terminate, Work, StopStore, StopPost

LEMMA MailStep ==
    ASSUME Types, MailInv, [Next]_vars
    PROVE  MailInv'
<1>1. CASE Setter
  BY <1>1, SetterMail
<1>2. ASSUME ~Setter
      PROVE  MailInv'
  <2>1. UNCHANGED <<slot, cmdSeq, staged, setter>> /\ Mailbox'
    BY <1>2, OthersMail DEF mailbox, MailInv, Mailbox, NotOlder
  <2>2. cmdSeq \in Nat /\ reg \in [Fields -> Nat] /\ applied \in [Fields -> Nat]
    BY DEF Types
  <2>3. CASE ReadSeq \/ (worker = "recheck" /\ Recheck)
    <3>1. applied' = applied
      BY <2>3 DEF ReadSeq, Recheck
    <3>2. \/ reg' = [reg EXCEPT !["seq"] = cmdSeq] /\ Loaded' = {}
          \/ reg' = reg /\ Loaded' \subseteq Loaded
      BY <2>3 DEF ReadSeq, Recheck, Accept, Reread, GiveUp, Goto, AfterConfiguration, Loaded,
                  Configuring, reading
    <3> QED BY <2>1, <2>2, <3>1, <3>2 DEF MailInv, Assembled, UpToDate, NotOlder, Fields
  <2>4. ASSUME NEW s \in Slots, NEW following, ReadSlot(s, following),
               <<s, following>> \in {<<"hi", "lo">>, <<"lo", "flags">>, <<"flags", "recheck">>}
        PROVE  MailInv'
    <3>1. /\ applied' = applied /\ reg' = [reg EXCEPT ![s] = slot[s]]
          /\ Loaded' = Loaded \cup {s}
      BY <2>4 DEF ReadSlot, Goto, Loaded, Configuring, Slots
    <3>2. NotOlder(slot, s, reg["seq"])
      BY <2>2 DEF MailInv, Mailbox, Assembled, NotOlder, Fields
    <3>3. \A r \in Loaded' : NotOlder(reg, r, reg["seq"])'
      BY <2>1, <2>2, <3>1, <3>2 DEF MailInv, Assembled, NotOlder, Fields, Slots
    <3>4. reg'["seq"] = reg["seq"]
      BY <2>2, <3>1 DEF Fields, Slots
    <3> QED BY <2>1, <3>1, <3>3, <3>4 DEF MailInv, Assembled, UpToDate
  <2>5. CASE Power
    <3>1. applied' = reg /\ reg' = reg /\ Loaded = Slots /\ Loaded' = {}
      BY <2>5 DEF Power, Goto, AfterConfiguration, Loaded, Configuring, reading
    <3> QED BY <2>1, <2>2, <3>1 DEF MailInv, Assembled, UpToDate, NotOlder, Fields
  <2>6. CASE UNCHANGED <<reg, applied>> /\ Loaded' \subseteq Loaded
    BY <2>1, <2>6 DEF MailInv, Assembled, UpToDate, NotOlder
  <2>7. \/ ReadSeq \/ (worker = "recheck" /\ Recheck) \/ Power
        \/ ReadSlot("hi", "lo") \/ ReadSlot("lo", "flags") \/ ReadSlot("flags", "recheck")
        \/ UNCHANGED <<reg, applied>> /\ Loaded' \subseteq Loaded
    <3>1. CASE UNCHANGED vars
      BY <3>1 DEF vars, reading, Loaded
    <3>2. CASE Configure
      <4>1. CASE SafeMode \/ SafeFlags \/ Tune
        BY <4>1 DEF SafeMode, SafeFlags, Tune, Request, Goto, reading, Loaded, Configuring
      <4> QED BY <3>2, <4>1 DEF Configure, Read, Recheck
    <3>3. CASE OpenDevice \/ Stream \/ Transferred \/ Finish \/ Throws \/ Terminate
      <4>1. UNCHANGED <<reg, applied>>
        BY <3>3 DEF OpenDevice, Stream, TransmitterOn, PrefillCancelled, Running, Loop, Refill,
                    Transferred, Finish, CloseMode, CloseFlags, Request, Release, Throws,
                    Terminate, reading
      <4>2. worker' \notin Configuring
        BY <3>3 DEF OpenDevice, Stream, TransmitterOn, PrefillCancelled, Running, Loop, Refill,
                    Transferred, Finish, CloseMode, CloseFlags, Request, Release, Throws,
                    Terminate, Goto, Configuring
      <4> QED BY <4>1, <4>2 DEF Loaded, Configuring
    <3>4. CASE StopMessage \/ EmergencyFlags \/ Work \/ StopStore \/ StopPost
      BY <3>4 DEF StopMessage, EmergencyFlags, Work, StopStore, StopPost, reading, Loaded
    <3> QED BY <1>2, <3>1, <3>2, <3>3, <3>4 DEF Next, Worker
  <2> QED BY <2>3, <2>4, <2>5, <2>6, <2>7 DEF Slots
<1> QED BY <1>1, <1>2

\* What the radio has, from the first transfer of the configuration to the next.
Effect ==
    /\ worker \in {"open", "safe", "safeFlags"} => First
    /\ InEffect
    /\ worker = "power" /\ emergency = "none" =>
         /\ device.hi = reg.hi /\ device.lo = reg.lo
         /\ ~First => device.flags = applied.flags

LEMMA EffectStep ==
    ASSUME Types, Effect, [Next]_vars
    PROVE  Effect'
<1> USE DEF Types, Settings, Fields
<1>1. ASSUME UNCHANGED <<applied, emergency>>, device.hi = device'.hi, device.lo = device'.lo,
             device.flags = device'.flags, worker' # "power",
             worker' \in Steady => worker \in Steady,
             worker' \in {"open", "safe", "safeFlags"} => First
      PROVE  Effect'
  BY <1>1 DEF Effect, InEffect, First
<1>2. CASE UNCHANGED <<applied, reg, device, worker, emergency>>
  BY <1>2 DEF Effect, InEffect, First
<1>3. CASE OpenDevice \/ SafeMode \/ SafeFlags
  <2>1. First /\ applied' = applied
    BY <1>3 DEF OpenDevice, SafeMode, SafeFlags, Request, Effect
  <2>2. worker' \in {"config", "safeFlags", "tune"}
    BY <1>3 DEF OpenDevice, SafeMode, SafeFlags, Request, Goto
  <2> QED BY <2>1, <2>2 DEF Effect, InEffect, First
<1>4. CASE ReadSeq \/ Read
  <2>1. UNCHANGED <<applied, device, emergency>> /\ worker \in Steady
    BY <1>4 DEF ReadSeq, Read, ReadSlot, Recheck, ending, Steady
  <2>2. worker' \notin {"power", "open", "safeFlags"} /\ (worker' = "safe" => First)
    BY <1>4 DEF ReadSeq, Read, ReadSlot, Recheck, Accept, Reread, GiveUp, AfterConfiguration, Goto
  <2> QED BY <1>1, <2>1, <2>2
<1>5. CASE Tune
  <2>1. worker = "tune" /\ worker' = "power" /\ UNCHANGED <<applied, reg, emergency>>
        /\ device' = IF Changed("hi") \/ Changed("lo")
                     THEN [device EXCEPT !.hi = reg.hi, !.lo = reg.lo] ELSE device
    BY <1>5 DEF Tune, Request, Goto, reading, ending
  <2>2. emergency = "none" => /\ device'.hi = reg.hi /\ device'.lo = reg.lo
                              /\ ~First => device'.flags = applied.flags
    BY <2>1 DEF Effect, InEffect, Changed, Steady
  <2> QED BY <2>1, <2>2 DEF Effect, InEffect, First, Steady
<1>6. CASE Power
  <2>1. /\ worker = "power" /\ applied' = reg /\ UNCHANGED <<reg, emergency>>
        /\ device' = [device EXCEPT !.flags = IF Changed("flags") THEN reg.flags ELSE @,
                        !.mode = IF First /\ direction = "rx" THEN "rx" ELSE @]
    BY <1>6 DEF Power, reading, ending
  <2>2. worker' \notin {"power", "open", "safe", "safeFlags"}
    BY <1>6 DEF Power, Goto, AfterConfiguration
  <2>3. /\ device'.hi = device.hi /\ device'.lo = device.lo
        /\ device'.flags = IF Changed("flags") THEN reg.flags ELSE device.flags
    BY <2>1
  <2>4. emergency = "none" => device.hi = reg.hi /\ device.lo = reg.lo /\ device'.flags = reg.flags
    BY <2>1, <2>3 DEF Effect, Changed
  <2> QED BY <2>1, <2>2, <2>3, <2>4 DEF Effect, InEffect
<1>7. CASE Stream \/ Transferred \/ Finish \/ Throws \/ Terminate
  <2>1. /\ UNCHANGED <<applied, emergency>>
        /\ worker' \notin {"power", "open", "safe", "safeFlags"}
    BY <1>7 DEF Stream, TransmitterOn, PrefillCancelled, Running, Loop, Refill, Transferred, Finish,
                CloseMode, CloseFlags, Request, Release, Throws, Terminate, Goto, ending
  <2>2. CASE worker' \notin Steady
    BY <2>1, <2>2 DEF Effect, InEffect
  <2>3. CASE worker' \in Steady
    <3>1. Stream \/ Transferred
      BY <1>7, <2>3 DEF Finish, CloseMode, CloseFlags, Request, Release, Throws, Terminate, Goto,
                        Steady
    <3>2. worker \in Steady
      BY <3>1 DEF Stream, TransmitterOn, PrefillCancelled, Running, Loop, Refill, Transferred, Steady
    <3>3. device'.hi = device.hi /\ device'.lo = device.lo /\ device'.flags = device.flags
      BY <3>1 DEF Stream, TransmitterOn, PrefillCancelled, Running, Loop, Refill, Transferred
    <3> QED BY <1>1, <2>1, <3>2, <3>3
  <2> QED BY <2>2, <2>3
<1>8. CASE StopMessage \/ EmergencyFlags
  <2>1. /\ UNCHANGED <<applied, reg, worker>>
        /\ emergency' # "none" \/ UNCHANGED <<device, emergency>>
    BY <1>8 DEF StopMessage, EmergencyFlags, reading
  <2> QED BY <2>1 DEF Effect, InEffect, First
<1>9. Setter \/ Work \/ StopStore \/ StopPost \/ UNCHANGED vars
        => UNCHANGED <<applied, reg, device, worker, emergency>>
  BY DEF Setter, Work, StopStore, StopPost, vars, reading, ending
<1> QED BY <1>2, <1>3, <1>4, <1>5, <1>6, <1>7, <1>8, <1>9 DEF Next, Worker, Configure

\* What the worker acknowledges is in effect: for any number of commands and
\* attempts, no setting taken with a command is older than that command, and the
\* radio has what was taken though only differences are sent.
THEOREM Acknowledged == Spec => []AckedIsApplied
<1>1. Init => MailInv /\ Effect
  <2> SUFFICES ASSUME Init PROVE MailInv /\ Effect
    OBVIOUS
  <2>1. Loaded = {} /\ reg["seq"] = 0 /\ applied["seq"] = 0
    BY DEF Init, Loaded, Configuring, NoCommand
  <2>2. Len(staged) = 1 /\ \A s \in Slots : slot[s] = 1
    BY DEF Init
  <2>3. MailInv
    BY <2>1, <2>2 DEF Init, MailInv, Mailbox, Assembled, UpToDate, NotOlder
  <2> QED BY <2>3 DEF Init, Effect, InEffect, First
<1>2. Types /\ MailInv /\ [Next]_vars => MailInv'
  BY MailStep
<1>3. Types /\ Effect /\ [Next]_vars => Effect'
  BY EffectStep
<1>4. MailInv /\ Effect => AckedIsApplied
  BY DEF MailInv, Effect, AckedIsApplied
<1> QED BY <1>1, <1>2, <1>3, <1>4, TypesHold, PTL DEF Spec
-----------------------------------------------------------------------------
(* The stream.                                                               *)

\* The samples m+1 .. m+n in the order they were made.
Batch(m, n) == [i \in 1..n |-> m + i]

\* A stream of samples, each later than the one before it and none later than m.
Ordered(s, m) == \A i \in 1..Len(s) : s[i] > (IF i = 1 THEN 0 ELSE s[i - 1]) /\ s[i] <= m

StreamInv ==
    /\ ring \in Seq(Nat) /\ out \in Seq(Nat) /\ made \in Nat /\ lost \in Nat
    /\ Len(out \o ring) + lost = made
    /\ Ordered(out \o ring, made)
    /\ direction = "tx" /\ worker = "on" => Len(ring) >= Depth * Pairs

\* A batch in numbers.
LEMMA BatchIs ==
    ASSUME NEW m \in Nat, NEW n \in Nat
    PROVE  /\ Batch(m, n) \in Seq(Nat) /\ Len(Batch(m, n)) = n
           /\ \A i \in 1..n : Batch(m, n)[i] = m + i
  BY DEF Batch

\* More is made and delivered: the stream goes on with it.
LEMMA OrderedMore ==
    ASSUME NEW s \in Seq(Nat), NEW m \in Nat, NEW n \in Nat, Ordered(s, m)
    PROVE  /\ Len(s \o Batch(m, n)) = Len(s) + n
           /\ Ordered(s \o Batch(m, n), m + n)
<1> DEFINE t == s \o Batch(m, n)
<1>1. Len(s) \in Nat
  BY LenProperties
<1>2. /\ Len(t) = Len(s) + n
      /\ \A i \in 1..(Len(s) + n) :
             t[i] = IF i <= Len(s) THEN s[i] ELSE Batch(m, n)[i - Len(s)]
  <2>1. Batch(m, n) \in Seq(Nat) /\ Len(Batch(m, n)) = n
    BY BatchIs
  <2> HIDE DEF Batch
  <2>2. /\ Len(t) = Len(s) + Len(Batch(m, n))
        /\ \A i \in 1..(Len(s) + Len(Batch(m, n))) :
               t[i] = IF i <= Len(s) THEN s[i] ELSE Batch(m, n)[i - Len(s)]
    BY <2>1, ConcatProperties
  <2> QED BY <2>1, <2>2
<1> HIDE DEF t
<1>3. ASSUME NEW i \in 1..Len(s) PROVE t[i] = s[i]
  BY <1>1, <1>2
<1>4. ASSUME NEW i \in 1..n PROVE t[Len(s) + i] = m + i
  <2>1. Len(s) + i \in 1..(Len(s) + n) /\ ~(Len(s) + i <= Len(s)) /\ (Len(s) + i) - Len(s) = i
    BY <1>1
  <2>2. t[Len(s) + i] = Batch(m, n)[(Len(s) + i) - Len(s)]
    BY <1>2, <2>1
  <2> QED BY <2>1, <2>2, BatchIs
<1>5. \A i \in 1..Len(s) : s[i] \in Nat
  BY ElementOfSeq
<1>6. ASSUME NEW i \in 1..Len(t)
      PROVE  t[i] > (IF i = 1 THEN 0 ELSE t[i - 1]) /\ t[i] <= m + n
  <2>1. CASE i <= Len(s)
    <3>1. t[i] = s[i] /\ (i # 1 => t[i - 1] = s[i - 1] /\ s[i - 1] \in Nat) /\ s[i] \in Nat
      BY <1>1, <1>3, <1>5, <2>1
    <3>2. s[i] > (IF i = 1 THEN 0 ELSE s[i - 1]) /\ s[i] <= m
      BY <1>1, <2>1 DEF Ordered
    <3> QED BY <3>1, <3>2
  <2>2. CASE i > Len(s)
    <3>1. i - Len(s) \in 1..n /\ Len(s) + (i - Len(s)) = i
      BY <1>1, <1>2, <2>2
    <3>2. t[i] = m + (i - Len(s))
      BY <1>4, <3>1
    <3>3. i # 1 => t[i - 1] < t[i]
      <4>1. CASE i - 1 = Len(s) /\ i # 1
        <5>1. t[i - 1] = s[i - 1] /\ s[i - 1] <= m /\ s[i - 1] \in Nat
          BY <1>1, <1>3, <1>5, <4>1 DEF Ordered
        <5> QED BY <1>1, <3>1, <3>2, <5>1
      <4>2. CASE i - 1 > Len(s)
        <5>1. (i - 1) - Len(s) \in 1..n /\ Len(s) + ((i - 1) - Len(s)) = i - 1
          BY <1>1, <1>2, <4>2
        <5>2. t[i - 1] = m + ((i - 1) - Len(s))
          BY <1>4, <5>1
        <5> QED BY <1>1, <3>1, <3>2, <5>2
      <4> QED BY <1>1, <2>2, <4>1, <4>2
    <3> QED BY <1>1, <3>1, <3>2, <3>3
  <2> QED BY <1>1, <2>1, <2>2
<1> QED BY <1>2, <1>6 DEF Ordered, t

\* What is dropped leaves the stream in order.
LEMMA OrderedStill ==
    ASSUME NEW s \in Seq(Nat), NEW m \in Nat, NEW n \in Nat, Ordered(s, m)
    PROVE  Ordered(s, m + n)
<1>1. \A i \in 1..Len(s) : s[i] \in Nat
  BY ElementOfSeq
<1> QED BY <1>1 DEF Ordered

\* The library's law, for numbers.
LEMMA Associative == \A p, q, r \in Seq(Nat) : (p \o q) \o r = p \o (q \o r)
  BY ConcatAssociative, SMTT(30)

\* What leaves the ring at its front and arrives past it does not change the stream.
LEMMA Moved ==
    ASSUME NEW q \in Seq(Nat), NEW r \in Seq(Nat), NEW k \in 0..Len(r)
    PROVE  /\ SubSeq(r, 1, k) \in Seq(Nat) /\ SubSeq(r, k + 1, Len(r)) \in Seq(Nat)
           /\ q \o SubSeq(r, 1, k) \in Seq(Nat)
           /\ (q \o SubSeq(r, 1, k)) \o SubSeq(r, k + 1, Len(r)) = q \o r
<1>1. Len(r) \in Nat /\ \A i \in 1..Len(r) : r[i] \in Nat
  BY LenProperties, ElementOfSeq
<1>2. SubSeq(r, 1, k) \in Seq(Nat)
  BY <1>1, SubSeqProperties
<1>3. SubSeq(r, k + 1, Len(r)) \in Seq(Nat)
  BY <1>1, SubSeqProperties
<1>4. SubSeq(r, 1, k) \o SubSeq(r, k + 1, Len(r)) = SubSeq(r, 1, Len(r))
  <2>1. 1 \in 1..(Len(r) + 1) /\ k \in (1 - 1)..Len(r) /\ Len(r) \in k..Len(r)
    BY <1>1
  <2> QED BY <2>1, ConcatAdjacentSubSeq
<1>5. @ = r
  BY SubSeqFull
<1> DEFINE front == SubSeq(r, 1, k)
           rest == SubSeq(r, k + 1, Len(r))
<1>6. front \in Seq(Nat) /\ rest \in Seq(Nat) /\ front \o rest = r
  BY <1>2, <1>3, <1>4, <1>5
<1> HIDE DEF front, rest
<1>7. q \o front \in Seq(Nat)
  BY <1>6, ConcatProperties
<1>8. (q \o front) \o rest = q \o (front \o rest)
  <2>1. q \in Seq(Nat) /\ front \in Seq(Nat) /\ rest \in Seq(Nat)
    BY <1>6
  <2> QED BY <2>1, Associative, Zenon
<1>9. @ = q \o r
  BY <1>6
<1> QED BY <1>6, <1>7, <1>8, <1>9 DEF front, rest

\* takeTx() takes what the ring holds, when it holds that much.
LEMMA TakeMoves ==
    ASSUME StreamInv, NEW n \in Nat, n * Pairs <= Len(ring), Take(n)
    PROVE  /\ ring' \in Seq(Nat) /\ out' \in Seq(Nat) /\ UNCHANGED <<made, lost>>
           /\ out' \o ring' = out \o ring
<1> DEFINE k == n * Pairs
           taken == [i \in 1..k |-> IF i <= Len(ring) THEN ring[i] ELSE 0]
<1>1. k \in 0..Len(ring) /\ Len(ring) \in Nat /\ \A i \in 1..Len(ring) : ring[i] \in Nat
  <2>1. ring \in Seq(Nat)
    BY DEF StreamInv
  <2>2. Len(ring) \in Nat /\ \A i \in 1..Len(ring) : ring[i] \in Nat
    BY <2>1, LenProperties, ElementOfSeq
  <2>3. Pairs \in Nat
    BY SizeAssumption DEF SizeAssumption
  <2>4. k \in Nat
    BY <2>3
  <2> QED BY <2>2, <2>4
<1>2. ring' = SubSeq(ring, k + 1, Len(ring)) /\ out' = out \o taken /\ UNCHANGED <<made, lost>>
  BY DEF Take
<1> HIDE DEF k
<1>3. taken \in Seq(Nat) /\ Len(taken) = k /\ \A i \in 1..k : taken[i] = ring[i]
  BY <1>1
<1>4. /\ SubSeq(ring, 1, k) \in Seq(Nat) /\ Len(SubSeq(ring, 1, k)) = k
      /\ \A i \in 1..k : SubSeq(ring, 1, k)[i] = ring[i]
  BY <1>1, SubSeqProperties
<1> HIDE DEF taken
<1>5. taken = SubSeq(ring, 1, k)
  BY <1>1, <1>3, <1>4, SeqEqual
<1> QED BY <1>1, <1>2, <1>5, Moved DEF StreamInv

\* deliverRx() and the block's work() put whole batches into the ring.
LEMMA PutAppends ==
    ASSUME StreamInv, NEW n \in Nat, ring' = ring \o Batch(made, n), made' = made + n,
           UNCHANGED <<out, lost>>
    PROVE  /\ ring' \in Seq(Nat) /\ made' \in Nat
           /\ Len(out' \o ring') + lost' = made' /\ Ordered(out' \o ring', made')
           /\ Len(ring') >= Len(ring)
<1>1. Batch(made, n) \in Seq(Nat) /\ Len(Batch(made, n)) = n
  BY BatchIs DEF StreamInv
<1>2. ring' \in Seq(Nat) /\ Len(ring') = Len(ring) + n
  BY <1>1, ConcatProperties DEF StreamInv
<1>3. out' \o ring' = (out \o ring) \o Batch(made, n)
  <2> DEFINE new == Batch(made, n)
  <2>1. out \in Seq(Nat) /\ ring \in Seq(Nat) /\ new \in Seq(Nat)
    BY <1>1 DEF StreamInv
  <2>2. out' \o ring' = out \o (ring \o new)
    OBVIOUS
  <2> HIDE DEF new
  <2>3. out \o (ring \o new) = (out \o ring) \o new
    BY <2>1, Associative, Zenon
  <2> QED BY <2>2, <2>3 DEF new
<1>4. out \o ring \in Seq(Nat)
  BY ConcatProperties DEF StreamInv
<1>5. Len(out' \o ring') = Len(out \o ring) + n /\ Ordered(out' \o ring', made + n)
  <2>1. made \in Nat /\ Ordered(out \o ring, made)
    BY DEF StreamInv
  <2> DEFINE s == out \o ring
  <2>2. s \in Seq(Nat) /\ Ordered(s, made)
    BY <1>4, <2>1
  <2> HIDE DEF s
  <2>3. Len(s \o Batch(made, n)) = Len(s) + n /\ Ordered(s \o Batch(made, n), made + n)
    BY <2>1, <2>2, OrderedMore
  <2> QED BY <1>3, <2>3 DEF s
<1>6. Len(out \o ring) \in Nat /\ Len(ring) \in Nat
  BY <1>4, LenProperties DEF StreamInv
<1>7. lost' = lost /\ lost \in Nat /\ made \in Nat /\ Len(out \o ring) + lost = made
  BY DEF StreamInv
<1>8. Len(out' \o ring') + lost' = made' /\ made' \in Nat
  BY <1>5, <1>6, <1>7
<1>9. Ordered(out' \o ring', made')
  BY <1>5
<1>10. Len(ring') >= Len(ring)
  BY <1>2, <1>6
<1> QED BY <1>2, <1>8, <1>9, <1>10

\* Nothing of the stream changes, or it moves on.
LEMMA StreamStep ==
    ASSUME StreamInv, [Next]_vars
    PROVE  StreamInv'
<1>1. direction' = direction
  BY DEF Next, Setter, Worker, OpenDevice, Configure, ReadSeq, Read, ReadSlot, Recheck, SafeMode,
         SafeFlags, Tune, Request, Power, Stream, TransmitterOn, PrefillCancelled, Running, Loop,
         Refill, Transferred, Finish, CloseMode, CloseFlags, Release, Throws, StopMessage,
         EmergencyFlags, Terminate, Work, StopStore, StopPost, vars
<1>2. ASSUME UNCHANGED stream,
             worker' = "on" => direction = "rx" \/ worker = "on" \/ Len(ring) >= Depth * Pairs
      PROVE  StreamInv'
  BY <1>1, <1>2 DEF StreamInv, stream
<1>3. CASE Setter \/ StopMessage \/ EmergencyFlags \/ StopStore \/ StopPost \/ UNCHANGED vars
  BY <1>2, <1>3 DEF Setter, StopMessage, EmergencyFlags, StopStore, StopPost, vars
<1>4. CASE OpenDevice \/ Configure \/ PrefillCancelled \/ Loop \/ Finish \/ Throws \/ Terminate
  <2>1. UNCHANGED stream
    BY <1>4 DEF OpenDevice, Configure, ReadSeq, Read, ReadSlot, Recheck, SafeMode, SafeFlags, Tune,
                Request, Power, PrefillCancelled, Loop, Finish, CloseMode, CloseFlags, Release,
                Throws, Terminate
  <2>2. worker' = "on" => direction = "rx"
    BY <1>4 DEF OpenDevice, Configure, ReadSeq, Read, ReadSlot, Recheck, Accept, Reread, GiveUp,
                SafeMode, SafeFlags, Tune, Request, Power, PrefillCancelled, Loop, Finish,
                CloseMode, CloseFlags, Release, Throws, Terminate, Goto, AfterConfiguration
  <2> QED BY <1>2, <2>1, <2>2
<1>5. CASE TransmitterOn
  BY <1>2, <1>5 DEF TransmitterOn
<1>6. CASE Running
  <2>1. worker = "on" /\ worker' = "loop"
    BY <1>6 DEF Running, Goto
  <2>2. CASE direction = "tx"
    <3>1. Take(Depth) /\ Depth \in Nat /\ Depth * Pairs <= Len(ring)
      BY <1>6, <2>1, <2>2, SizeAssumption DEF Running, StreamInv, SizeAssumption
    <3> QED BY <2>1, <3>1, TakeMoves DEF StreamInv
  <2>3. CASE direction # "tx"
    BY <1>2, <1>6, <2>1, <2>3 DEF Running
  <2> QED BY <2>2, <2>3
<1>7. CASE Refill
  <2>1. worker' # "on"
    BY <1>7 DEF Refill, Goto
  <2>2. CASE Len(ring) < Pairs
    BY <1>2, <1>7, <2>1, <2>2 DEF Refill
  <2>3. CASE ~(Len(ring) < Pairs)
    <3>1. Take(1) /\ 1 * Pairs <= Len(ring)
      BY <1>7, <2>3, SizeAssumption DEF Refill, SizeAssumption, StreamInv
    <3> QED BY <2>1, <3>1, TakeMoves DEF StreamInv
  <2> QED BY <2>2, <2>3
<1>8. CASE Transferred
  <2>1. worker' # "on"
    BY <1>8 DEF Transferred, Goto
  <2>2. CASE UNCHANGED stream
    BY <1>2, <2>1, <2>2
  <2>3. ASSUME NEW n \in {0, Pairs - 1, Pairs}, Deliver(n) PROVE StreamInv'
    <3>1. n \in Nat /\ made' = made + n /\ out' = out
      BY <2>3, SizeAssumption DEF SizeAssumption, Deliver
    <3>2. CASE n <= Free
      BY <2>1, <2>3, <3>1, <3>2, PutAppends DEF Deliver, Batch, StreamInv
    <3>3. CASE ~(n <= Free)
      <4>1. ring' = ring /\ lost' = lost + n
        BY <2>3, <3>3 DEF Deliver
      <4>2. out \o ring \in Seq(Nat) /\ Len(out \o ring) \in Nat
        BY ConcatProperties, LenProperties DEF StreamInv
      <4>4. Ordered(out \o ring, made + n)
        BY <3>1, <4>2, OrderedStill DEF StreamInv
      <4> QED BY <2>1, <3>1, <4>1, <4>2, <4>4 DEF StreamInv
    <3> QED BY <3>2, <3>3
  <2> QED BY <1>8, <2>2, <2>3 DEF Transferred
<1>9. CASE Work
  <2>1. worker' = worker
    BY <1>9 DEF Work
  <2>2. CASE Put
    <3>1. PICK n \in 1..Free : ring' = ring \o Batch(made, n) /\ made' = made + n
      BY <2>2 DEF Put, Batch
    <3>2. n \in Nat /\ UNCHANGED <<out, lost>>
      BY <2>2, SizeAssumption, LenProperties DEF Put, Free, StreamInv, SizeAssumption
    <3>3. Depth * Pairs \in Nat
      BY SizeAssumption DEF SizeAssumption
    <3>4. ring \in Seq(Nat) /\ ring' \in Seq(Nat)
      BY <3>1, <3>2, PutAppends DEF StreamInv
    <3>5. Len(ring) \in Nat /\ Len(ring') \in Nat
      BY <3>4, LenProperties
    <3> QED BY <1>1, <2>1, <3>1, <3>2, <3>3, <3>5, PutAppends DEF StreamInv
  <2>3. CASE Get
    <3>1. PICK n \in 1..Len(ring) : /\ out' = out \o SubSeq(ring, 1, n)
                                    /\ ring' = SubSeq(ring, n + 1, Len(ring))
      BY <2>3 DEF Get
    <3>2. n \in 0..Len(ring) /\ direction = "rx" /\ UNCHANGED <<made, lost>>
      BY <2>3, LenProperties DEF Get, StreamInv
    <3> QED BY <1>1, <3>1, <3>2, Moved DEF StreamInv
  <2>4. CASE WorkThrows
    BY <1>2, <2>1, <2>4 DEF WorkThrows
  <2> QED BY <1>9, <2>2, <2>3, <2>4 DEF Work
<1> QED BY <1>3, <1>4, <1>5, <1>6, <1>7, <1>8, <1>9 DEF Next, Worker, Stream

\* deliverRx(), takeTx(), put() and get(): what is past the ring and in it is in the
\* order it was made, each sample once, and what is missing is counted in LOST_SAMPLES.
THEOREM SamplesAccounted == Spec => []StreamAccounted
<1>1. Init => StreamInv
  <2> SUFFICES ASSUME Init PROVE StreamInv
    OBVIOUS
  <2>1. ring = <<>> /\ out = <<>> /\ made = 0 /\ lost = 0 /\ worker = "open"
    BY DEF Init
  <2>2. <<>> \in Seq(Nat) /\ (<<>> \o <<>>) = <<>> /\ Len(<<>>) = 0
    BY EmptySeq, ConcatEmptySeq
  <2> QED BY <2>1, <2>2 DEF StreamInv, Ordered
<1>2. StreamInv /\ [Next]_vars => StreamInv'
  BY StreamStep
<1>3. StreamInv => StreamAccounted
  BY DEF StreamInv, StreamAccounted, Ordered
<1> QED BY <1>1, <1>2, <1>3, PTL DEF Spec
=============================================================================
