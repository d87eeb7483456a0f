----------------------------- MODULE AudioCapture -----------------------------
(***************************************************************************)
(* One microphone capture: firmware/a04/src/aura_audio_zephyr.c with the   *)
(* storage owner loop, permission gate and interrupts of radio/src/main.c  *)
(* (the bench application has the same), over the contract of the          *)
(* microphone driver (Dmic) and the states of aura_recorder.c.             *)
(*                                                                         *)
(* Three actors interleave.  The owner thread starts a capture, moves      *)
(* blocks from the queue into the recorder and ends it.  The reader thread *)
(* takes blocks from the driver and publishes them in the queue.           *)
(* Interrupts deliver STOP and START lines and the privacy switch at any   *)
(* point; a section under irq_lock is one step.  A thread step makes at    *)
(* most one access that an interrupt could make differ.                    *)
(*                                                                         *)
(* A generation counter is modelled by whether it moved since it was       *)
(* sampled; that it could wrap around in between is left out.  A local     *)
(* variable, a deadline or a cancelled start is forgotten when nothing     *)
(* looks at it any more.                                                   *)
(***************************************************************************)
EXTENDS Naturals, Sequences

CONSTANTS
  Warmup,      \* clocked blocks that are discarded (4)
  QueueSize,   \* published blocks that may wait for the owner (16)
  MaxRequests, \* lines that may wait for the owner (2)
  MaxBlocks    \* blocks per capture that are considered

ASSUME CaptureAssumption ==
  /\ Warmup \in Nat /\ MaxBlocks \in Nat
  /\ QueueSize \in Nat \ {0} /\ MaxRequests \in Nat \ {0}

VARIABLES
  run, faulty, rx, seq, held,   \* the microphone driver
  pin,        \* the microphone-enable output
  switch,     \* the privacy switch permits audio
  edge,       \* the switch moved and its interrupt has not run yet
  audio,      \* struct aura_audio_zephyr
  queue,      \* published blocks, by their driver sequence number
  recorder,   \* recorder state and the blocks it accepted
  main,       \* capture_gate, startup_pending, cancellation, stop reply
  requests,   \* lines for the owner: "start", "stale" (cancelled) or "stop"
  owner,      \* where the owner thread is, and the fault it has read
  reader,     \* where the reader thread is, and the block in its hands
  cut         \* history: a privacy cutoff hit the capture between START and seal

Mic == INSTANCE Dmic

mic  == <<run, faulty, rx, seq, held>>
vars == <<mic, pin, switch, edge, audio, queue, recorder, main, requests, owner,
          reader, cut>>

Terminal == {"idle", "finalized", "interrupted", "failed"}

Init ==
  /\ Mic!Init
  /\ pin = FALSE /\ switch \in BOOLEAN /\ edge = FALSE
  /\ audio = [state |-> "idle", stop_kind |-> 0, fault |-> FALSE, ending |-> FALSE,
              enabled |-> FALSE, done |-> TRUE, quiescent |-> TRUE, late |-> FALSE,
              stop_moved |-> FALSE, cut_moved |-> FALSE,
              warmup |-> 0, expected |-> 0, published |-> 0]
  /\ queue = << >>
  /\ recorder = [state |-> "idle", blocks |-> << >>]
  /\ main = [gate |-> FALSE, startup |-> FALSE, cancelled |-> FALSE, reply |-> FALSE]
  /\ requests = << >>
  /\ owner = [at |-> "loop", fault |-> FALSE]
  /\ reader = [at |-> "idle", block |-> 0]
  /\ cut = FALSE

----------------------------------------------------------------------------
LatchFault(a) == [a EXCEPT !.fault = TRUE, !.stop_kind = 2]

\* Whether a generation moved matters only to a begin that has sampled it.
Sampled == owner.at \in {"check", "clear_fault", "clear_stop", "relatch"}
AskStop(a)    == [a EXCEPT !.stop_moved = Sampled,
                           !.stop_kind = IF @ = 0 THEN 1 ELSE @]

Permitted == main.gate /\ (main.startup => ~main.cancelled) /\ switch
Allowed   == ~audio.fault /\ Permitted

AudioPending == \/ audio.state \in {"starting", "capturing", "stopping"}
                \/ ~audio.done \/ queue # << >> \/ recorder.state = "recording"

Own(at)  == owner' = [owner EXCEPT !.at = at]
Go(at)   == reader' = [at |-> at, block |-> 0]

----------------------------------------------------------------------------
(* Interrupts.                                                             *)

Flip ==
  /\ switch' = ~switch /\ edge' = TRUE
  /\ UNCHANGED <<mic, pin, audio, queue, recorder, main, requests, owner, reader, cut>>

\* cancel_capture: every start that is waiting or under way is cancelled.
Cancel ==
  /\ main' = [main EXCEPT !.cancelled = main.startup]
  /\ requests' = [i \in DOMAIN requests |->
                    IF requests[i] = "start" THEN "stale" ELSE requests[i]]

\* Mutant of CutOff: the cutoff is no more than a request to stop.
CutOffStops(a) == [AskStop(a) EXCEPT !.cut_moved = Sampled]

\* aura_audio_zephyr_privacy_cutoff on the audio object.
CutOff(a) == [LatchFault(a) EXCEPT !.cut_moved = Sampled, !.stop_moved = Sampled]

PrivacyChanged ==
  /\ edge /\ edge' = FALSE
  /\ IF switch THEN UNCHANGED <<audio, pin, main, requests, cut>>
     ELSE /\ Cancel
          /\ audio' = CutOff(audio)
          /\ pin' = FALSE
          /\ cut' = (cut \/ owner.at \notin {"loop", "seal", "rest", "dispatch"} \/ ~audio.done)
  /\ UNCHANGED <<mic, switch, queue, recorder, owner, reader>>

\* A STOP line acts at once; it is queued for its reply if there is room.
StopLine ==
  /\ main' = [main EXCEPT !.cancelled = main.startup]
  /\ LET stale == [i \in DOMAIN requests |->
                     IF requests[i] = "start" THEN "stale" ELSE requests[i]]
     IN  requests' = IF Len(stale) < MaxRequests THEN Append(stale, "stop") ELSE stale
  /\ audio' = AskStop(audio)
  /\ UNCHANGED <<mic, pin, switch, edge, queue, recorder, owner, reader, cut>>

StartLine ==
  /\ Len(requests) < MaxRequests
  /\ requests' = Append(requests, "start")
  /\ UNCHANGED <<mic, pin, switch, edge, audio, queue, recorder, main, owner, reader, cut>>

----------------------------------------------------------------------------
(* The owner loop: time limit, service, rest, then one request.            *)

\* The capture reached its maximum length.
LimitReached ==
  /\ owner.at = "loop" /\ audio.state = "capturing"
  /\ audio' = AskStop(audio)
  /\ UNCHANGED <<mic, pin, switch, edge, queue, recorder, main, requests, owner,
                 reader, cut>>

\* A recorder that fails seals what it has, or is left with an open journal.
Broken(blocks) == {[state |-> s, blocks |-> blocks] : s \in {"interrupted", "failed"}}

Failing == audio' = LatchFault(audio) /\ pin' = FALSE

\* Mutant of Recorded: a block that the recorder refuses is forgotten.
RecordedOrNot(blocks) == \/ recorder' \in {recorder, [recorder EXCEPT !.blocks = blocks]}
                            /\ UNCHANGED <<audio, pin>>
                         \/ recorder' \in Broken(blocks) /\ Failing

\* The recorder takes the blocks it had with the new one, or fails.
Recorded(blocks) ==
  \/ recorder' = [recorder EXCEPT !.blocks = blocks] /\ UNCHANGED <<audio, pin>>
  \/ recorder' \in Broken(recorder.blocks) \cup Broken(blocks) /\ Failing

\* aura_audio_zephyr_service, first part: one message, then the journal.
Service ==
  /\ owner.at = "loop"
  /\ IF ~AudioPending \/ audio.state \in Terminal
     THEN Own("rest") /\ UNCHANGED <<queue, recorder, audio, pin>>
     ELSE LET one == IF queue = << >> THEN 0 ELSE 1
          IN  /\ Own("finish")
              /\ queue' = SubSeq(queue, one + 1, Len(queue))
              /\ IF recorder.state # "recording" THEN UNCHANGED <<recorder, audio, pin>>
                 ELSE Recorded(recorder.blocks \o SubSeq(queue, 1, one))
  /\ UNCHANGED <<mic, switch, edge, main, requests, reader, cut>>

\* Second part: when the reader is done and the queue is empty, read the fault.
Finish ==
  /\ owner.at = "finish"
  /\ owner' = IF ~audio.done \/ queue # << >> THEN [owner EXCEPT !.at = "rest"]
              ELSE [at |-> "seal", fault |-> audio.fault]
  /\ UNCHANGED <<mic, pin, switch, edge, audio, queue, recorder, main, requests,
                 reader, cut>>

\* Mutant of Clean: the latched fault is not looked at.
CleanAnyhow == audio.quiescent /\ audio.published = Len(recorder.blocks)

\* aura_recorder_stop: no fault, and the recorder is at the published watermark.
Clean == ~owner.fault /\ audio.quiescent /\ audio.published = Len(recorder.blocks)

Ended(r) == IF r \in {"finalized", "interrupted"} THEN r ELSE "failed"

Verdict(r) == IF ~audio.quiescent THEN "quarantined" ELSE Ended(r)

\* Third part: interrupt the recorder, or finalize it at the exact watermark.
Seal ==
  /\ owner.at = "seal"
  /\ owner' = [at |-> "rest", fault |-> FALSE]
  /\ IF recorder.state # "recording" THEN UNCHANGED recorder
     ELSE \/ recorder' \in Broken(recorder.blocks)
          \/ Clean /\ recorder' = [recorder EXCEPT !.state = "finalized"]
  /\ audio' = [audio EXCEPT !.state = Verdict(recorder'.state)]
  /\ cut' = FALSE
  /\ UNCHANGED <<mic, pin, switch, edge, queue, main, requests, reader>>

\* With nothing pending the gate closes and a STOP is answered.
Rest ==
  /\ owner.at = "rest"
  /\ Own("dispatch")
  /\ main' = IF AudioPending THEN main ELSE [main EXCEPT !.gate = FALSE, !.reply = FALSE]
  /\ UNCHANGED <<mic, pin, switch, edge, audio, queue, recorder, requests, reader, cut>>

Busy == AudioPending \/ recorder.state = "failed" \/ main.reply

\* dispatch, and the beginning of begin for a START that is not refused.
Dispatch ==
  /\ owner.at = "dispatch"
  /\ IF requests = << >>
     THEN Own("loop") /\ UNCHANGED <<main, audio, requests, cut>>
     ELSE /\ requests' = Tail(requests)
          /\ CASE Head(requests) = "stop" ->
                    /\ Own("loop")
                    /\ main' = [main EXCEPT !.reply = TRUE]
                    /\ audio' = IF main.reply THEN audio ELSE AskStop(audio)
                    /\ UNCHANGED cut
               [] Head(requests) # "stop" /\ (Busy \/ audio.state = "quarantined") ->
                    Own("loop") /\ UNCHANGED <<main, audio, cut>>
               [] OTHER ->
                    /\ Own("prepare")
                    /\ main' = [main EXCEPT !.gate = TRUE, !.startup = TRUE,
                                            !.cancelled = (Head(requests) = "stale")]
                    /\ cut' = FALSE
                    /\ UNCHANGED audio
  /\ UNCHANGED <<mic, pin, switch, edge, queue, recorder, reader>>

----------------------------------------------------------------------------
(* Starting a capture.  "return" is main's begin after a failure.           *)

Starting == {"prepare", "permit", "sample", "check", "clear_fault", "clear_stop",
             "relatch", "record", "configure", "power", "settle", "trigger",
             "undo", "enable", "enabled", "return"}

\* A permission check, then what may also fail (storage, configuration).
Passes(at, next, otherwise) ==
  /\ owner.at = at
  /\ \/ Permitted /\ Own(next)
     \/ Own(otherwise)

Prepare ==
  /\ \/ Passes("prepare", "permit", "return")
     \/ Passes("permit", "sample", "return")
  /\ UNCHANGED <<mic, pin, switch, edge, audio, queue, recorder, main, requests,
                 reader, cut>>

\* aura_audio_zephyr_begin: both generations are sampled, one after the other.
SampleStop ==
  /\ owner.at = "sample" /\ Own("check")
  /\ audio' = [audio EXCEPT !.stop_moved = FALSE]
  /\ UNCHANGED <<mic, pin, switch, edge, queue, recorder, main, requests, reader, cut>>

MayBegin == /\ audio.state \in Terminal /\ audio.done /\ audio.quiescent
            /\ queue = << >> /\ held = 0
            /\ Permitted

\* The privacy sample, the refusals and the reset of the driver's health.
CheckBegin ==
  /\ owner.at = "check"
  /\ audio' = [audio EXCEPT !.cut_moved = FALSE]
  /\ \/ MayBegin /\ Mic!Reset /\ Own("clear_fault")
     \/ ~(MayBegin /\ Mic!Drained) /\ Own("return") /\ UNCHANGED mic
  /\ UNCHANGED <<pin, switch, edge, queue, recorder, main, requests, reader, cut>>

ClearLatches ==
  /\ \/ /\ owner.at = "clear_fault" /\ Own("clear_stop")
        /\ audio' = [audio EXCEPT !.fault = FALSE]
     \/ /\ owner.at = "clear_stop" /\ Own("relatch")
        /\ audio' = [audio EXCEPT !.stop_kind = 0]
  /\ UNCHANGED <<mic, pin, switch, edge, queue, recorder, main, requests, reader, cut>>

\* What the clearing may have erased is latched again.
Relatch ==
  /\ owner.at = "relatch" /\ Own("record")
  /\ LET a == [audio EXCEPT !.cut_moved = FALSE, !.stop_moved = FALSE]
     IN  audio' = IF audio.cut_moved THEN LatchFault(a)
                  ELSE IF audio.stop_moved THEN [AskStop(a) EXCEPT !.stop_moved = FALSE]
                  ELSE a
  /\ UNCHANGED <<mic, pin, switch, edge, queue, recorder, main, requests, reader, cut>>

Fresh == [audio EXCEPT !.state = "starting", !.ending = FALSE, !.warmup = Warmup,
                       !.expected = 0, !.published = 0]

\* aura_recorder_start: it may ask for another try, or fail with an open journal.
Record ==
  /\ owner.at = "record"
  /\ \/ /\ Own("configure")
        /\ audio' = Fresh
        /\ recorder' = [state |-> "recording", blocks |-> << >>]
     \/ /\ owner' \in {[owner EXCEPT !.at = "permit"], [owner EXCEPT !.at = "return"]}
        /\ audio' = [Fresh EXCEPT !.state = "failed"]
        /\ UNCHANGED recorder
     \/ /\ Own("return")
        /\ audio' = [Fresh EXCEPT !.state = "failed"]
        /\ recorder' = [recorder EXCEPT !.state = "failed"]
  /\ UNCHANGED <<mic, pin, switch, edge, queue, main, requests, reader, cut>>

\* dmic_configure, and the permission that guarded_power_on reads unlocked.
ConfigureMic ==
  /\ owner.at = "configure"
  /\ \/ Mic!Configure /\ faulty' = FALSE /\ Allowed /\ Own("power")
     \/ Mic!Configure /\ Own("undo")
     \/ UNCHANGED mic /\ Own("undo")
  /\ UNCHANGED <<pin, switch, edge, audio, queue, recorder, main, requests, reader, cut>>

\* Mutant of PowerOn: stop and fault are not looked at under the lock.
PowerOnUnchecked ==
  /\ owner.at = "power"
  /\ pin' = TRUE /\ Own("settle")
  /\ UNCHANGED <<mic, switch, edge, audio, queue, recorder, main, requests, reader, cut>>

\* guarded_power_on: the decision and the pin are one locked section.
PowerOn ==
  /\ owner.at = "power"
  /\ IF audio.stop_kind # 0 \/ audio.fault
     THEN Own("undo") /\ UNCHANGED pin
     ELSE pin' = TRUE /\ Own("settle")
  /\ UNCHANGED <<mic, switch, edge, audio, queue, recorder, main, requests, reader, cut>>

Settled ==
  /\ owner.at = "settle"
  /\ Own(IF Allowed /\ audio.stop_kind = 0 THEN "trigger" ELSE "undo")
  /\ UNCHANGED <<mic, pin, switch, edge, audio, queue, recorder, main, requests,
                 reader, cut>>

Trigger ==
  /\ owner.at = "trigger"
  /\ \/ Mic!Start /\ run' = "on" /\ Own("enable")
     \/ Mic!Start /\ run' # "on" /\ Own("undo")
     \/ UNCHANGED mic /\ Own("undo")
  /\ UNCHANGED <<pin, switch, edge, audio, queue, recorder, main, requests, reader, cut>>

\* A failed start: latch, power off, stop the device, let the reader drain it.
Undo ==
  /\ owner.at = "undo" /\ Own("enabled")
  /\ audio' = [LatchFault(audio) EXCEPT !.ending = TRUE, !.late = FALSE,
                  !.state = "stopping", !.done = FALSE, !.quiescent = FALSE,
                  !.enabled = TRUE]
  /\ pin' = FALSE
  /\ main' = [main EXCEPT !.gate = FALSE]
  /\ Mic!Stop
  /\ UNCHANGED <<switch, edge, queue, recorder, requests, reader, cut>>

Enable ==
  /\ owner.at = "enable" /\ Own("enabled")
  /\ audio' = [audio EXCEPT !.done = FALSE, !.quiescent = FALSE, !.enabled = TRUE]
  /\ UNCHANGED <<mic, pin, switch, edge, queue, recorder, main, requests, reader, cut>>

\* main's begin returns to the loop: the gate stays open only after a success.
Return ==
  /\ owner.at \in {"enabled", "return"} /\ Own("loop")
  /\ main' = [main EXCEPT !.startup = FALSE, !.cancelled = FALSE,
                          !.gate = IF owner.at = "return" THEN FALSE ELSE @]
  /\ UNCHANGED <<mic, pin, switch, edge, audio, queue, recorder, requests, reader, cut>>

----------------------------------------------------------------------------
(* The reader thread.                                                      *)

\* begin_stop, on the audio object a.
StopDevice(a) ==
  /\ Mic!Stop
  /\ audio' = [a EXCEPT !.ending = TRUE, !.late = FALSE, !.state = "stopping"]
  /\ pin' = FALSE

\* The checks of aura_audio_zephyr_reader_step before it reads.
ReaderStep ==
  /\ reader.at = "idle" /\ audio.enabled
  /\ IF audio.ending THEN Go("drain") /\ UNCHANGED <<mic, audio, pin>>
     ELSE LET a == IF Allowed /\ ~faulty THEN audio ELSE LatchFault(audio)
          IN  IF a.stop_kind = 2 \/ (a.stop_kind = 1 /\ a.warmup > 0)
              THEN Go("drain") /\ StopDevice(a)
              ELSE Go("read") /\ UNCHANGED <<mic, audio, pin>>
  /\ UNCHANGED <<switch, edge, queue, recorder, main, requests, owner, cut>>

ReadBlock ==
  /\ reader.at \in {"read", "drain"} /\ Mic!Read
  /\ reader' = [at |-> "accept", block |-> Head(rx)]
  /\ UNCHANGED <<pin, switch, edge, audio, queue, recorder, main, requests, owner, cut>>

\* No block within 100 ms, or a device that has stopped.
ReadTimeout ==
  /\ reader.at = "read" /\ rx = << >>
  /\ audio' = LatchFault(audio) /\ Go("after")
  /\ UNCHANGED <<mic, pin, switch, edge, queue, recorder, main, requests, owner, cut>>

AfterBlock == Go(IF audio.ending THEN "drain" ELSE "after")

\* accept_buffer up to the conversion: discard, count down, or go on.
Accept ==
  /\ reader.at = "accept"
  /\ LET counted == [audio EXCEPT !.expected = reader.block]
     IN  \/ /\ faulty \/ reader.block # audio.expected + 1
            /\ audio' = LatchFault(audio) /\ Mic!Free /\ AfterBlock
         \/ /\ ~faulty /\ reader.block = audio.expected + 1
            /\ IF audio.stop_kind = 2 \/ ~Permitted
               THEN audio' = LatchFault(counted) /\ Mic!Free /\ AfterBlock
               ELSE IF audio.warmup > 0
               THEN /\ audio' = [counted EXCEPT !.warmup = @ - 1]
                    /\ Mic!Free /\ AfterBlock
               ELSE audio' = counted /\ UNCHANGED mic /\ reader' = [reader EXCEPT !.at = "publish"]
  /\ UNCHANGED <<pin, switch, edge, queue, recorder, main, requests, owner, cut>>

Put == /\ queue' = Append(queue, reader.block)
       /\ audio' = [audio EXCEPT !.published = @ + 1,
                                 !.state = IF audio.ending THEN @ ELSE "capturing"]

\* The last checks and the copy into the queue are one locked section.
Publish ==
  /\ reader.at = "publish" /\ Mic!Free /\ AfterBlock
  /\ IF ~Permitted \/ audio.stop_kind = 2 \/ audio.fault \/ faulty \/ Len(queue) = QueueSize
     THEN audio' = LatchFault(audio) /\ UNCHANGED queue
     ELSE Put
  /\ UNCHANGED <<pin, switch, edge, recorder, main, requests, owner, cut>>

AfterRead ==
  /\ reader.at = "after" /\ Go("idle")
  /\ IF audio.stop_kind # 0 THEN StopDevice(audio) ELSE UNCHANGED <<mic, audio, pin>>
  /\ UNCHANGED <<switch, edge, queue, recorder, main, requests, owner, cut>>

\* Mutant of DrainVerdict: the deadline is not looked at.
DrainVerdictWaits(a) ==
  /\ audio' = IF Mic!Drained
              THEN [a EXCEPT !.quiescent = TRUE, !.enabled = FALSE, !.done = TRUE]
              ELSE a
  /\ UNCHANGED pin

\* drain_stop with nothing left to read: quiescent, still waiting, or too late.
DrainVerdict(a) ==
  IF Mic!Drained
  THEN /\ audio' = [a EXCEPT !.quiescent = TRUE, !.enabled = FALSE, !.done = TRUE,
                             !.late = FALSE]
       /\ UNCHANGED pin
  ELSE IF a.late
  THEN /\ audio' = [LatchFault(a) EXCEPT !.state = "quarantined", !.enabled = FALSE,
                                         !.done = TRUE]
       /\ pin' = FALSE
  ELSE audio' = a /\ UNCHANGED pin

DrainStop ==
  /\ reader.at = "drain" /\ rx = << >> /\ Go("idle")
  /\ DrainVerdict(IF faulty THEN LatchFault(audio) ELSE audio)
  /\ UNCHANGED <<mic, switch, edge, queue, recorder, main, requests, owner, cut>>

\* 250 ms have passed since the stop began.
Deadline ==
  /\ audio.ending /\ audio.enabled /\ ~audio.late
  /\ audio' = [audio EXCEPT !.late = TRUE]
  /\ UNCHANGED <<mic, pin, switch, edge, queue, recorder, main, requests, owner,
                 reader, cut>>

Device ==
  /\ Mic!Device
  /\ UNCHANGED <<pin, switch, edge, audio, queue, recorder, main, requests, owner,
                 reader, cut>>

----------------------------------------------------------------------------
Begin  == \/ Prepare \/ SampleStop \/ CheckBegin \/ ClearLatches \/ Relatch \/ Record
          \/ ConfigureMic \/ PowerOn \/ Settled \/ Trigger \/ Undo \/ Enable \/ Return
Owner  == Service \/ Finish \/ Seal \/ Rest \/ Dispatch \/ Begin
Reader == \/ ReaderStep \/ ReadBlock \/ ReadTimeout \/ Accept \/ Publish
          \/ AfterRead \/ DrainStop

Next == \/ Flip \/ PrivacyChanged \/ StopLine \/ StartLine
        \/ LimitReached \/ Owner \/ Reader \/ Deadline \/ Device

Spec == Init /\ [][Next]_vars

\* Both threads keep running and time passes; an interrupt line may stay quiet.
FairSpec == Spec /\ WF_vars(Owner) /\ WF_vars(Reader) /\ WF_vars(Deadline)

----------------------------------------------------------------------------
Audio == [state : Terminal \cup {"starting", "capturing", "stopping", "quarantined"},
          stop_kind : 0 .. 2, fault : BOOLEAN, ending : BOOLEAN,
          enabled : BOOLEAN, done : BOOLEAN, quiescent : BOOLEAN, late : BOOLEAN,
          stop_moved : BOOLEAN, cut_moved : BOOLEAN, warmup : 0 .. Warmup,
          expected : 0 .. MaxBlocks, published : 0 .. MaxBlocks]

TypeOK ==
  /\ run \in {"on", "stopping", "off"} /\ faulty \in BOOLEAN
  /\ seq \in 0 .. MaxBlocks /\ held \in 0 .. 1
  /\ pin \in BOOLEAN /\ switch \in BOOLEAN /\ edge \in BOOLEAN /\ cut \in BOOLEAN
  /\ audio \in Audio
  /\ queue \in Seq(1 .. MaxBlocks) /\ Len(queue) <= QueueSize
  /\ recorder \in [state : {"idle", "recording", "finalized", "interrupted", "failed"},
                   blocks : Seq(1 .. MaxBlocks)]
  /\ main \in [gate : BOOLEAN, startup : BOOLEAN, cancelled : BOOLEAN, reply : BOOLEAN]
  /\ requests \in Seq({"start", "stale", "stop"}) /\ Len(requests) <= MaxRequests
  /\ owner \in [at : Starting \cup {"loop", "finish", "seal", "rest", "dispatch"},
                fault : BOOLEAN]
  /\ reader \in [at : {"idle", "read", "drain", "accept", "publish", "after"},
                 block : 0 .. MaxBlocks]

\* The privacy switch is the last writer: once its interrupt has run, the
\* microphone has no power, however a start was interleaved with it.
SwitchCutsPower == ~switch /\ ~edge => ~pin

\* A capture that has ended, in whatever way, has left the microphone off.
PowerOffAtRest == audio.state \in Terminal \cup {"quarantined"} => ~pin

\* A capture that a cutoff hit never ends as a clean one, whichever thread sees
\* the cutoff first.
CutIsInterrupted ==
  [][recorder'.state = "finalized" => recorder.state = "finalized" \/ ~cut]_recorder

\* The recorder and the queue always hold consecutive driver blocks.
Contiguous ==
  recorder.state = "recording" =>
    LET all == recorder.blocks \o queue
    IN  \A i \in DOMAIN all : all[i] = Warmup + i

\* When the adapter calls the driver quiescent, no DMA, clock or block is out,
\* so the next capture may take the same memory.
QuiescentIsDrained == audio.quiescent /\ owner.at \notin {"undo", "enable"} => Mic!Drained

\* The shape of the state, with the power, the order of blocks and the drained
\* device in it.
AudioInv == TypeOK /\ PowerOffAtRest /\ Contiguous /\ QuiescentIsDrained

\* A finalized capture holds every block the microphone completed after the
\* warmup: none lost, none left in a queue.
FinalizedIsComplete ==
  audio.state = "finalized" /\ owner.at \notin Starting =>
    /\ recorder.blocks = [i \in 1 .. Len(recorder.blocks) |-> Warmup + i]
    /\ Len(recorder.blocks) = IF seq > Warmup THEN seq - Warmup ELSE 0

\* Every stop, cutoff or fault ends the capture: the device is drained or put
\* in quarantine, the queue runs empty and the recorder is sealed.
StopEnds ==
  (audio.enabled /\ audio.stop_kind # 0) ~>
    (audio.state \in Terminal \cup {"quarantined"} /\ recorder.state # "recording")
===============================================================================
