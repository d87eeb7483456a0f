--------------------------- MODULE AudioCaptureProofs ---------------------------
(***************************************************************************)
(* A capture's inductive invariant, and what follows from it for every     *)
(* warmup, queue size, number of waiting lines and number of blocks: the   *)
(* switch wins over every start, the microphone is off at rest, what was   *)
(* cut off is interrupted and what is called finalized is complete.        *)
(***************************************************************************)
EXTENDS AudioCapture, SequenceTheorems, TLAPS

Block == 1 .. MaxBlocks

\* The start has looked at the switch and clears what was latched before.
Latching == {"clear_fault", "clear_stop", "relatch"}

\* The start has a recorder that is recording, and no reader yet.
Launching == {"configure", "power", "settle", "trigger", "undo", "enable"}

AtRest == Terminal \cup {"quarantined"}

\* The block that the reader holds: read but not counted, counted but not kept.
Read == IF reader.at = "accept" THEN 1 ELSE 0
Held == IF reader.at = "publish" THEN 1 ELSE 0

\* The blocks on their way from the driver to the queue.
Blocks ==
  /\ rx \in Seq(Block) /\ held = Read + Held
  /\ reader.at = "accept" => reader.block \in Block
  /\ reader.at = "publish" => reader.block = audio.expected
  /\ audio.published + Held <= audio.expected

\* Reader and start do not overlap, and a capture that rests has no reader.
Turns ==
  /\ audio.enabled <=> ~audio.done
  /\ reader.at # "idle" => audio.enabled
  /\ reader.at = "drain" => audio.ending
  /\ audio.quiescent => audio.done
  /\ audio.state \in AtRest => audio.done
  /\ audio.state = "quarantined" => ~audio.quiescent
  /\ audio.done /\ ~audio.quiescent => audio.state = "quarantined" /\ audio.fault
  /\ owner.at \in Starting \ {"enabled"} => audio.done
  /\ owner.at \in Starting \ (Launching \cup {"enabled"}) => audio.state \in Terminal
  /\ owner.at \in Latching \cup {"record"} \cup Launching => audio.quiescent /\ queue = << >>
  /\ owner.at \in Launching => audio.state = "starting" /\ ~audio.ending
  /\ owner.at \in {"finish", "seal"} => audio.state \notin Terminal
  /\ owner.at = "seal" => audio.done /\ queue = << >>

\* What the recorder does while a capture starts, runs and ends.
Recording ==
  /\ owner.at \in Launching => recorder = [state |-> "recording", blocks |-> << >>]
  /\ owner.at \in Starting \ (Launching \cup {"enabled"}) => recorder.state # "recording"
  /\ audio.state \notin AtRest => recorder.state \in {"recording", "interrupted", "failed"}

\* Power is on only for a start under way or a reader that has not begun to stop.
Powered ==
  pin => \/ owner.at \in {"settle", "trigger", "undo", "enable"}
         \/ audio.enabled /\ ~audio.ending

\* A switch that went off while a start is under way is latched until it is seen.
Switched ==
  /\ SwitchCutsPower
  /\ owner.at \in Latching /\ ~switch => edge \/ audio.cut_moved
  /\ owner.at \in {"record", "configure", "power"} /\ ~switch => edge \/ audio.fault

\* A cutoff is remembered as a cancelled start, a moved generation or a fault.
CutLatched ==
  /\ owner.at \in Starting => main.startup /\ (cut => main.cancelled)
  /\ owner.at \in Latching /\ cut => audio.cut_moved
  /\ cut => audio.fault \/ owner.at \in Latching
  /\ owner.at = "seal" /\ cut => owner.fault

\* Recorder and queue together hold consecutive blocks.
Consecutive ==
  recorder.state = "recording" =>
    /\ \A i \in 1 .. Len(recorder.blocks) : recorder.blocks[i] = Warmup + i
    /\ \A i \in 1 .. Len(queue) : queue[i] = Warmup + Len(recorder.blocks) + i

Kept == Len(recorder.blocks) + Len(queue)

\* Without a fault nothing is skipped: the blocks that are kept, in the reader's
\* hand and readable are those which the microphone completed after the warmup.
Tracked ==
  recorder.state = "recording" /\ ~audio.fault =>
    /\ audio.published = Kept
    /\ IF audio.warmup > 0
       THEN audio.expected + audio.warmup = Warmup /\ Kept = 0 /\ Held = 0
       ELSE audio.expected = Warmup + Kept + Held
    /\ ~faulty => /\ reader.at = "accept" => reader.block = audio.expected + 1
                  /\ seq = audio.expected + Read + Len(rx)
                  /\ \A i \in 1 .. Len(rx) : rx[i] = audio.expected + Read + i
    /\ audio.done /\ owner.at \notin {"undo", "enable"} => ~faulty

\* The blocks that a capture of n completed blocks is to hold.
Due(n) == IF n > Warmup THEN n - Warmup ELSE 0

\* The driver was reset for this start, and what is finalized is complete.
Complete ==
  /\ owner.at \in Latching \cup {"record"} => seq = 0 /\ ~faulty
  /\ owner.at = "seal" /\ ~owner.fault /\ recorder.state = "recording" /\ audio.quiescent =>
       Len(recorder.blocks) = Due(seq)
  /\ audio.state = "finalized" /\ owner.at \notin Latching \cup {"record"} =>
       /\ audio.quiescent
       /\ Len(recorder.blocks) = Due(seq)
       /\ \A i \in 1 .. Len(recorder.blocks) : recorder.blocks[i] = Warmup + i

CaptureIInv ==
  /\ TypeOK /\ QuiescentIsDrained /\ Blocks /\ Turns /\ Recording /\ Powered /\ Switched
  /\ CutLatched /\ Consecutive /\ Tracked /\ Complete

-----------------------------------------------------------------------------
USE DEF CaptureIInv, Starting, Terminal, Latching, Launching, AtRest, Read, Held

(* The fields of struct aura_audio_zephyr that its small functions change. *)

\* Everything the invariant speaks of but the latches.
Same(a, b) ==
  /\ a.state = b.state /\ a.ending = b.ending /\ a.enabled = b.enabled /\ a.done = b.done
  /\ a.quiescent = b.quiescent /\ a.warmup = b.warmup
  /\ a.expected = b.expected /\ a.published = b.published

\* A latched fault touches nothing but the fault and the kind of stop.
LEMMA LatchFields ==
  ASSUME NEW a \in Audio
  PROVE  /\ LatchFault(a) \in Audio /\ Same(LatchFault(a), a)
         /\ LatchFault(a).fault /\ LatchFault(a).cut_moved = a.cut_moved
<1>1. 2 \in 0 .. 2
  OBVIOUS
<1>2. LatchFault(a) \in Audio
  BY ONLY <1>1, a \in Audio DEF Audio, LatchFault
<1>3. Same(LatchFault(a), a)
  BY DEF Audio, LatchFault, Same
<1>4. LatchFault(a).fault /\ LatchFault(a).cut_moved = a.cut_moved
  BY DEF Audio, LatchFault
<1> QED BY <1>2, <1>3, <1>4

\* A cutoff latches the fault and marks the generation for a start under way.
LEMMA CutFields ==
  ASSUME NEW a \in Audio
  PROVE  /\ CutOff(a) \in Audio /\ Same(CutOff(a), a)
         /\ CutOff(a).fault /\ CutOff(a).cut_moved = Sampled
<1>1. Sampled \in BOOLEAN
  BY DEF Sampled
<1>2. LatchFault(a) \in Audio /\ Same(LatchFault(a), a) /\ LatchFault(a).fault
  BY LatchFields
<1>3. CutOff(a) \in Audio
  BY <1>1, <1>2 DEF Audio, CutOff
<1>4. Same(CutOff(a), a)
  BY <1>2 DEF Audio, CutOff, Same
<1>5. CutOff(a).fault /\ CutOff(a).cut_moved = Sampled
  BY <1>1, <1>2 DEF Audio, CutOff
<1> QED BY <1>3, <1>4, <1>5

\* A request to stop is no fault.
LEMMA AskFields ==
  ASSUME NEW a \in Audio
  PROVE  /\ AskStop(a) \in Audio /\ Same(AskStop(a), a)
         /\ AskStop(a).fault = a.fault /\ AskStop(a).cut_moved = a.cut_moved
<1>1. Sampled \in BOOLEAN
  BY DEF Sampled
<1>2. (IF a.stop_kind = 0 THEN 1 ELSE a.stop_kind) \in 0 .. 2
  BY DEF Audio
<1>3. AskStop(a) \in Audio
  BY ONLY <1>1, <1>2, a \in Audio DEF Audio, AskStop
<1>4. Same(AskStop(a), a)
  BY DEF Audio, AskStop, Same
<1>5. AskStop(a).fault = a.fault /\ AskStop(a).cut_moved = a.cut_moved
  BY DEF Audio, AskStop
<1> QED BY <1>3, <1>4, <1>5

\* A stop ends the capture and takes the power away.
LEMMA StopFields ==
  ASSUME NEW a \in Audio, StopDevice(a)
  PROVE  /\ audio' \in Audio /\ audio'.ending /\ audio'.state = "stopping"
         /\ audio'.enabled = a.enabled /\ audio'.done = a.done
         /\ audio'.quiescent = a.quiescent /\ audio'.warmup = a.warmup
         /\ audio'.expected = a.expected /\ audio'.published = a.published
         /\ audio'.fault = a.fault /\ audio'.cut_moved = a.cut_moved
         /\ ~pin' /\ Mic!Stop
BY DEF Audio, StopDevice

\* Cancelling waiting starts keeps the number of lines.
LEMMA CancelledLines ==
  ASSUME requests \in Seq({"start", "stale", "stop"})
  PROVE  LET stale == [i \in DOMAIN requests |->
                         IF requests[i] = "start" THEN "stale" ELSE requests[i]]
         IN  stale \in Seq({"start", "stale", "stop"}) /\ Len(stale) = Len(requests)
<1> DEFINE stale == [i \in DOMAIN requests |->
                       IF requests[i] = "start" THEN "stale" ELSE requests[i]]
<1>1. Len(requests) \in Nat /\ DOMAIN requests = 1 .. Len(requests)
  OBVIOUS
<1>2. stale \in [1 .. Len(requests) -> {"start", "stale", "stop"}]
  BY <1>1
<1>3. stale \in Seq({"start", "stale", "stop"})
  BY <1>1, <1>2, SeqDef
<1>4. Len(stale) = Len(requests)
  BY <1>1, <1>3
<1> QED BY <1>3, <1>4

\* The first block of the queue, if there is one, becomes the recorder's last.
LEMMA MovedBlocks ==
  ASSUME NEW q \in Seq(Block), NEW b \in Seq(Block), NEW one \in {0, 1}, one <= Len(q)
  PROVE  LET rest  == SubSeq(q, one + 1, Len(q))
             moved == b \o SubSeq(q, 1, one)
         IN  /\ rest \in Seq(Block) /\ Len(rest) = Len(q) - one
             /\ \A i \in 1 .. Len(rest) : rest[i] = q[i + one]
             /\ moved \in Seq(Block) /\ Len(moved) = Len(b) + one
             /\ \A i \in 1 .. Len(moved) :
                  moved[i] = IF i <= Len(b) THEN b[i] ELSE q[i - Len(b)]
<1>1. Len(q) \in Nat /\ Len(b) \in Nat
  OBVIOUS
<1> DEFINE rest == SubSeq(q, one + 1, Len(q))
           first == SubSeq(q, 1, one)
<1>2. /\ rest \in Seq(Block) /\ Len(rest) = Len(q) - one
      /\ \A i \in 1 .. Len(rest) : rest[i] = q[i + one]
  <2>1. CASE one = Len(q)
    BY <1>1, <2>1, SubSeqProperties
  <2>2. CASE one < Len(q)
    BY <1>1, <2>2, SubSeqProperties
  <2> QED BY <1>1, <2>1, <2>2
<1>3. /\ first \in Seq(Block) /\ Len(first) = one
      /\ \A i \in 1 .. one : first[i] = q[i]
  BY <1>1, SubSeqProperties
<1> HIDE DEF first, rest
<1>4. /\ b \o first \in Seq(Block) /\ Len(b \o first) = Len(b) + one
      /\ \A i \in 1 .. Len(b) + one :
           (b \o first)[i] = IF i <= Len(b) THEN b[i] ELSE first[i - Len(b)]
  BY <1>1, <1>3, ConcatProperties
<1>5. \A i \in 1 .. Len(b) + one : i <= Len(b) \/ i - Len(b) \in 1 .. one
  BY <1>1
<1> QED BY <1>1, <1>2, <1>3, <1>4, <1>5 DEF first, rest

\* Rearrangements of a length that grows by one.
LEMMA Counting ==
  ASSUME NEW w \in Nat, NEW a \in Nat, NEW b \in Nat
  PROVE  /\ a + (b + 1) = (a + b) + 1
         /\ w + (a + b) + 1 = w + a + (b + 1)
OBVIOUS

\* While the reader runs no capture starts, rests or is sealed.
LEMMA Reading ==
  ASSUME CaptureIInv, reader.at # "idle" \/ audio.enabled
  PROVE  /\ audio.enabled /\ ~audio.done /\ ~audio.quiescent /\ audio.state \notin AtRest
         /\ owner.at \notin Starting \ {"enabled"} /\ owner.at # "seal"
<1>1. audio.enabled /\ ~audio.done /\ ~audio.quiescent /\ audio.state \notin AtRest
  BY DEF Turns
<1>2. owner.at \notin Starting \ {"enabled"} /\ owner.at # "seal"
  BY <1>1 DEF Turns
<1> QED BY <1>1, <1>2

-----------------------------------------------------------------------------
(* One lemma per action.  Its step <1>1 says what the action does to the    *)
(* fields the invariant speaks of; the parts of the invariant follow, those *)
(* that the action hardly disturbs together and the others one by one.      *)

(* Interrupts. *)

LEMMA FlipStep ==
  ASSUME CaptureIInv, Flip
  PROVE  CaptureIInv'
<1>1. /\ switch' = ~switch /\ edge'
      /\ UNCHANGED <<run, faulty, rx, seq, held, pin, audio, queue, recorder, main,
                     requests, owner, reader, cut>>
  BY DEF Flip, mic
<1>2. TypeOK'
  BY <1>1 DEF TypeOK, Flip
<1>3. QuiescentIsDrained' /\ Blocks' /\ Turns' /\ Recording' /\ Powered' /\ Switched' /\
      CutLatched'
  BY <1>1 DEF QuiescentIsDrained, Mic!Drained, Blocks, Turns, Recording, Powered, Switched,
              SwitchCutsPower, CutLatched
<1>4. Consecutive' /\ Tracked' /\ Complete'
  BY <1>1 DEF Consecutive, Tracked, Kept, Complete, Due
<1> QED BY <1>2, <1>3, <1>4

LEMMA PrivacyChangedStep ==
  ASSUME CaptureIInv, PrivacyChanged
  PROVE  CaptureIInv'
<1>1. /\ audio' \in Audio /\ Same(audio', audio) /\ ~edge'
      /\ UNCHANGED <<run, faulty, rx, seq, held, switch, queue, recorder, owner, reader>>
      /\ \/ switch /\ UNCHANGED <<audio, pin, main, requests, cut>>
         \/ /\ ~switch /\ ~pin' /\ Cancel /\ audio'.fault /\ audio'.cut_moved = Sampled
            /\ cut' = (cut \/ owner.at \notin {"loop", "seal", "rest", "dispatch"} \/ ~audio.done)
  BY CutFields DEF PrivacyChanged, mic, TypeOK, Same
<1>2. TypeOK'
  <2>1. main' \in [gate : BOOLEAN, startup : BOOLEAN, cancelled : BOOLEAN, reply : BOOLEAN]
    BY <1>1 DEF TypeOK, Cancel
  <2>2. requests' \in Seq({"start", "stale", "stop"}) /\ Len(requests') <= MaxRequests
    BY <1>1, CancelledLines DEF TypeOK, Cancel
  <2>3. edge' \in BOOLEAN /\ pin' \in BOOLEAN /\ cut' \in BOOLEAN
    BY <1>1 DEF TypeOK, PrivacyChanged
  <2> QED BY <1>1, <2>1, <2>2, <2>3 DEF TypeOK
<1>3. QuiescentIsDrained' /\ Blocks' /\ Turns' /\ Recording' /\ Powered'
  BY <1>1 DEF QuiescentIsDrained, Mic!Drained, Blocks, Turns, Recording, Powered, Same
<1>4. Switched'
  BY <1>1 DEF Switched, SwitchCutsPower, Same, Sampled
<1>5. CutLatched'
  <2>1. CASE switch
    BY <1>1, <2>1 DEF CutLatched
  <2>2. CASE ~switch
    <3>1. main'.startup = main.startup /\ main'.cancelled = main.startup
      BY <1>1, <2>2 DEF TypeOK, Cancel
    <3>2. owner.at = "seal" => audio.done
      BY DEF Turns
    <3> QED BY <1>1, <2>2, <3>1, <3>2 DEF CutLatched, Sampled
  <2> QED BY <2>1, <2>2
<1>6. Consecutive' /\ Tracked' /\ Complete'
  BY <1>1 DEF Consecutive, Tracked, Kept, Complete, Due, Same
<1> QED BY <1>2, <1>3, <1>4, <1>5, <1>6

LEMMA StopLineStep ==
  ASSUME CaptureIInv, StopLine
  PROVE  CaptureIInv'
<1>1. /\ audio' \in Audio /\ Same(audio', audio) /\ audio'.fault = audio.fault
      /\ audio'.cut_moved = audio.cut_moved
      /\ main'.startup = main.startup /\ main'.cancelled = main.startup
      /\ UNCHANGED <<run, faulty, rx, seq, held, pin, switch, edge, queue, recorder, owner,
                     reader, cut>>
  BY AskFields DEF StopLine, mic, TypeOK
<1>2. TypeOK'
  <2>1. main' \in [gate : BOOLEAN, startup : BOOLEAN, cancelled : BOOLEAN, reply : BOOLEAN]
    BY DEF TypeOK, StopLine
  <2>2. requests' \in Seq({"start", "stale", "stop"}) /\ Len(requests') <= MaxRequests
    BY CancelledLines, CaptureAssumption DEF TypeOK, StopLine
  <2> QED BY <1>1, <2>1, <2>2 DEF TypeOK
<1>3. QuiescentIsDrained' /\ Blocks' /\ Turns' /\ Recording' /\ Powered' /\ Switched' /\
      CutLatched'
  BY <1>1 DEF QuiescentIsDrained, Mic!Drained, Blocks, Turns, Recording, Powered, Switched,
              SwitchCutsPower, CutLatched, Same
<1>4. Consecutive' /\ Tracked' /\ Complete'
  BY <1>1 DEF Consecutive, Tracked, Kept, Complete, Due, Same
<1> QED BY <1>2, <1>3, <1>4

LEMMA StartLineStep ==
  ASSUME CaptureIInv, StartLine
  PROVE  CaptureIInv'
<1>1. /\ UNCHANGED <<run, faulty, rx, seq, held, pin, switch, edge, audio, queue, recorder,
                     main, owner, reader, cut>>
      /\ Len(requests) < MaxRequests /\ requests' = Append(requests, "start")
  BY DEF StartLine, mic
<1>2. TypeOK'
  <2>1. requests' \in Seq({"start", "stale", "stop"}) /\ Len(requests') <= MaxRequests
    BY <1>1, CaptureAssumption DEF TypeOK
  <2> QED BY <1>1, <2>1 DEF TypeOK
<1>3. QuiescentIsDrained' /\ Blocks' /\ Turns' /\ Recording' /\ Powered' /\ Switched' /\
      CutLatched'
  BY <1>1 DEF QuiescentIsDrained, Mic!Drained, Blocks, Turns, Recording, Powered, Switched,
              SwitchCutsPower, CutLatched
<1>4. Consecutive' /\ Tracked' /\ Complete'
  BY <1>1 DEF Consecutive, Tracked, Kept, Complete, Due
<1> QED BY <1>2, <1>3, <1>4

LEMMA DeadlineStep ==
  ASSUME CaptureIInv, Deadline
  PROVE  CaptureIInv'
<1>1. /\ audio' \in Audio /\ Same(audio', audio) /\ audio'.fault = audio.fault
      /\ audio'.cut_moved = audio.cut_moved
      /\ UNCHANGED <<run, faulty, rx, seq, held, pin, switch, edge, queue, recorder, main,
                     requests, owner, reader, cut>>
  BY DEF Deadline, mic, TypeOK, Audio, Same
<1>2. TypeOK'
  BY <1>1 DEF TypeOK
<1>3. QuiescentIsDrained' /\ Blocks' /\ Turns' /\ Recording' /\ Powered' /\ Switched' /\
      CutLatched'
  BY <1>1 DEF QuiescentIsDrained, Mic!Drained, Blocks, Turns, Recording, Powered, Switched,
              SwitchCutsPower, CutLatched, Same
<1>4. Consecutive' /\ Tracked' /\ Complete'
  BY <1>1 DEF Consecutive, Tracked, Kept, Complete, Due, Same
<1> QED BY <1>2, <1>3, <1>4

-----------------------------------------------------------------------------
(* The owner loop. *)

LEMMA LimitReachedStep ==
  ASSUME CaptureIInv, LimitReached
  PROVE  CaptureIInv'
<1>1. /\ audio' \in Audio /\ Same(audio', audio) /\ audio'.fault = audio.fault
      /\ audio'.cut_moved = audio.cut_moved
      /\ UNCHANGED <<run, faulty, rx, seq, held, pin, switch, edge, queue, recorder, main,
                     requests, owner, reader, cut>>
  BY AskFields DEF LimitReached, mic, TypeOK
<1>2. TypeOK'
  BY <1>1 DEF TypeOK
<1>3. QuiescentIsDrained' /\ Blocks' /\ Turns' /\ Recording' /\ Powered' /\ Switched' /\
      CutLatched'
  BY <1>1 DEF QuiescentIsDrained, Mic!Drained, Blocks, Turns, Recording, Powered, Switched,
              SwitchCutsPower, CutLatched, Same
<1>4. Consecutive' /\ Tracked' /\ Complete'
  BY <1>1 DEF Consecutive, Tracked, Kept, Complete, Due, Same
<1> QED BY <1>2, <1>3, <1>4

LEMMA FinishStep ==
  ASSUME CaptureIInv, Finish
  PROVE  CaptureIInv'
<1>0. \/ owner' = [owner EXCEPT !.at = "rest"]
      \/ owner' = [at |-> "seal", fault |-> audio.fault] /\ audio.done /\ queue = << >>
  BY DEF Finish
<1>1. /\ owner.at = "finish"
      /\ \/ owner'.at = "rest"
         \/ owner'.at = "seal" /\ audio.done /\ queue = << >> /\ owner'.fault = audio.fault
      /\ UNCHANGED <<run, faulty, rx, seq, held, pin, switch, edge, audio, queue, recorder,
                     main, requests, reader, cut>>
  BY <1>0 DEF Finish, mic, TypeOK
<1>2. TypeOK'
  <2>1. owner' \in [at : {"rest", "seal"}, fault : BOOLEAN]
    BY DEF TypeOK, Finish, Audio
  <2> QED BY <1>1, <2>1 DEF TypeOK
<1>3. QuiescentIsDrained' /\ Blocks' /\ Turns' /\ Recording' /\ Powered' /\ Switched' /\
      CutLatched'
  BY <1>1 DEF QuiescentIsDrained, Mic!Drained, Blocks, Turns, Recording, Powered, Switched,
              SwitchCutsPower, CutLatched
<1>4. Consecutive' /\ Tracked'
  BY <1>1 DEF Consecutive, Tracked, Kept
<1>5. Complete'
  <2>1. SUFFICES ASSUME owner'.at = "seal", ~owner'.fault, recorder.state = "recording", audio.quiescent
                 PROVE  Len(recorder.blocks) = Due(seq)
    BY <1>1 DEF Complete, Due
  <2>2. ~audio.fault /\ audio.done /\ queue = << >> /\ reader.at = "idle"
    BY <1>1, <2>1 DEF Turns
  <2>3. rx = << >> /\ ~faulty
    BY <1>1, <2>1, <2>2 DEF QuiescentIsDrained, Mic!Drained, Tracked
  <2>4. Len(queue) = 0 /\ Len(rx) = 0 /\ Len(recorder.blocks) \in Nat
    BY <2>2, <2>3 DEF TypeOK
  <2> QED BY <2>1, <2>2, <2>3, <2>4, CaptureAssumption DEF Tracked, Kept, Due, TypeOK, Audio
<1> QED BY <1>2, <1>3, <1>4, <1>5

LEMMA RestStep ==
  ASSUME CaptureIInv, Rest
  PROVE  CaptureIInv'
<1>1. /\ owner.at \in {"rest"}
      /\ owner'.at \in {"dispatch"}
      /\ owner'.fault = owner.fault
      /\ main'.startup = main.startup /\ main'.cancelled = main.cancelled
      /\ UNCHANGED <<run, faulty, rx, seq, held, pin, switch, edge, audio, queue, recorder,
                     requests, reader, cut>>
  BY DEF Rest, Own, mic, TypeOK
<1>2. TypeOK'
  <2>1. owner' \in [at : Starting \cup {"loop", "finish", "seal", "rest", "dispatch"},
                    fault : BOOLEAN]
    BY DEF TypeOK, Rest, Own
  <2>2. main' \in [gate : BOOLEAN, startup : BOOLEAN, cancelled : BOOLEAN, reply : BOOLEAN]
    BY DEF TypeOK, Rest
  <2> QED BY <1>1, <2>1, <2>2 DEF TypeOK
<1>3. QuiescentIsDrained' /\ Blocks' /\ Turns' /\ Recording' /\ Powered' /\ Switched' /\
      CutLatched'
  BY <1>1 DEF QuiescentIsDrained, Mic!Drained, Blocks, Turns, Recording, Powered, Switched,
              SwitchCutsPower, CutLatched
<1>4. Consecutive' /\ Tracked' /\ Complete'
  BY <1>1 DEF Consecutive, Tracked, Kept, Complete, Due
<1> QED BY <1>2, <1>3, <1>4

-----------------------------------------------------------------------------
(* Starting a capture. *)

LEMMA PrepareStep ==
  ASSUME CaptureIInv, Prepare
  PROVE  CaptureIInv'
<1>1. /\ owner.at \in {"prepare", "permit"}
      /\ owner'.at \in {"permit", "sample", "return"}
      /\ owner'.fault = owner.fault
      /\ UNCHANGED <<run, faulty, rx, seq, held, pin, switch, edge, audio, queue, recorder,
                     main, requests, reader, cut>>
  BY DEF Prepare, Own, mic, TypeOK, Passes
<1>2. TypeOK'
  <2>1. owner' \in [at : Starting \cup {"loop", "finish", "seal", "rest", "dispatch"},
                    fault : BOOLEAN]
    BY DEF TypeOK, Prepare, Own, Passes
  <2> QED BY <1>1, <2>1 DEF TypeOK
<1>3. QuiescentIsDrained' /\ Blocks' /\ Turns' /\ Recording' /\ Powered' /\ Switched' /\
      CutLatched'
  BY <1>1 DEF QuiescentIsDrained, Mic!Drained, Blocks, Turns, Recording, Powered, Switched,
              SwitchCutsPower, CutLatched
<1>4. Consecutive' /\ Tracked' /\ Complete'
  BY <1>1 DEF Consecutive, Tracked, Kept, Complete, Due
<1> QED BY <1>2, <1>3, <1>4

LEMMA SampleStopStep ==
  ASSUME CaptureIInv, SampleStop
  PROVE  CaptureIInv'
<1>1. /\ owner.at \in {"sample"}
      /\ owner'.at \in {"check"}
      /\ owner'.fault = owner.fault
      /\ audio' \in Audio /\ Same(audio', audio) /\ audio'.fault = audio.fault
      /\ audio'.cut_moved = audio.cut_moved
      /\ UNCHANGED <<run, faulty, rx, seq, held, pin, switch, edge, queue, recorder, main,
                     requests, reader, cut>>
  BY DEF SampleStop, Own, mic, TypeOK, Audio, Same
<1>2. TypeOK'
  <2>1. owner' \in [at : Starting \cup {"loop", "finish", "seal", "rest", "dispatch"},
                    fault : BOOLEAN]
    BY DEF TypeOK, SampleStop, Own, Audio, Same
  <2> QED BY <1>1, <2>1 DEF TypeOK
<1>3. QuiescentIsDrained' /\ Blocks' /\ Turns' /\ Recording' /\ Powered' /\ Switched' /\
      CutLatched'
  BY <1>1 DEF QuiescentIsDrained, Mic!Drained, Blocks, Turns, Recording, Powered, Switched,
              SwitchCutsPower, CutLatched, Same
<1>4. Consecutive' /\ Tracked' /\ Complete'
  BY <1>1 DEF Consecutive, Tracked, Kept, Complete, Due, Same
<1> QED BY <1>2, <1>3, <1>4

LEMMA CheckBeginStep ==
  ASSUME CaptureIInv, CheckBegin
  PROVE  CaptureIInv'
<1>0. /\ audio' = [audio EXCEPT !.cut_moved = FALSE] /\ owner.at = "check"
      /\ \/ MayBegin /\ Mic!Reset /\ Own("clear_fault")
         \/ Own("return") /\ UNCHANGED mic
  BY DEF CheckBegin
<1>1. /\ owner.at \in {"check"}
      /\ owner'.at \in {"clear_fault", "return"}
      /\ owner'.fault = owner.fault
      /\ audio' \in Audio /\ Same(audio', audio) /\ audio'.fault = audio.fault /\ ~audio'.cut_moved
      /\ UNCHANGED <<run, rx, held>>
      /\ \/ owner'.at = "return" /\ UNCHANGED <<faulty, seq>>
         \/ owner'.at = "clear_fault" /\ MayBegin /\ seq' = 0 /\ faulty' = FALSE /\ Mic!Drained
      /\ UNCHANGED <<pin, switch, edge, queue, recorder, main, requests, reader, cut>>
  BY <1>0 DEF CheckBegin, Own, mic, TypeOK, Audio, Same, Mic!Reset
<1>2. TypeOK'
  <2>1. owner' \in [at : {"clear_fault", "return"}, fault : BOOLEAN]
    BY <1>0 DEF TypeOK, Own
  <2>2. 0 \in 0 .. MaxBlocks
    BY CaptureAssumption
  <2>3. seq' \in 0 .. MaxBlocks /\ faulty' \in BOOLEAN
    BY <1>1, <2>2 DEF TypeOK
  <2> QED BY <1>1, <2>1, <2>3 DEF TypeOK
<1>3. QuiescentIsDrained' /\ Blocks' /\ Recording' /\ Powered'
  BY <1>1 DEF QuiescentIsDrained, Mic!Drained, Blocks, Recording, Powered, Same
<1>4. Turns'
  BY <1>1 DEF Turns, Same, MayBegin
<1>5. Switched'
  BY <1>1 DEF Switched, SwitchCutsPower, Same, MayBegin, Permitted
<1>6. CutLatched'
  BY <1>1 DEF CutLatched, Same, MayBegin, Permitted
<1>7. Consecutive'
  BY <1>1 DEF Consecutive, Same
<1>8. Tracked'
  BY <1>1 DEF Tracked, Kept, Same, Recording
<1>9. Complete'
  BY <1>1 DEF Complete, Due, Same, Turns
<1> QED BY <1>2, <1>3, <1>4, <1>5, <1>6, <1>7, <1>8, <1>9

LEMMA ClearLatchesStep ==
  ASSUME CaptureIInv, ClearLatches
  PROVE  CaptureIInv'
<1>0. \/ owner.at = "clear_fault" /\ Own("clear_stop") /\ audio' = [audio EXCEPT !.fault = FALSE]
      \/ owner.at = "clear_stop" /\ Own("relatch") /\ audio' = [audio EXCEPT !.stop_kind = 0]
  BY DEF ClearLatches
<1>1. /\ owner.at \in {"clear_fault", "clear_stop"}
      /\ owner'.at \in {"clear_stop", "relatch"}
      /\ owner'.fault = owner.fault
      /\ audio' \in Audio /\ Same(audio', audio) /\ audio'.cut_moved = audio.cut_moved
      /\ UNCHANGED <<run, faulty, rx, seq, held, pin, switch, edge, queue, recorder, main,
                     requests, reader, cut>>
  <2>1. /\ owner.at \in {"clear_fault", "clear_stop"}
        /\ owner'.at \in {"clear_stop", "relatch"}
        /\ owner'.fault = owner.fault
    BY <1>0 DEF ClearLatches, Own, mic, TypeOK, Audio, Same
  <2>2. audio' \in Audio /\ Same(audio', audio) /\ audio'.cut_moved = audio.cut_moved
    <3>1. CASE audio' = [audio EXCEPT !.fault = FALSE]
      BY <3>1 DEF TypeOK, Audio, Same
    <3>2. CASE audio' = [audio EXCEPT !.stop_kind = 0]
      <4>1. 0 \in 0 .. 2
        OBVIOUS
      <4> QED BY <3>2, <4>1 DEF TypeOK, Audio, Same
    <3> QED BY <1>0, <3>1, <3>2
  <2>3. UNCHANGED <<run, faulty, rx, seq, held, pin, switch, edge, queue, recorder, main,
                    requests, reader, cut>>
    BY <1>0 DEF ClearLatches, Own, mic, TypeOK, Audio, Same
  <2> QED BY <2>1, <2>2, <2>3
<1>2. TypeOK'
  <2>1. owner' \in [at : Starting \cup {"loop", "finish", "seal", "rest", "dispatch"},
                    fault : BOOLEAN]
    BY <1>0 DEF TypeOK, ClearLatches, Own, Audio, Same
  <2> QED BY <1>1, <2>1 DEF TypeOK
<1>3. QuiescentIsDrained' /\ Blocks' /\ Turns' /\ Recording' /\ Powered' /\ Switched' /\
      CutLatched'
  BY <1>1 DEF QuiescentIsDrained, Mic!Drained, Blocks, Turns, Recording, Powered, Switched,
              SwitchCutsPower, CutLatched, Same
<1>4. Consecutive' /\ Complete'
  BY <1>1 DEF Consecutive, Complete, Due, Same
<1>5. Tracked'
  BY <1>1 DEF Tracked, Kept, Recording
<1> QED BY <1>2, <1>3, <1>4, <1>5

LEMMA RelatchStep ==
  ASSUME CaptureIInv, Relatch
  PROVE  CaptureIInv'
<1>0. /\ owner.at = "relatch" /\ Own("record")
      /\ audio' \in Audio /\ Same(audio', audio)
      /\ audio.fault \/ audio.cut_moved => audio'.fault
  <2> DEFINE a == [audio EXCEPT !.cut_moved = FALSE, !.stop_moved = FALSE]
  <2>1. a \in Audio /\ Same(a, audio) /\ a.fault = audio.fault
    BY DEF TypeOK, Audio, Same
  <2>2. LatchFault(a) \in Audio /\ Same(LatchFault(a), a) /\ LatchFault(a).fault
    BY <2>1, LatchFields
  <2>3. AskStop(a) \in Audio /\ Same(AskStop(a), a) /\ AskStop(a).fault = a.fault
    BY <2>1, AskFields
  <2> DEFINE b == [AskStop(a) EXCEPT !.stop_moved = FALSE]
  <2>4. b \in Audio /\ Same(b, AskStop(a)) /\ b.fault = AskStop(a).fault
    BY <2>3 DEF Audio, Same
  <2>5. \/ audio' = LatchFault(a)
        \/ audio' \in {a, b} /\ ~audio.cut_moved
    BY DEF Relatch
  <2>6. owner.at = "relatch" /\ Own("record")
    BY DEF Relatch
  <2> HIDE DEF a, b
  <2> QED BY <2>1, <2>2, <2>3, <2>4, <2>5, <2>6 DEF Same
<1>1. /\ owner.at \in {"relatch"}
      /\ owner'.at \in {"record"}
      /\ owner'.fault = owner.fault
      /\ audio' \in Audio /\ Same(audio', audio) /\ (audio.fault => audio'.fault) /\ (audio.cut_moved => audio'.fault)
      /\ UNCHANGED <<run, faulty, rx, seq, held, pin, switch, edge, queue, recorder, main,
                     requests, reader, cut>>
  BY <1>0, LatchFields, AskFields DEF Relatch, Own, mic, TypeOK
<1>2. TypeOK'
  <2>1. owner' \in [at : {"record"}, fault : BOOLEAN]
    BY <1>0 DEF TypeOK, Own
  <2> QED BY <1>1, <2>1 DEF TypeOK
<1>3. QuiescentIsDrained' /\ Blocks' /\ Turns' /\ Recording' /\ Powered' /\ Switched' /\
      CutLatched'
  BY <1>1 DEF QuiescentIsDrained, Mic!Drained, Blocks, Turns, Recording, Powered, Switched,
              SwitchCutsPower, CutLatched, Same
<1>4. Consecutive' /\ Complete'
  BY <1>1 DEF Consecutive, Complete, Due, Same
<1>5. Tracked'
  BY <1>1 DEF Tracked, Kept, Recording
<1> QED BY <1>2, <1>3, <1>4, <1>5

LEMMA RecordStep ==
  ASSUME CaptureIInv, Record
  PROVE  CaptureIInv'
<1>0. /\ owner.at = "record" /\ audio' \in {Fresh, [Fresh EXCEPT !.state = "failed"]}
      /\ \/ /\ Own("configure") /\ audio' = Fresh
            /\ recorder' = [state |-> "recording", blocks |-> << >>]
         \/ /\ owner' \in {[owner EXCEPT !.at = "permit"], [owner EXCEPT !.at = "return"]}
            /\ audio' = [Fresh EXCEPT !.state = "failed"] /\ UNCHANGED recorder
         \/ /\ Own("return") /\ audio' = [Fresh EXCEPT !.state = "failed"]
            /\ recorder' = [recorder EXCEPT !.state = "failed"]
  BY DEF Record
<1>f. /\ Fresh \in Audio /\ Fresh.fault = audio.fault /\ Fresh.cut_moved = audio.cut_moved
      /\ Fresh.state = "starting" /\ ~Fresh.ending /\ Fresh.warmup = Warmup
      /\ Fresh.expected = 0 /\ Fresh.published = 0 /\ Fresh.enabled = audio.enabled
      /\ Fresh.done = audio.done /\ Fresh.quiescent = audio.quiescent
  <2>1. Warmup \in 0 .. Warmup /\ 0 \in 0 .. MaxBlocks
    BY CaptureAssumption
  <2>2. Fresh \in Audio
    BY <2>1 DEF TypeOK, Audio, Fresh
  <2> QED BY <2>2 DEF TypeOK, Audio, Fresh
<1>a. /\ audio' \in Audio /\ audio'.fault = audio.fault /\ audio'.cut_moved = audio.cut_moved
      /\ audio'.state = IF owner'.at = "configure" THEN "starting" ELSE "failed"
      /\ ~audio'.ending /\ audio'.warmup = Warmup /\ audio'.expected = 0 /\ audio'.published = 0
      /\ audio'.enabled = audio.enabled /\ audio'.done = audio.done
      /\ audio'.quiescent = audio.quiescent
  <2>1. CASE audio' = Fresh /\ Own("configure")
    BY <2>1, <1>f DEF Own, TypeOK
  <2>2. CASE audio' = [Fresh EXCEPT !.state = "failed"] /\ owner'.at # "configure"
    BY <2>2, <1>f DEF Audio
  <2>3. \/ owner'.at # "configure" /\ audio' = [Fresh EXCEPT !.state = "failed"]
        \/ Own("configure") /\ audio' = Fresh
    BY <1>0 DEF Own, TypeOK
  <2> QED BY <1>0, <2>1, <2>2, <2>3
<1>1. /\ owner.at \in {"record"}
      /\ owner'.at \in {"configure", "permit", "return"}
      /\ owner'.fault = owner.fault
      /\ audio' \in Audio /\ audio'.fault = audio.fault
      /\ audio'.cut_moved = audio.cut_moved
      /\ audio'.state = IF owner'.at = "configure" THEN "starting" ELSE "failed"
      /\ ~audio'.ending /\ audio'.warmup = Warmup /\ audio'.expected = 0 /\ audio'.published = 0
      /\ audio'.enabled = audio.enabled /\ audio'.done = audio.done /\ audio'.quiescent = audio.quiescent
      /\ \/ /\ owner'.at = "configure"
            /\ recorder' = [state |-> "recording", blocks |-> << >>]
         \/ owner'.at \in {"permit", "return"} /\ UNCHANGED recorder
         \/ owner'.at = "return" /\ recorder' = [recorder EXCEPT !.state = "failed"]
      /\ UNCHANGED <<run, faulty, rx, seq, held, pin, switch, edge, queue, main, requests,
                     reader, cut>>
  <2>1. /\ owner.at \in {"record"}
        /\ owner'.at \in {"configure", "permit", "return"}
        /\ owner'.fault = owner.fault
        /\ audio' \in Audio /\ audio'.fault = audio.fault
        /\ audio'.cut_moved = audio.cut_moved
        /\ audio'.state = IF owner'.at = "configure" THEN "starting" ELSE "failed"
        /\ ~audio'.ending /\ audio'.warmup = Warmup /\ audio'.expected = 0 /\ audio'.published = 0
        /\ audio'.enabled = audio.enabled /\ audio'.done = audio.done /\ audio'.quiescent = audio.quiescent
    BY <1>0, <1>a DEF Record, Own, mic, TypeOK
  <2>2. \/ /\ owner'.at = "configure"
           /\ recorder' = [state |-> "recording", blocks |-> << >>]
        \/ owner'.at \in {"permit", "return"} /\ UNCHANGED recorder
        \/ owner'.at = "return" /\ recorder' = [recorder EXCEPT !.state = "failed"]
    <3>1. CASE Own("configure") /\ recorder' = [state |-> "recording", blocks |-> << >>]
      BY <3>1 DEF Own, TypeOK
    <3>2. CASE /\ owner' \in {[owner EXCEPT !.at = "permit"], [owner EXCEPT !.at = "return"]}
               /\ UNCHANGED recorder
      BY <3>2 DEF TypeOK
    <3>3. CASE Own("return") /\ recorder' = [recorder EXCEPT !.state = "failed"]
      BY <3>3 DEF Own, TypeOK
    <3> QED BY <1>0, <3>1, <3>2, <3>3
  <2>3. UNCHANGED <<run, faulty, rx, seq, held, pin, switch, edge, queue, main, requests,
                    reader, cut>>
    BY <1>0, <1>a DEF Record, Own, mic, TypeOK
  <2> QED BY <2>1, <2>2, <2>3
<1>2. TypeOK'
  <2>1. owner' \in [at : {"configure", "permit", "return"}, fault : BOOLEAN]
    BY <1>0 DEF TypeOK, Own
  <2>2. recorder' \in [state : {"recording", "idle", "finalized", "interrupted", "failed"}, blocks : Seq(1 .. MaxBlocks)]
    <3>2. CASE recorder' = [state |-> "recording", blocks |-> << >>]
      BY <3>2
    <3>3. CASE recorder' = [recorder EXCEPT !.state = "failed"] \/ recorder' = recorder
      BY <3>3 DEF TypeOK
    <3> QED BY <1>0, <3>2, <3>3
  <2> QED BY <1>1, <2>1, <2>2 DEF TypeOK
<1>3. QuiescentIsDrained' /\ Turns' /\ Powered' /\ Switched' /\ CutLatched'
  BY <1>1 DEF QuiescentIsDrained, Mic!Drained, Turns, Powered, Switched, SwitchCutsPower,
              CutLatched
<1>4. Blocks'
  BY <1>1 DEF Blocks, Turns
<1>5. Recording'
  <2>1. recorder.state # "recording"
    BY <1>1 DEF Recording
  <2>2. CASE owner'.at = "configure"
    BY <1>1, <2>2 DEF Recording
  <2>3. CASE owner'.at \in {"permit", "return"}
    <3>1. recorder'.state # "recording"
      BY <1>1, <2>1, <2>3 DEF TypeOK
    <3> QED BY <1>1, <2>3, <3>1 DEF Recording
  <2> QED BY <1>1, <2>2, <2>3
<1>6. Complete'
  BY <1>1 DEF Complete, Due
<1>7. Consecutive'
  <2>1. recorder'.state = "recording" => recorder' = [state |-> "recording", blocks |-> << >>]
    BY <1>1 DEF Recording, TypeOK
  <2>2. queue = << >>
    BY <1>1 DEF Turns
  <2> QED BY <1>1, <2>1, <2>2 DEF Consecutive
<1>8. Tracked'
  <2>1. recorder'.state = "recording" => recorder' = [state |-> "recording", blocks |-> << >>]
    BY <1>1 DEF Recording, TypeOK
  <2>2. queue = << >> /\ reader.at = "idle"
    BY <1>1 DEF Turns
  <2>3. rx = << >> /\ seq = 0 /\ ~faulty
    BY <1>1 DEF Turns, QuiescentIsDrained, Mic!Drained, Complete
  <2> QED BY <1>1, <2>1, <2>2, <2>3, CaptureAssumption DEF Tracked, Kept
<1> QED BY <1>2, <1>3, <1>4, <1>5, <1>6, <1>7, <1>8

LEMMA ConfigureMicStep ==
  ASSUME CaptureIInv, ConfigureMic
  PROVE  CaptureIInv'
<1>1. /\ owner.at \in {"configure"}
      /\ owner'.at \in {"power", "undo"}
      /\ owner'.fault = owner.fault
      /\ UNCHANGED <<run, rx, seq, held>>
      /\ faulty' \in BOOLEAN /\ (faulty => faulty')
      /\ owner'.at = "power" => ~faulty' /\ Allowed
      /\ UNCHANGED <<pin, switch, edge, audio, queue, recorder, main, requests, reader,
                     cut>>
  BY DEF ConfigureMic, Own, mic, TypeOK, Mic!Configure
<1>2. TypeOK'
  <2>1. owner' \in [at : {"power", "enable", "undo"}, fault : BOOLEAN]
    BY DEF TypeOK, ConfigureMic, Own
  <2> QED BY <1>1, <2>1 DEF TypeOK
<1>3. QuiescentIsDrained' /\ Blocks' /\ Turns' /\ Recording' /\ Powered' /\ Switched' /\
      CutLatched'
  BY <1>1 DEF QuiescentIsDrained, Mic!Drained, Blocks, Turns, Recording, Powered, Switched,
              SwitchCutsPower, CutLatched
<1>4. Consecutive' /\ Complete'
  BY <1>1 DEF Consecutive, Complete, Due
<1>5. Tracked'
  <2>1. reader.at = "idle" /\ audio.done /\ (~faulty' => ~faulty)
    BY <1>1 DEF Turns
  <2> QED BY <1>1, <2>1 DEF Tracked, Kept
<1> QED BY <1>2, <1>3, <1>4, <1>5

LEMMA TriggerStep ==
  ASSUME CaptureIInv, Trigger
  PROVE  CaptureIInv'
<1>1. /\ owner.at \in {"trigger"}
      /\ owner'.at \in {"enable", "undo"}
      /\ owner'.fault = owner.fault
      /\ UNCHANGED <<rx, seq, held>> /\ run' \in {"on", "stopping", "off"} /\ faulty' \in
                     BOOLEAN /\ (faulty => faulty')
      /\ UNCHANGED <<pin, switch, edge, audio, queue, recorder, main, requests, reader,
                     cut>>
  BY DEF Trigger, Own, mic, TypeOK, Mic!Start, Mic!Drained, Mic!Ending
<1>2. TypeOK'
  <2>1. owner' \in [at : {"power", "enable", "undo"}, fault : BOOLEAN]
    BY DEF TypeOK, Trigger, Own
  <2> QED BY <1>1, <2>1 DEF TypeOK
<1>3. QuiescentIsDrained' /\ Blocks' /\ Turns' /\ Recording' /\ Powered' /\ Switched' /\
      CutLatched'
  BY <1>1 DEF QuiescentIsDrained, Mic!Drained, Blocks, Turns, Recording, Powered, Switched,
              SwitchCutsPower, CutLatched
<1>4. Consecutive' /\ Complete'
  BY <1>1 DEF Consecutive, Complete, Due
<1>5. Tracked'
  <2>1. reader.at = "idle" /\ audio.done /\ (~faulty' => ~faulty)
    BY <1>1 DEF Turns
  <2> QED BY <1>1, <2>1 DEF Tracked, Kept
<1> QED BY <1>2, <1>3, <1>4, <1>5

LEMMA UndoStep ==
  ASSUME CaptureIInv, Undo
  PROVE  CaptureIInv'
<1>0. LatchFault(audio) \in Audio /\ Same(LatchFault(audio), audio) /\ LatchFault(audio).fault
      /\ LatchFault(audio).cut_moved = audio.cut_moved
  BY LatchFields DEF TypeOK
<1>1. /\ owner.at \in {"undo"}
      /\ owner'.at \in {"enabled"}
      /\ owner'.fault = owner.fault
      /\ audio' \in Audio /\ audio'.ending /\ audio'.fault /\ audio'.state = "stopping"
      /\ audio'.cut_moved = audio.cut_moved
      /\ ~audio'.done /\ ~audio'.quiescent /\ audio'.enabled /\ ~pin'
      /\ audio'.warmup = audio.warmup /\ audio'.expected = audio.expected /\ audio'.published = audio.published
      /\ UNCHANGED <<rx, seq, held>> /\ run' \in {"on", "stopping", "off"} /\ faulty' \in
                     BOOLEAN
      /\ main'.startup = main.startup /\ main'.cancelled = main.cancelled
      /\ UNCHANGED <<switch, edge, queue, recorder, requests, reader, cut>>
  <2>1. /\ owner.at \in {"undo"}
        /\ owner'.at \in {"enabled"}
        /\ owner'.fault = owner.fault
        /\ audio' \in Audio /\ audio'.ending /\ audio'.fault /\ audio'.state = "stopping"
        /\ audio'.cut_moved = audio.cut_moved
        /\ ~audio'.done /\ ~audio'.quiescent /\ audio'.enabled /\ ~pin'
        /\ audio'.warmup = audio.warmup /\ audio'.expected = audio.expected /\ audio'.published = audio.published
        /\ UNCHANGED <<rx, seq, held>> /\ run' \in {"on", "stopping", "off"} /\ faulty' \in
                       BOOLEAN
        /\ main'.startup = main.startup /\ main'.cancelled = main.cancelled
        /\ UNCHANGED <<switch, edge, queue, recorder, requests, reader, cut>>
    BY <1>0 DEF Undo, Own, mic, TypeOK, Audio, Mic!Stop, Mic!Ending, Same
  <2> QED BY <2>1
<1>2. TypeOK'
  <2>1. owner' \in [at : {"enabled"}, fault : BOOLEAN] /\ pin' \in BOOLEAN
    BY DEF TypeOK, Undo, Own
  <2>2. main' \in [gate : BOOLEAN, startup : BOOLEAN, cancelled : BOOLEAN, reply : BOOLEAN]
    BY DEF TypeOK, Undo
  <2> QED BY <1>1, <2>1, <2>2 DEF TypeOK
<1>3. QuiescentIsDrained' /\ Blocks' /\ Turns' /\ Recording' /\ Powered' /\ Switched' /\
      CutLatched'
  BY <1>1 DEF QuiescentIsDrained, Mic!Drained, Blocks, Turns, Recording, Powered, Switched,
              SwitchCutsPower, CutLatched
<1>4. Consecutive' /\ Tracked' /\ Complete'
  BY <1>1 DEF Consecutive, Tracked, Kept, Complete, Due
<1> QED BY <1>2, <1>3, <1>4

LEMMA PowerOnStep ==
  ASSUME CaptureIInv, PowerOn
  PROVE  CaptureIInv'
<1>0. \/ Own("undo") /\ UNCHANGED pin
      \/ Own("settle") /\ pin' = TRUE /\ ~audio.fault
  BY DEF PowerOn
<1>1. /\ owner.at \in {"power"}
      /\ owner'.at \in {"undo", "settle"}
      /\ owner'.fault = owner.fault
      /\ \/ owner'.at = "undo" /\ UNCHANGED pin
         \/ owner'.at = "settle" /\ pin' = TRUE /\ ~audio.fault
      /\ UNCHANGED <<run, faulty, rx, seq, held, switch, edge, audio, queue, recorder, main,
                     requests, reader, cut>>
  BY <1>0 DEF PowerOn, Own, mic, TypeOK
<1>2. TypeOK'
  <2>1. owner' \in [at : {"undo", "settle"}, fault : BOOLEAN] /\ pin' \in BOOLEAN
    BY <1>0 DEF TypeOK, Own
  <2> QED BY <1>1, <2>1 DEF TypeOK
<1>3. QuiescentIsDrained' /\ Blocks' /\ Turns' /\ Recording' /\ Powered' /\ Switched' /\
      CutLatched'
  BY <1>1 DEF QuiescentIsDrained, Mic!Drained, Blocks, Turns, Recording, Powered, Switched,
              SwitchCutsPower, CutLatched
<1>4. Consecutive' /\ Tracked' /\ Complete'
  BY <1>1 DEF Consecutive, Tracked, Kept, Complete, Due
<1> QED BY <1>2, <1>3, <1>4

LEMMA SettledStep ==
  ASSUME CaptureIInv, Settled
  PROVE  CaptureIInv'
<1>1. /\ owner.at \in {"settle"}
      /\ owner'.at \in {"trigger", "undo"}
      /\ owner'.fault = owner.fault
      /\ UNCHANGED <<run, faulty, rx, seq, held, pin, switch, edge, audio, queue, recorder,
                     main, requests, reader, cut>>
  BY DEF Settled, Own, mic, TypeOK
<1>2. TypeOK'
  <2>1. owner' \in [at : Starting \cup {"loop", "finish", "seal", "rest", "dispatch"},
                    fault : BOOLEAN]
    BY DEF TypeOK, Settled, Own
  <2> QED BY <1>1, <2>1 DEF TypeOK
<1>3. QuiescentIsDrained' /\ Blocks' /\ Turns' /\ Recording' /\ Powered' /\ Switched' /\
      CutLatched'
  BY <1>1 DEF QuiescentIsDrained, Mic!Drained, Blocks, Turns, Recording, Powered, Switched,
              SwitchCutsPower, CutLatched
<1>4. Consecutive' /\ Tracked' /\ Complete'
  BY <1>1 DEF Consecutive, Tracked, Kept, Complete, Due
<1> QED BY <1>2, <1>3, <1>4

LEMMA EnableStep ==
  ASSUME CaptureIInv, Enable
  PROVE  CaptureIInv'
<1>1. /\ owner.at \in {"enable"}
      /\ owner'.at \in {"enabled"}
      /\ owner'.fault = owner.fault
      /\ audio' \in Audio /\ audio'.state = audio.state /\ audio'.ending = audio.ending
      /\ ~audio'.done /\ ~audio'.quiescent /\ audio'.enabled
      /\ audio'.warmup = audio.warmup /\ audio'.expected = audio.expected
      /\ audio'.published = audio.published
      /\ audio'.fault = audio.fault
      /\ audio'.cut_moved = audio.cut_moved
      /\ UNCHANGED <<run, faulty, rx, seq, held, pin, switch, edge, queue, recorder, main,
                     requests, reader, cut>>
  BY DEF Enable, Own, mic, TypeOK, Audio
<1>2. TypeOK'
  <2>1. owner' \in [at : Starting \cup {"loop", "finish", "seal", "rest", "dispatch"},
                    fault : BOOLEAN]
    BY DEF TypeOK, Enable, Own, Audio
  <2> QED BY <1>1, <2>1 DEF TypeOK
<1>3. QuiescentIsDrained' /\ Blocks' /\ Turns' /\ Recording' /\ Switched' /\ CutLatched'
  BY <1>1 DEF QuiescentIsDrained, Mic!Drained, Blocks, Turns, Recording, Switched,
              SwitchCutsPower, CutLatched
<1>4. Powered'
  BY <1>1 DEF Powered, Turns
<1>5. Consecutive' /\ Tracked'
  BY <1>1 DEF Consecutive, Tracked, Kept
<1>6. Complete'
  BY <1>1 DEF Complete, Due, Turns
<1> QED BY <1>2, <1>3, <1>4, <1>5, <1>6

LEMMA ReturnStep ==
  ASSUME CaptureIInv, Return
  PROVE  CaptureIInv'
<1>1. /\ owner.at \in {"enabled", "return"}
      /\ owner'.at \in {"loop"}
      /\ owner'.fault = owner.fault
      /\ UNCHANGED <<run, faulty, rx, seq, held, pin, switch, edge, audio, queue, recorder,
                     requests, reader, cut>>
  BY DEF Return, Own, mic, TypeOK
<1>2. TypeOK'
  <2>1. owner' \in [at : Starting \cup {"loop", "finish", "seal", "rest", "dispatch"},
                    fault : BOOLEAN]
    BY DEF TypeOK, Return, Own
  <2>2. main' \in [gate : BOOLEAN, startup : BOOLEAN, cancelled : BOOLEAN, reply : BOOLEAN]
    BY DEF TypeOK, Return
  <2> QED BY <1>1, <2>1, <2>2 DEF TypeOK
<1>3. QuiescentIsDrained' /\ Blocks' /\ Turns' /\ Recording' /\ Powered' /\ Switched' /\
      CutLatched'
  BY <1>1 DEF QuiescentIsDrained, Mic!Drained, Blocks, Turns, Recording, Powered, Switched,
              SwitchCutsPower, CutLatched
<1>4. Consecutive' /\ Tracked' /\ Complete'
  BY <1>1 DEF Consecutive, Tracked, Kept, Complete, Due
<1> QED BY <1>2, <1>3, <1>4

LEMMA ServiceStep ==
  ASSUME CaptureIInv, Service
  PROVE  CaptureIInv'
<1> DEFINE one  == IF queue = << >> THEN 0 ELSE 1
           rest == SubSeq(queue, one + 1, Len(queue))
           more == recorder.blocks \o SubSeq(queue, 1, one)
<1>a. /\ one \in {0, 1} /\ one <= Len(queue) /\ Len(queue) \in Nat
      /\ recorder.blocks \in Seq(Block) /\ Len(recorder.blocks) \in Nat
      /\ queue \in Seq(Block)
      /\ recorder = [state |-> recorder.state, blocks |-> recorder.blocks]
  BY EmptySeq DEF TypeOK, Block
<1> HIDE DEF one
<1>b. /\ rest \in Seq(Block) /\ Len(rest) = Len(queue) - one
      /\ \A i \in 1 .. Len(rest) : rest[i] = queue[i + one]
      /\ more \in Seq(Block) /\ Len(more) = Len(recorder.blocks) + one
      /\ \A i \in 1 .. Len(more) :
           more[i] = IF i <= Len(recorder.blocks) THEN recorder.blocks[i]
                     ELSE queue[i - Len(recorder.blocks)]
  BY <1>a, MovedBlocks
<1>c. LatchFault(audio) \in Audio /\ Same(LatchFault(audio), audio) /\ LatchFault(audio).fault
      /\ LatchFault(audio).cut_moved = audio.cut_moved
  BY LatchFields DEF TypeOK
<1> HIDE DEF rest, more
<1>d. \/ Own("rest") /\ UNCHANGED <<queue, recorder, audio, pin>>
      \/ /\ audio.state \notin Terminal /\ Own("finish") /\ queue' = rest
         /\ recorder.state # "recording" /\ UNCHANGED <<recorder, audio, pin>>
      \/ /\ audio.state \notin Terminal /\ Own("finish") /\ queue' = rest
         /\ recorder.state = "recording"
         /\ recorder' = [recorder EXCEPT !.blocks = more] /\ UNCHANGED <<audio, pin>>
      \/ /\ audio.state \notin Terminal /\ Own("finish") /\ queue' = rest
         /\ recorder.state = "recording"
         /\ recorder' \in Broken(recorder.blocks) \cup Broken(more) /\ Failing
  BY DEF Service, Recorded, one, rest, more
<1>e. recorder.state = "recording" =>
        /\ \A i \in 1 .. Len(more) : more[i] = Warmup + i
        /\ \A i \in 1 .. Len(rest) : rest[i] = Warmup + Len(more) + i
  <2>1. SUFFICES ASSUME recorder.state = "recording"
                 PROVE  /\ \A i \in 1 .. Len(more) : more[i] = Warmup + i
                        /\ \A i \in 1 .. Len(rest) : rest[i] = Warmup + Len(more) + i
    OBVIOUS
  <2>2. ASSUME NEW i \in 1 .. Len(more) PROVE more[i] = Warmup + i
    <3>1. CASE i <= Len(recorder.blocks)
      <4>1. i \in 1 .. Len(recorder.blocks)
        BY <1>a, <3>1
      <4> QED BY <1>b, <2>1, <3>1, <4>1 DEF Consecutive
    <3>2. CASE ~(i <= Len(recorder.blocks))
      <4>1. i - Len(recorder.blocks) \in 1 .. Len(queue)
        BY <1>a, <1>b, <3>2
      <4>2. queue[i - Len(recorder.blocks)]
              = Warmup + Len(recorder.blocks) + (i - Len(recorder.blocks))
        BY <2>1, <4>1 DEF Consecutive
      <4>3. Warmup + Len(recorder.blocks) + (i - Len(recorder.blocks)) = Warmup + i
        BY <1>a, CaptureAssumption
      <4> QED BY <1>b, <3>2, <4>2, <4>3
    <3> QED BY <3>1, <3>2
  <2>3. ASSUME NEW i \in 1 .. Len(rest) PROVE rest[i] = Warmup + Len(more) + i
    <3>1. i + one \in 1 .. Len(queue)
      BY <1>a, <1>b
    <3>2. queue[i + one] = Warmup + Len(recorder.blocks) + (i + one)
      BY <2>1, <3>1 DEF Consecutive
    <3>3. Warmup + Len(recorder.blocks) + (i + one) = Warmup + Len(more) + i
      BY <1>a, <1>b, CaptureAssumption
    <3> QED BY <1>b, <3>2, <3>3
  <2> QED BY <2>2, <2>3
<1>1. /\ owner.at = "loop" /\ owner'.fault = owner.fault
      /\ audio' \in Audio /\ Same(audio', audio) /\ (audio.fault => audio'.fault)
      /\ audio'.cut_moved = audio.cut_moved
      /\ pin' \in BOOLEAN /\ (pin' => pin)
      /\ \/ /\ owner'.at = "rest"
            /\ UNCHANGED <<queue, recorder, audio, pin>>
         \/ /\ owner'.at = "finish" /\ audio.state \notin Terminal
            /\ queue' \in Seq(Block) /\ Len(queue') <= Len(queue)
            /\ recorder.state # "recording" /\ UNCHANGED <<recorder, audio, pin>>
         \/ /\ owner'.at = "finish" /\ audio.state \notin Terminal
            /\ queue' \in Seq(Block) /\ Len(queue') <= Len(queue)
            /\ recorder.state = "recording" /\ recorder'.state = "recording"
            /\ UNCHANGED <<audio, pin>>
            /\ recorder'.blocks \in Seq(Block) /\ Kept' = Kept
            /\ \A i \in 1 .. Len(recorder'.blocks) : recorder'.blocks[i] = Warmup + i
            /\ \A i \in 1 .. Len(queue') : queue'[i] = Warmup + Len(recorder'.blocks) + i
         \/ /\ owner'.at = "finish" /\ audio.state \notin Terminal
            /\ queue' \in Seq(Block) /\ Len(queue') <= Len(queue)
            /\ recorder.state = "recording" /\ recorder'.state \in {"interrupted", "failed"}
            /\ recorder'.blocks \in Seq(Block) /\ audio'.fault
      /\ UNCHANGED <<run, faulty, rx, seq, held, switch, edge, main, requests, reader, cut>>
  <2>1. owner.at = "loop" /\ owner'.fault = owner.fault
    BY <1>d, <1>c, <1>a DEF Service, mic, Own, Broken, Failing, TypeOK
  <2>2. audio' \in Audio /\ Same(audio', audio) /\ (audio.fault => audio'.fault)
    BY <1>c, <1>d DEF Failing, Same, TypeOK
  <2>3. audio'.cut_moved = audio.cut_moved
    BY <1>c, <1>d DEF Failing
  <2>4. pin' \in BOOLEAN /\ (pin' => pin)
    <3>1. pin' = pin \/ pin' = FALSE
      BY <1>d DEF Failing
    <3>2. pin \in BOOLEAN
      BY DEF TypeOK
    <3>3. CASE pin' = pin
      BY <3>2, <3>3
    <3>4. CASE pin' = FALSE
      BY <3>4
    <3> QED BY <3>1, <3>3, <3>4
  <2>5. \/ /\ owner'.at = "rest"
           /\ UNCHANGED <<queue, recorder, audio, pin>>
        \/ /\ owner'.at = "finish" /\ audio.state \notin Terminal
           /\ queue' \in Seq(Block) /\ Len(queue') <= Len(queue)
           /\ recorder.state # "recording" /\ UNCHANGED <<recorder, audio, pin>>
        \/ /\ owner'.at = "finish" /\ audio.state \notin Terminal
           /\ queue' \in Seq(Block) /\ Len(queue') <= Len(queue)
           /\ recorder.state = "recording" /\ recorder'.state = "recording"
           /\ UNCHANGED <<audio, pin>>
           /\ recorder'.blocks \in Seq(Block) /\ Kept' = Kept
           /\ \A i \in 1 .. Len(recorder'.blocks) : recorder'.blocks[i] = Warmup + i
           /\ \A i \in 1 .. Len(queue') : queue'[i] = Warmup + Len(recorder'.blocks) + i
        \/ /\ owner'.at = "finish" /\ audio.state \notin Terminal
           /\ queue' \in Seq(Block) /\ Len(queue') <= Len(queue)
           /\ recorder.state = "recording" /\ recorder'.state \in {"interrupted", "failed"}
           /\ recorder'.blocks \in Seq(Block) /\ audio'.fault
    <3>0. /\ Own("rest") => owner'.at = "rest"
          /\ Own("finish") => owner'.at = "finish"
      BY DEF Own, TypeOK
    <3>1. CASE Own("rest") /\ UNCHANGED <<queue, recorder, audio, pin>>
      BY <3>0, <3>1
    <3>4. CASE /\ audio.state \notin Terminal /\ Own("finish") /\ queue' = rest
               /\ recorder.state # "recording" /\ UNCHANGED <<recorder, audio, pin>>
      BY <3>0, <3>4, <1>a, <1>b
    <3>2. CASE /\ audio.state \notin Terminal /\ Own("finish") /\ queue' = rest
               /\ recorder.state = "recording"
               /\ recorder' = [recorder EXCEPT !.blocks = more] /\ UNCHANGED <<audio, pin>>
      <4>1. owner'.at = "finish"
        BY <3>0, <3>2
      <4>2. recorder'.state = "recording" /\ recorder'.blocks = more
        BY <3>2, <1>a DEF TypeOK
      <4>3. Len(rest) = Len(queue) - one /\ Len(more) = Len(recorder.blocks) + one
        BY <1>b
      <4>4. Kept' = Kept /\ Len(queue') <= Len(queue)
        BY <3>2, <4>2, <4>3, <1>a DEF Kept
      <4> QED BY <3>2, <4>1, <4>2, <4>4, <1>b, <1>e
    <3>3. CASE /\ audio.state \notin Terminal /\ Own("finish") /\ queue' = rest
               /\ recorder.state = "recording"
               /\ recorder' \in Broken(recorder.blocks) \cup Broken(more) /\ Failing
      <4>1. owner'.at = "finish"
        BY <3>0, <3>3
      <4>2. recorder'.state \in {"interrupted", "failed"} /\ recorder'.blocks \in Seq(Block)
        BY <3>3, <1>a, <1>b DEF Broken
      <4>3. Len(queue') <= Len(queue) /\ queue' \in Seq(Block) /\ audio'.fault
        BY <3>3, <1>a, <1>b, <1>c DEF Failing
      <4> QED BY <3>3, <4>1, <4>2, <4>3
    <3> QED BY <1>d, <3>1, <3>2, <3>3, <3>4
  <2>6. UNCHANGED <<run, faulty, rx, seq, held, switch, edge, main, requests, reader, cut>>
    BY <1>d, <1>c, <1>a DEF Service, mic, Own, Broken, Failing, TypeOK
  <2> QED BY <2>1, <2>2, <2>3, <2>4, <2>5, <2>6
<1>2. TypeOK'
  <2>1. owner' \in [at : {"rest", "finish"}, fault : BOOLEAN]
    BY <1>d DEF TypeOK, Own
  <2>2. queue' \in Seq(Block) /\ Len(queue') <= QueueSize
    BY <1>1, <1>a, CaptureAssumption DEF TypeOK, Block
  <2>3. recorder' \in [state : {"idle", "recording", "finalized", "interrupted", "failed"}, blocks : Seq(Block)]
    <3>1. CASE UNCHANGED recorder
      BY <3>1 DEF TypeOK, Block
    <3>2. CASE recorder' = [recorder EXCEPT !.blocks = more]
      BY <3>2, <1>b DEF TypeOK, Block
    <3>3. CASE recorder' \in Broken(recorder.blocks) \cup Broken(more)
      BY <3>3, <1>a, <1>b DEF Broken
    <3> QED BY <1>d, <3>1, <3>2, <3>3
  <2> QED BY <1>1, <2>1, <2>2, <2>3 DEF TypeOK, Block
<1>3. QuiescentIsDrained' /\ Blocks' /\ Turns' /\ Recording' /\ Powered' /\ Switched' /\
      CutLatched'
  BY <1>1 DEF QuiescentIsDrained, Mic!Drained, Blocks, Turns, Recording, Powered, Switched,
              SwitchCutsPower, CutLatched, Same
<1>4. Consecutive' /\ Tracked' /\ Complete'
  BY <1>1 DEF Consecutive, Tracked, Kept, Complete, Due, Same
<1> QED BY <1>2, <1>3, <1>4

LEMMA SealStep ==
  ASSUME CaptureIInv, Seal
  PROVE  CaptureIInv'
<1> DEFINE v == Verdict(recorder'.state)
<1>a. /\ owner.at = "seal" /\ owner' = [at |-> "rest", fault |-> FALSE]
      /\ audio' = [audio EXCEPT !.state = v] /\ cut' = FALSE
  BY DEF Seal
<1>b. /\ v \in AtRest
      /\ v = "quarantined" <=> ~audio.quiescent
      /\ v = "finalized" => recorder'.state = "finalized" /\ audio.quiescent
  BY DEF Verdict, Ended
<1> HIDE DEF v
<1>c. /\ recorder'.state # "recording" /\ recorder'.blocks = recorder.blocks
      /\ recorder' \in [state : {"idle", "recording", "finalized", "interrupted", "failed"},
                        blocks : Seq(Block)]
      /\ recorder'.state = "finalized" =>
           \/ recorder.state = "recording" /\ ~owner.fault
           \/ recorder.state = "finalized"
  <2>1. recorder.blocks \in Seq(Block)
    BY DEF TypeOK, Block
  <2>2. CASE recorder.state # "recording" /\ UNCHANGED recorder
    BY <2>2 DEF TypeOK, Block
  <2>3. CASE recorder.state = "recording" /\ recorder' \in Broken(recorder.blocks)
    BY <2>1, <2>3 DEF Broken
  <2>4. CASE /\ recorder.state = "recording" /\ Clean
             /\ recorder' = [recorder EXCEPT !.state = "finalized"]
    BY <2>4 DEF TypeOK, Block, Clean
  <2> QED BY <2>2, <2>3, <2>4 DEF Seal
<1>1. /\ owner.at = "seal" /\ owner'.at = "rest" /\ ~cut'
      /\ audio' \in Audio /\ audio'.fault = audio.fault
      /\ audio'.cut_moved = audio.cut_moved
      /\ audio'.ending = audio.ending /\ audio'.enabled = audio.enabled /\ audio'.done = audio.done
      /\ audio'.quiescent = audio.quiescent /\ audio'.warmup = audio.warmup
      /\ audio'.expected = audio.expected /\ audio'.published = audio.published
      /\ audio'.state \in AtRest /\ (audio'.state = "quarantined" <=> ~audio.quiescent)
      /\ recorder'.state # "recording" /\ recorder'.blocks = recorder.blocks
      /\ audio'.state = "finalized" => recorder.state = "recording" /\ ~owner.fault
      /\ UNCHANGED <<run, faulty, rx, seq, held, pin, switch, edge, queue, main, requests,
                     reader>>
  <2>1. owner.at = "seal" /\ owner'.at = "rest" /\ ~cut'
    BY <1>a, <1>b, <1>c DEF Seal, mic
  <2>2. audio' \in Audio /\ audio'.fault = audio.fault
    BY <1>a, <1>b DEF TypeOK, Audio
  <2>3. /\ audio'.cut_moved = audio.cut_moved
        /\ audio'.ending = audio.ending /\ audio'.enabled = audio.enabled /\ audio'.done = audio.done
        /\ audio'.quiescent = audio.quiescent /\ audio'.warmup = audio.warmup
        /\ audio'.expected = audio.expected /\ audio'.published = audio.published
    BY <1>a DEF TypeOK, Audio
  <2>4. audio'.state \in AtRest /\ (audio'.state = "quarantined" <=> ~audio.quiescent)
    BY <1>a, <1>b DEF TypeOK, Audio
  <2>5. recorder'.state # "recording" /\ recorder'.blocks = recorder.blocks
    BY <1>c
  <2>6. audio'.state = "finalized" => recorder.state = "recording" /\ ~owner.fault
    <3>1. audio'.state = v
      BY <1>a DEF TypeOK, Audio
    <3>2. recorder.state = "finalized" => audio.state = "quarantined"
      BY <1>a DEF Recording, Turns
    <3>3. audio.state = "quarantined" => ~audio.quiescent
      BY DEF Turns
    <3> QED BY <1>b, <1>c, <3>1, <3>2, <3>3
  <2>7. UNCHANGED <<run, faulty, rx, seq, held, pin, switch, edge, queue, main, requests,
                    reader>>
    BY <1>a, <1>b, <1>c DEF Seal, mic
  <2> QED BY <2>1, <2>2, <2>3, <2>4, <2>5, <2>6, <2>7
<1>2. TypeOK'
  <2>1. owner' \in [at : {"rest"}, fault : BOOLEAN] /\ cut' \in BOOLEAN
    BY <1>a
  <2> QED BY <1>1, <1>a, <1>c, <2>1 DEF TypeOK, Block
<1>3. QuiescentIsDrained' /\ Blocks' /\ Recording' /\ Switched' /\ CutLatched'
  BY <1>1 DEF QuiescentIsDrained, Mic!Drained, Blocks, Recording, Switched, SwitchCutsPower,
              CutLatched
<1>4. Turns'
  BY <1>1 DEF Turns, TypeOK, Audio
<1>5. Powered'
  BY <1>1 DEF Powered, Turns
<1>6. Consecutive' /\ Tracked'
  BY <1>1 DEF Consecutive, Tracked, Kept
<1>7. Complete'
  <2>1. SUFFICES ASSUME audio'.state = "finalized"
                 PROVE  /\ audio.quiescent
                        /\ Len(recorder.blocks) = Due(seq)
                        /\ \A i \in 1 .. Len(recorder.blocks) : recorder.blocks[i] = Warmup + i
    BY <1>1 DEF Complete, Due
  <2> QED BY <1>1, <2>1 DEF Complete, Consecutive
<1> QED BY <1>2, <1>3, <1>4, <1>5, <1>6, <1>7

LEMMA DispatchStep ==
  ASSUME CaptureIInv, Dispatch
  PROVE  CaptureIInv'
<1>a. /\ AskStop(audio) \in Audio /\ Same(AskStop(audio), audio)
      /\ AskStop(audio).fault = audio.fault /\ AskStop(audio).cut_moved = audio.cut_moved
  BY AskFields DEF TypeOK
<1>b. \/ /\ Own("loop") /\ UNCHANGED <<main, audio, requests, cut>>
      \/ /\ Own("loop") /\ requests # << >> /\ requests' = Tail(requests) /\ UNCHANGED cut
         /\ main' \in {main, [main EXCEPT !.reply = TRUE]}
         /\ audio' \in {audio, AskStop(audio)}
      \/ /\ Own("prepare") /\ requests # << >> /\ requests' = Tail(requests)
         /\ main' = [main EXCEPT !.gate = TRUE, !.startup = TRUE,
                                 !.cancelled = (Head(requests) = "stale")]
         /\ cut' = FALSE /\ UNCHANGED audio
         /\ ~Busy /\ audio.state # "quarantined"
  BY DEF Dispatch
<1>c. ~Busy /\ audio.state # "quarantined" =>
        audio.state \in Terminal /\ audio.done /\ recorder.state # "recording"
  BY DEF Busy, AudioPending, TypeOK, Audio
<1>1. /\ owner.at = "dispatch" /\ owner'.fault = owner.fault
      /\ audio' \in Audio /\ Same(audio', audio) /\ audio'.fault = audio.fault
      /\ audio'.cut_moved = audio.cut_moved
      /\ \/ /\ owner'.at = "loop" /\ UNCHANGED cut
            /\ main'.startup = main.startup /\ main'.cancelled = main.cancelled
         \/ /\ owner'.at = "prepare" /\ cut' = FALSE /\ main'.startup
            /\ audio.state \in Terminal /\ audio.done /\ recorder.state # "recording"
      /\ UNCHANGED <<run, faulty, rx, seq, held, pin, switch, edge, queue, recorder,
                     reader>>
  <2>1. owner.at = "dispatch" /\ owner'.fault = owner.fault
    BY <1>b DEF Dispatch, Own, TypeOK
  <2>2. audio' \in Audio /\ Same(audio', audio) /\ audio'.fault = audio.fault
    BY <1>a, <1>b DEF TypeOK, Same
  <2>3. audio'.cut_moved = audio.cut_moved
    BY <1>a, <1>b
  <2>4. \/ /\ owner'.at = "loop" /\ UNCHANGED cut
           /\ main'.startup = main.startup /\ main'.cancelled = main.cancelled
        \/ /\ owner'.at = "prepare" /\ cut' = FALSE /\ main'.startup
           /\ audio.state \in Terminal /\ audio.done /\ recorder.state # "recording"
    BY <1>b, <1>c DEF TypeOK, Own
  <2>5. UNCHANGED <<run, faulty, rx, seq, held, pin, switch, edge, queue, recorder, reader>>
    BY <1>a, <1>b, <1>c DEF Dispatch, mic
  <2> QED BY <2>1, <2>2, <2>3, <2>4, <2>5
<1>2. TypeOK'
  <2>1. owner' \in [at : {"loop", "prepare"}, fault : BOOLEAN]
    BY <1>b DEF TypeOK, Own
  <2>2. main' \in [gate : BOOLEAN, startup : BOOLEAN, cancelled : BOOLEAN, reply : BOOLEAN]
    BY <1>b DEF TypeOK
  <2>3. requests' \in Seq({"start", "stale", "stop"}) /\ Len(requests') <= MaxRequests
    <3>1. CASE requests' = requests
      BY <3>1 DEF TypeOK
    <3>2. CASE requests # << >> /\ requests' = Tail(requests)
      BY <3>2, HeadTailProperties, CaptureAssumption DEF TypeOK
    <3> QED BY <1>b, <3>1, <3>2
  <2>4. cut' \in BOOLEAN
    BY <1>b DEF TypeOK
  <2> QED BY <1>1, <2>1, <2>2, <2>3, <2>4 DEF TypeOK
<1>3. QuiescentIsDrained' /\ Blocks' /\ Recording' /\ Powered' /\ Switched' /\ CutLatched'
  BY <1>1 DEF QuiescentIsDrained, Mic!Drained, Blocks, Recording, Powered, Switched,
              SwitchCutsPower, CutLatched, Same
<1>4. Turns'
  BY <1>1 DEF Turns, Same
<1>5. Consecutive' /\ Tracked' /\ Complete'
  BY <1>1 DEF Consecutive, Tracked, Kept, Complete, Due, Same
<1> QED BY <1>2, <1>3, <1>4, <1>5

-----------------------------------------------------------------------------
(* The reader thread. *)

LEMMA ReaderStepStep ==
  ASSUME CaptureIInv, ReaderStep
  PROVE  CaptureIInv'
<1> DEFINE a == IF Allowed /\ ~faulty THEN audio ELSE LatchFault(audio)
<1>a. /\ a \in Audio /\ Same(a, audio) /\ a.cut_moved = audio.cut_moved
      /\ audio.fault => a.fault
  BY LatchFields DEF TypeOK, Same
<1> HIDE DEF a
<1>b. /\ reader.at = "idle" /\ audio.enabled
      /\ \/ Go("drain") /\ audio.ending /\ UNCHANGED <<mic, audio, pin>>
         \/ Go("drain") /\ StopDevice(a)
         \/ Go("read") /\ UNCHANGED <<mic, audio, pin>>
      /\ UNCHANGED <<switch, edge, queue, recorder, main, requests, owner, cut>>
  BY DEF ReaderStep, a
<1>c. StopDevice(a) =>
        /\ audio' \in Audio /\ (audio.fault => audio'.fault)
        /\ audio'.cut_moved = audio.cut_moved
        /\ audio'.enabled = audio.enabled /\ audio'.done = audio.done
        /\ audio'.quiescent = audio.quiescent /\ audio'.warmup = audio.warmup
        /\ audio'.expected = audio.expected /\ audio'.published = audio.published
        /\ audio'.ending /\ audio'.state = "stopping" /\ ~pin' /\ pin' \in BOOLEAN
        /\ UNCHANGED <<rx, seq, held>> /\ run' \in {"on", "stopping", "off"}
        /\ faulty' \in BOOLEAN /\ (faulty => faulty')
  <2>1. SUFFICES ASSUME StopDevice(a)
                 PROVE  /\ UNCHANGED <<rx, seq, held>> /\ run' \in {"on", "stopping", "off"}
                        /\ pin' \in BOOLEAN /\ faulty' \in BOOLEAN /\ (faulty => faulty')
    BY <1>a, StopFields DEF Same
  <2>2. UNCHANGED <<rx, seq, held>> /\ run' \in {"on", "stopping", "off"}
    BY <2>1 DEF StopDevice, Mic!Stop, Mic!Ending, TypeOK
  <2>3. pin' = FALSE /\ (faulty' = faulty \/ faulty' = TRUE)
    BY <2>1 DEF StopDevice, Mic!Stop
  <2>4. CASE faulty' = faulty
    BY <2>2, <2>3, <2>4 DEF TypeOK
  <2>5. CASE faulty' = TRUE
    BY <2>2, <2>3, <2>5
  <2> QED BY <2>3, <2>4, <2>5
<1>1. /\ reader.at \in {"idle"}
      /\ audio.enabled /\ ~audio.done /\ ~audio.quiescent /\ audio.state \notin AtRest
      /\ owner.at \notin Starting \ {"enabled"} /\ owner.at # "seal"
      /\ audio' \in Audio /\ (audio.fault => audio'.fault)
      /\ audio'.cut_moved = audio.cut_moved
      /\ audio'.enabled = audio.enabled /\ audio'.done = audio.done /\ audio'.quiescent = audio.quiescent
      /\ audio'.warmup = audio.warmup /\ audio'.expected = audio.expected /\ audio'.published = audio.published
      /\ \/ /\ reader'.at \in {"read", "drain", "idle"} /\ UNCHANGED <<audio, pin, run,
                                                                       faulty>>
            /\ reader'.at = "drain" => audio.ending
         \/ /\ reader'.at \in {"drain", "idle"} /\ audio'.ending /\ audio'.state = "stopping" /\ ~pin'
            /\ pin' \in BOOLEAN /\ run' \in {"on", "stopping", "off"}
            /\ faulty' \in BOOLEAN /\ (faulty => faulty')
      /\ UNCHANGED <<rx, seq, held, switch, edge, queue, recorder, main, requests, owner,
                     cut>>
  <2>1. reader.at \in {"idle"}
    BY <1>b, <1>c DEF ReaderStep, Go, mic, TypeOK
  <2>2. /\ audio.enabled /\ ~audio.done /\ ~audio.quiescent /\ audio.state \notin AtRest
        /\ owner.at \notin Starting \ {"enabled"} /\ owner.at # "seal"
    BY Reading DEF ReaderStep
  <2>3. /\ audio' \in Audio /\ (audio.fault => audio'.fault)
        /\ audio'.cut_moved = audio.cut_moved
        /\ audio'.enabled = audio.enabled /\ audio'.done = audio.done /\ audio'.quiescent = audio.quiescent
        /\ audio'.warmup = audio.warmup /\ audio'.expected = audio.expected /\ audio'.published = audio.published
    BY <1>b, <1>c DEF mic, TypeOK
  <2>4. \/ /\ reader'.at \in {"read", "drain", "idle"} /\ UNCHANGED <<audio, pin, run,
                                                                      faulty>>
           /\ reader'.at = "drain" => audio.ending
        \/ /\ reader'.at \in {"drain", "idle"} /\ audio'.ending /\ audio'.state = "stopping" /\ ~pin'
           /\ pin' \in BOOLEAN /\ run' \in {"on", "stopping", "off"}
           /\ faulty' \in BOOLEAN /\ (faulty => faulty')
    <3>1. CASE Go("drain") /\ audio.ending /\ UNCHANGED <<mic, audio, pin>>
      BY <3>1 DEF Go, mic
    <3>2. CASE Go("drain") /\ StopDevice(a)
      <4>1. reader'.at = "drain"
        BY <3>2 DEF Go
      <4> QED BY <1>c, <3>2, <4>1
    <3>3. CASE Go("read") /\ UNCHANGED <<mic, audio, pin>>
      BY <3>3 DEF Go, mic
    <3> QED BY <1>b, <3>1, <3>2, <3>3
  <2>5. UNCHANGED <<rx, seq, held, switch, edge, queue, recorder, main, requests, owner,
                    cut>>
    BY <1>b, <1>c DEF mic, TypeOK
  <2> QED BY <2>1, <2>2, <2>3, <2>4, <2>5
<1>2. TypeOK'
  <2>1. reader' \in [at : {"idle", "read", "drain", "accept", "publish", "after"},
                     block : 0 .. MaxBlocks]
    BY <1>b, CaptureAssumption DEF Go
  <2> QED BY <1>1, <2>1 DEF TypeOK
<1>3. Blocks' /\ Turns' /\ Powered' /\ Switched' /\ CutLatched'
  BY <1>1 DEF Blocks, Turns, Powered, Switched, SwitchCutsPower, CutLatched
<1>4. QuiescentIsDrained'
  BY <1>1 DEF QuiescentIsDrained
<1>5. Recording'
  BY <1>1 DEF Recording
<1>6. Consecutive' /\ Tracked' /\ Complete'
  BY <1>1 DEF Consecutive, Tracked, Kept, Complete, Due
<1> QED BY <1>2, <1>3, <1>4, <1>5, <1>6

LEMMA ReadBlockStep ==
  ASSUME CaptureIInv, ReadBlock
  PROVE  CaptureIInv'
<1>a. /\ rx \in Seq(Block) /\ rx # << >>
      /\ reader.at \in {"read", "drain"} /\ rx' = Tail(rx) /\ held' = held + 1
      /\ reader' = [at |-> "accept", block |-> Head(rx)]
      /\ UNCHANGED <<run, faulty, seq>>
  BY DEF ReadBlock, Mic!Read, Blocks
<1>b. /\ Tail(rx) \in Seq(Block) /\ Len(rx) = Len(Tail(rx)) + 1 /\ Head(rx) \in Block
      /\ Head(rx) = rx[1] /\ \A i \in 1 .. Len(Tail(rx)) : Tail(rx)[i] = rx[i + 1]
  BY <1>a, HeadTailProperties
<1>1. /\ reader.at \in {"read", "drain"}
      /\ audio.enabled /\ ~audio.done /\ ~audio.quiescent /\ audio.state \notin AtRest
      /\ owner.at \notin Starting \ {"enabled"} /\ owner.at # "seal"
      /\ reader'.at = "accept" /\ reader'.block = Head(rx) /\ reader'.block \in Block
      /\ held = 0 /\ held' = 1 /\ rx' \in Seq(Block)
      /\ Len(rx) = Len(rx') + 1 /\ Len(rx') \in Nat
      /\ Head(rx) = rx[1] /\ \A i \in 1 .. Len(rx') : rx'[i] = rx[i + 1]
      /\ UNCHANGED <<run, faulty, seq, pin, switch, edge, audio, queue, recorder, main,
                     requests, owner, cut>>
  <2>1. reader.at \in {"read", "drain"}
    BY <1>a DEF ReadBlock, Go, mic, TypeOK
  <2>2. /\ audio.enabled /\ ~audio.done /\ ~audio.quiescent /\ audio.state \notin AtRest
        /\ owner.at \notin Starting \ {"enabled"} /\ owner.at # "seal"
    BY Reading DEF ReadBlock
  <2>3. reader'.at = "accept" /\ reader'.block = Head(rx) /\ reader'.block \in Block
    BY <1>a, <1>b
  <2>4. held = 0 /\ held' = 1 /\ rx' \in Seq(Block)
    BY <1>a, <1>b DEF Blocks
  <2>5. /\ Len(rx) = Len(rx') + 1 /\ Len(rx') \in Nat
        /\ Head(rx) = rx[1] /\ \A i \in 1 .. Len(rx') : rx'[i] = rx[i + 1]
    BY <1>a, <1>b
  <2>6. UNCHANGED <<run, faulty, seq, pin, switch, edge, audio, queue, recorder, main,
                    requests, owner, cut>>
    BY <1>a DEF ReadBlock, Go, mic, TypeOK
  <2> QED BY <2>1, <2>2, <2>3, <2>4, <2>5, <2>6
<1>2. TypeOK'
  <2>1. reader' \in [at : {"idle", "read", "drain", "accept", "publish", "after"},
                     block : 0 .. MaxBlocks]
    BY <1>1, <1>a DEF Block
  <2>2. held' \in 0 .. 1
    BY <1>1
  <2> QED BY <1>1, <2>1, <2>2 DEF TypeOK
<1>3. QuiescentIsDrained' /\ Blocks' /\ Turns' /\ Recording' /\ Powered' /\ Switched' /\
      CutLatched'
  BY <1>1 DEF QuiescentIsDrained, Mic!Drained, Blocks, Turns, Recording, Powered, Switched,
              SwitchCutsPower, CutLatched
<1>4. Consecutive' /\ Complete'
  BY <1>1 DEF Consecutive, Complete, Due
<1>5. Tracked'
  <2>1. SUFFICES ASSUME recorder.state = "recording", ~audio.fault, ~faulty
                 PROVE  /\ reader'.block = audio.expected + 1
                        /\ seq = audio.expected + 1 + Len(rx')
                        /\ \A i \in 1 .. Len(rx') : rx'[i] = audio.expected + 1 + i
    BY <1>1 DEF Tracked, Kept
  <2>2. audio.expected \in Nat
    BY DEF TypeOK, Audio
  <2>3. /\ seq = audio.expected + 0 + Len(rx)
        /\ \A i \in 1 .. Len(rx) : rx[i] = audio.expected + 0 + i
    BY <1>1, <2>1 DEF Tracked
  <2>4. reader'.block = audio.expected + 1 /\ seq = audio.expected + 1 + Len(rx')
    BY <1>1, <2>2, <2>3
  <2>5. ASSUME NEW i \in 1 .. Len(rx') PROVE rx'[i] = audio.expected + 1 + i
    <3>1. i + 1 \in 1 .. Len(rx) /\ i \in Nat
      BY <1>1
    <3>2. rx[i + 1] = audio.expected + 0 + (i + 1)
      BY <2>3, <3>1
    <3>3. rx'[i] = rx[i + 1]
      BY <1>1
    <3> QED BY <2>2, <3>1, <3>2, <3>3
  <2> QED BY <2>4, <2>5
<1> QED BY <1>2, <1>3, <1>4, <1>5

LEMMA ReadTimeoutStep ==
  ASSUME CaptureIInv, ReadTimeout
  PROVE  CaptureIInv'
<1>a. /\ LatchFault(audio) \in Audio /\ Same(LatchFault(audio), audio)
      /\ LatchFault(audio).fault /\ LatchFault(audio).cut_moved = audio.cut_moved
  BY LatchFields DEF TypeOK
<1>1. /\ reader.at \in {"read"}
      /\ audio.enabled /\ ~audio.done /\ ~audio.quiescent /\ audio.state \notin AtRest
      /\ owner.at \notin Starting \ {"enabled"} /\ owner.at # "seal"
      /\ audio' \in Audio /\ Same(audio', audio) /\ audio'.fault
      /\ audio'.cut_moved = audio.cut_moved
      /\ reader'.at = "after"
      /\ UNCHANGED <<run, faulty, rx, seq, held, pin, switch, edge, queue, recorder, main,
                     requests, owner, cut>>
  <2>1. reader.at \in {"read"}
    BY <1>a DEF ReadTimeout, Go, mic, TypeOK
  <2>2. /\ audio.enabled /\ ~audio.done /\ ~audio.quiescent /\ audio.state \notin AtRest
        /\ owner.at \notin Starting \ {"enabled"} /\ owner.at # "seal"
    BY Reading DEF ReadTimeout
  <2>3. /\ audio' \in Audio /\ Same(audio', audio) /\ audio'.fault
        /\ audio'.cut_moved = audio.cut_moved
        /\ reader'.at = "after"
        /\ UNCHANGED <<run, faulty, rx, seq, held, pin, switch, edge, queue, recorder, main,
                       requests, owner, cut>>
    BY <1>a DEF ReadTimeout, Go, mic, TypeOK
  <2> QED BY <2>1, <2>2, <2>3
<1>2. TypeOK'
  <2>1. reader' \in [at : {"idle", "read", "drain", "accept", "publish", "after"},
                     block : 0 .. MaxBlocks]
    BY CaptureAssumption DEF ReadTimeout, Go
  <2> QED BY <1>1, <2>1 DEF TypeOK
<1>3. QuiescentIsDrained' /\ Blocks' /\ Turns' /\ Recording' /\ Powered' /\ Switched' /\
      CutLatched'
  BY <1>1 DEF QuiescentIsDrained, Mic!Drained, Blocks, Turns, Recording, Powered, Switched,
              SwitchCutsPower, CutLatched, Same
<1>4. Consecutive' /\ Tracked' /\ Complete'
  BY <1>1 DEF Consecutive, Tracked, Kept, Complete, Due, Same
<1> QED BY <1>2, <1>3, <1>4

LEMMA AcceptStep ==
  ASSUME CaptureIInv, Accept
  PROVE  CaptureIInv'
<1> DEFINE counted == [audio EXCEPT !.expected = reader.block]
<1>a. /\ audio \in Audio /\ reader.at = "accept" /\ held = 1 /\ reader.block \in Block
      /\ Block \subseteq 0 .. MaxBlocks
  BY DEF TypeOK, Accept, Blocks, Block
<1>b. /\ LatchFault(audio) \in Audio /\ Same(LatchFault(audio), audio)
      /\ LatchFault(audio).fault /\ LatchFault(audio).cut_moved = audio.cut_moved
  BY <1>a, LatchFields
<1>c. /\ counted \in Audio /\ counted.state = audio.state /\ counted.ending = audio.ending
      /\ counted.published = audio.published /\ counted.enabled = audio.enabled
      /\ counted.done = audio.done /\ counted.quiescent = audio.quiescent
      /\ counted.expected = reader.block /\ counted.warmup = audio.warmup
      /\ counted.fault = audio.fault /\ counted.cut_moved = audio.cut_moved
  BY <1>a DEF Audio
<1> HIDE DEF counted
<1>d. /\ LatchFault(counted) \in Audio /\ Same(LatchFault(counted), counted)
      /\ LatchFault(counted).fault /\ LatchFault(counted).cut_moved = counted.cut_moved
  BY <1>c, LatchFields
<1> DEFINE less == [counted EXCEPT !.warmup = @ - 1]
<1>e. audio.warmup > 0 =>
        /\ less \in Audio /\ less.state = audio.state /\ less.ending = audio.ending
        /\ less.published = audio.published /\ less.enabled = audio.enabled
        /\ less.done = audio.done /\ less.quiescent = audio.quiescent
        /\ less.expected = reader.block /\ less.warmup = audio.warmup - 1
        /\ less.fault = audio.fault /\ less.cut_moved = audio.cut_moved
  <2>1. SUFFICES ASSUME audio.warmup > 0
                 PROVE  less \in Audio /\ less.warmup = audio.warmup - 1
    BY <1>c DEF Audio
  <2>2. counted.warmup - 1 \in 0 .. Warmup
    BY <1>a, <1>c, <2>1, CaptureAssumption DEF Audio
  <2>3. less = [counted EXCEPT !.warmup = counted.warmup - 1]
    BY <1>c DEF Audio
  <2> HIDE DEF less
  <2>4. less \in Audio
    BY <1>c, <2>2, <2>3 DEF Audio
  <2>5. less.warmup = counted.warmup - 1
    BY <1>c, <2>3 DEF Audio
  <2> QED BY <1>c, <2>4, <2>5
<1> HIDE DEF less
<1>f. /\ UNCHANGED <<pin, switch, edge, queue, recorder, main, requests, owner, cut>>
      /\ \/ /\ audio' = LatchFault(audio) /\ Mic!Free /\ AfterBlock
         \/ /\ audio' = LatchFault(counted) /\ Mic!Free /\ AfterBlock
            /\ ~faulty /\ reader.block = audio.expected + 1
         \/ /\ audio' = less /\ Mic!Free /\ AfterBlock /\ audio.warmup > 0
            /\ ~faulty /\ reader.block = audio.expected + 1
         \/ /\ audio' = counted /\ UNCHANGED mic /\ reader' = [reader EXCEPT !.at = "publish"]
            /\ ~(audio.warmup > 0) /\ ~faulty /\ reader.block = audio.expected + 1
  BY DEF Accept, counted, less
<1>g. /\ Mic!Free /\ AfterBlock =>
           /\ held' = 0 /\ reader'.at \in {"drain", "after"} /\ reader'.block = 0
           /\ reader'.at = "drain" => audio'.ending \/ audio.ending
           /\ UNCHANGED <<run, faulty, rx, seq>>
      /\ UNCHANGED mic => UNCHANGED <<run, faulty, rx, seq, held>>
  BY <1>a DEF Mic!Free, AfterBlock, Go, mic
<1>h. audio.expected \in Nat /\ audio.warmup \in Nat
  BY <1>a DEF Audio
<1>1. /\ reader.at \in {"accept"}
      /\ audio.enabled /\ ~audio.done /\ ~audio.quiescent /\ audio.state \notin AtRest
      /\ owner.at \notin Starting \ {"enabled"} /\ owner.at # "seal"
      /\ audio' \in Audio /\ (audio.fault => audio'.fault)
      /\ audio'.cut_moved = audio.cut_moved
      /\ audio'.state = audio.state /\ audio'.ending = audio.ending /\ audio'.published = audio.published
      /\ audio'.enabled = audio.enabled /\ audio'.done = audio.done /\ audio'.quiescent = audio.quiescent
      /\ held = 1 /\ reader.block \in Block
      /\ \/ /\ held' = 0 /\ audio'.fault /\ audio'.expected \in {audio.expected, reader.block}
            /\ audio.expected <= audio'.expected /\ audio'.warmup = audio.warmup
            /\ reader'.at \in {"drain", "after"} /\ (reader'.at = "drain" => audio.ending)
         \/ /\ held' = 0 /\ ~faulty /\ audio'.expected = reader.block
            /\ reader.block = audio.expected + 1
            /\ audio.warmup > 0 /\ audio'.warmup = audio.warmup - 1
            /\ audio'.fault = audio.fault
            /\ reader'.at \in {"drain", "after"} /\ (reader'.at = "drain" => audio.ending)
         \/ /\ held' = 1 /\ ~faulty /\ audio'.expected = reader.block
            /\ reader.block = audio.expected + 1
            /\ audio.warmup = 0 /\ audio'.warmup = 0 /\ audio'.fault = audio.fault
            /\ reader'.at = "publish" /\ reader'.block = reader.block
      /\ UNCHANGED <<run, faulty, rx, seq, pin, switch, edge, queue, recorder, main,
                     requests, owner, cut>>
  <2>1. reader.at \in {"accept"}
    BY <1>a DEF Accept, Go, mic, TypeOK
  <2>2. /\ audio.enabled /\ ~audio.done /\ ~audio.quiescent /\ audio.state \notin AtRest
        /\ owner.at \notin Starting \ {"enabled"} /\ owner.at # "seal"
    BY Reading DEF Accept
  <2>3. /\ audio' \in Audio /\ (audio.fault => audio'.fault)
        /\ audio'.cut_moved = audio.cut_moved
        /\ audio'.state = audio.state /\ audio'.ending = audio.ending /\ audio'.published = audio.published
        /\ audio'.enabled = audio.enabled /\ audio'.done = audio.done /\ audio'.quiescent = audio.quiescent
    BY <1>b, <1>c, <1>d, <1>e, <1>f DEF Same
  <2>4. held = 1 /\ reader.block \in Block
    BY <1>a
  <2>5. \/ /\ held' = 0 /\ audio'.fault /\ audio'.expected \in {audio.expected, reader.block}
           /\ audio.expected <= audio'.expected /\ audio'.warmup = audio.warmup
           /\ reader'.at \in {"drain", "after"} /\ (reader'.at = "drain" => audio.ending)
        \/ /\ held' = 0 /\ ~faulty /\ audio'.expected = reader.block
           /\ reader.block = audio.expected + 1
           /\ audio.warmup > 0 /\ audio'.warmup = audio.warmup - 1
           /\ audio'.fault = audio.fault
           /\ reader'.at \in {"drain", "after"} /\ (reader'.at = "drain" => audio.ending)
        \/ /\ held' = 1 /\ ~faulty /\ audio'.expected = reader.block
           /\ reader.block = audio.expected + 1
           /\ audio.warmup = 0 /\ audio'.warmup = 0 /\ audio'.fault = audio.fault
           /\ reader'.at = "publish" /\ reader'.block = reader.block
    <3>1. reader.block = audio.expected + 1 => audio.expected <= reader.block
      BY <1>h
    <3>2. CASE audio' = LatchFault(audio) /\ Mic!Free /\ AfterBlock
      BY <1>b, <1>g, <1>h, <3>2 DEF Same
    <3>3. CASE /\ audio' = LatchFault(counted) /\ Mic!Free /\ AfterBlock
               /\ ~faulty /\ reader.block = audio.expected + 1
      BY <1>c, <1>d, <1>g, <3>1, <3>3 DEF Same
    <3>4. CASE /\ audio' = less /\ Mic!Free /\ AfterBlock /\ audio.warmup > 0
               /\ ~faulty /\ reader.block = audio.expected + 1
      BY <1>e, <1>g, <3>4
    <3>5. CASE /\ audio' = counted /\ UNCHANGED mic /\ reader' = [reader EXCEPT !.at = "publish"]
               /\ ~(audio.warmup > 0) /\ ~faulty /\ reader.block = audio.expected + 1
      <4>1. reader'.at = "publish" /\ reader'.block = reader.block
        BY <3>5 DEF TypeOK
      <4> QED BY <1>a, <1>c, <1>g, <1>h, <3>5, <4>1
    <3> QED BY <1>f, <3>2, <3>3, <3>4, <3>5
  <2>6. UNCHANGED <<run, faulty, rx, seq, pin, switch, edge, queue, recorder, main,
                    requests, owner, cut>>
    BY <1>f, <1>g
  <2> QED BY <2>1, <2>2, <2>3, <2>4, <2>5, <2>6
<1>2. TypeOK'
  <2>1. reader' \in [at : {"drain", "after", "publish"}, block : 0 .. MaxBlocks]
    <3>1. CASE AfterBlock
      BY <3>1, CaptureAssumption DEF AfterBlock, Go
    <3>2. CASE reader' = [reader EXCEPT !.at = "publish"]
      BY <3>2 DEF TypeOK
    <3> QED BY <1>f, <3>1, <3>2
  <2>2. held' \in 0 .. 1
    BY <1>1
  <2> QED BY <1>1, <2>1, <2>2 DEF TypeOK
<1>3. QuiescentIsDrained' /\ Turns' /\ Recording' /\ Powered' /\ Switched' /\ CutLatched'
  BY <1>1 DEF QuiescentIsDrained, Mic!Drained, Turns, Recording, Powered, Switched,
              SwitchCutsPower, CutLatched
<1>4. Blocks'
  <2>1. /\ audio.published <= audio.expected /\ audio.published \in Nat
        /\ audio.expected \in Nat /\ audio'.expected \in Nat
    BY <1>1, <1>a DEF Blocks, Audio
  <2> QED BY <1>1, <2>1 DEF Blocks
<1>5. Consecutive' /\ Complete'
  BY <1>1 DEF Consecutive, Complete, Due
<1>6. Tracked'
  <2>1. audio.expected \in Nat /\ audio.warmup \in Nat /\ Warmup \in Nat
    BY <1>a, CaptureAssumption DEF Audio
  <2>2. CASE held' = 0 /\ ~audio'.fault
    <3>1. SUFFICES ASSUME recorder.state = "recording" PROVE Tracked'
      BY <1>1 DEF Tracked
    <3>2. audio.expected + audio.warmup = Warmup /\ Kept = 0 /\ Kept' = 0 /\ Held' = 0 /\ Read' = 0
      BY <1>1, <2>2, <3>1 DEF Tracked, Kept
    <3>3. /\ seq = audio.expected + 1 + Len(rx)
          /\ \A i \in 1 .. Len(rx) : rx[i] = audio.expected + 1 + i
      BY <1>1, <2>2, <3>1 DEF Tracked
    <3>4. /\ audio'.published = Kept'
          /\ audio'.expected = audio.expected + 1 /\ audio'.warmup = audio.warmup - 1
          /\ reader'.at # "accept"
      BY <1>1, <2>2, <3>1, <3>2 DEF Tracked
    <3>5. /\ audio'.expected + audio'.warmup = Warmup
          /\ ~(audio'.warmup > 0) => audio'.expected = Warmup + Kept' + Held'
      BY <2>1, <2>2, <1>1, <3>2, <3>4
    <3>6. /\ seq = audio'.expected + 0 + Len(rx)
          /\ \A i \in 1 .. Len(rx) : rx[i] = audio'.expected + 0 + i
      BY <2>1, <3>3, <3>4
    <3> QED BY <1>1, <3>2, <3>4, <3>5, <3>6 DEF Tracked
  <2>3. CASE held' = 1
    <3>1. SUFFICES ASSUME recorder.state = "recording", ~audio.fault PROVE Tracked'
      BY <1>1, <2>3 DEF Tracked
    <3>2. /\ audio.expected = Warmup + Kept + 0 /\ Kept' = Kept /\ Held' = 1 /\ Read' = 0
          /\ audio.published = Kept /\ Kept \in Nat
      BY <1>1, <2>3, <3>1 DEF Tracked, Kept, TypeOK
    <3>3. /\ seq = audio.expected + 1 + Len(rx)
          /\ \A i \in 1 .. Len(rx) : rx[i] = audio.expected + 1 + i
      BY <1>1, <2>3, <3>1 DEF Tracked
    <3>4. audio'.expected = Warmup + Kept' + Held' /\ audio'.published = Kept'
      BY <2>1, <2>3, <1>1, <3>2
    <3>6. /\ seq = audio'.expected + 0 + Len(rx)
          /\ \A i \in 1 .. Len(rx) : rx[i] = audio'.expected + 0 + i
      BY <2>1, <2>3, <1>1, <3>3
    <3>7. ~(audio'.warmup > 0) /\ reader'.at # "accept"
      BY <1>1, <2>3
    <3> QED BY <1>1, <2>3, <3>2, <3>4, <3>6, <3>7 DEF Tracked
  <2>4. CASE audio'.fault
    BY <2>4 DEF Tracked
  <2> QED BY <1>1, <2>2, <2>3, <2>4
<1> QED BY <1>2, <1>3, <1>4, <1>5, <1>6

LEMMA PublishStep ==
  ASSUME CaptureIInv, Publish
  PROVE  CaptureIInv'
<1>a. /\ LatchFault(audio) \in Audio /\ Same(LatchFault(audio), audio)
      /\ LatchFault(audio).fault /\ LatchFault(audio).cut_moved = audio.cut_moved
  BY LatchFields DEF TypeOK
<1>b. /\ reader.at = "publish" /\ held = 1 /\ reader.block = audio.expected
      /\ audio.published + 1 <= audio.expected
      /\ audio.expected \in 0 .. MaxBlocks /\ audio.published \in 0 .. MaxBlocks
  BY DEF Publish, Blocks, TypeOK, Audio
<1>c. /\ audio.published + 1 \in 0 .. MaxBlocks /\ reader.block \in Block
  BY <1>b, CaptureAssumption DEF Block
<1> DEFINE a == [audio EXCEPT !.published = @ + 1,
                              !.state = IF audio.ending THEN @ ELSE "capturing"]
<1>d. /\ a \in Audio /\ a.state = (IF audio.ending THEN audio.state ELSE "capturing")
      /\ a.ending = audio.ending /\ a.warmup = audio.warmup /\ a.expected = audio.expected
      /\ a.enabled = audio.enabled /\ a.done = audio.done /\ a.quiescent = audio.quiescent
      /\ a.published = audio.published + 1 /\ a.fault = audio.fault
      /\ a.cut_moved = audio.cut_moved
  BY <1>c DEF TypeOK, Audio
<1> HIDE DEF a
<1>e. /\ Mic!Free /\ AfterBlock
      /\ \/ audio' = LatchFault(audio) /\ UNCHANGED queue
         \/ /\ queue' = Append(queue, reader.block) /\ audio' = a
            /\ ~audio.fault /\ Len(queue) # QueueSize
      /\ UNCHANGED <<pin, switch, edge, recorder, main, requests, owner, cut>>
  BY DEF Publish, Put, a
<1>1. /\ reader.at \in {"publish"}
      /\ audio.enabled /\ ~audio.done /\ ~audio.quiescent /\ audio.state \notin AtRest
      /\ owner.at \notin Starting \ {"enabled"} /\ owner.at # "seal"
      /\ audio' \in Audio /\ (audio.fault => audio'.fault)
      /\ audio'.cut_moved = audio.cut_moved
      /\ audio'.ending = audio.ending /\ audio'.warmup = audio.warmup /\ audio'.expected = audio.expected
      /\ audio'.enabled = audio.enabled /\ audio'.done = audio.done /\ audio'.quiescent = audio.quiescent
      /\ held' = 0 /\ reader'.at \in {"drain", "after"} /\ (reader'.at = "drain" => audio.ending)
      /\ audio'.state \in {audio.state, "capturing"} /\ (audio'.state # audio.state => ~audio.ending)
      /\ \/ audio'.fault /\ audio'.published = audio.published /\ UNCHANGED queue
         \/ /\ ~audio.fault /\ audio'.fault = audio.fault /\ queue' = Append(queue, reader.block)
            /\ audio'.published = audio.published + 1 /\ Len(queue) # QueueSize
            /\ reader.block = audio.expected /\ reader.block \in Block
      /\ UNCHANGED <<run, faulty, rx, seq, pin, switch, edge, recorder, main, requests,
                     owner, cut>>
  <2>1. reader.at \in {"publish"}
    BY <1>a DEF Publish, Go, mic, TypeOK
  <2>2. /\ audio.enabled /\ ~audio.done /\ ~audio.quiescent /\ audio.state \notin AtRest
        /\ owner.at \notin Starting \ {"enabled"} /\ owner.at # "seal"
    BY Reading DEF Publish
  <2>3. /\ audio' \in Audio /\ (audio.fault => audio'.fault)
        /\ audio'.cut_moved = audio.cut_moved
        /\ audio'.ending = audio.ending /\ audio'.warmup = audio.warmup /\ audio'.expected = audio.expected
        /\ audio'.enabled = audio.enabled /\ audio'.done = audio.done /\ audio'.quiescent = audio.quiescent
    BY <1>a, <1>b, <1>d, <1>e DEF Same
  <2>4. held' = 0 /\ reader'.at \in {"drain", "after"} /\ (reader'.at = "drain" => audio.ending)
    BY <1>b, <1>e DEF Mic!Free, AfterBlock, Go
  <2>5. audio'.state \in {audio.state, "capturing"} /\ (audio'.state # audio.state => ~audio.ending)
    BY <1>a, <1>b, <1>d, <1>e DEF Same
  <2>6. \/ audio'.fault /\ audio'.published = audio.published /\ UNCHANGED queue
        \/ /\ ~audio.fault /\ audio'.fault = audio.fault /\ queue' = Append(queue, reader.block)
           /\ audio'.published = audio.published + 1 /\ Len(queue) # QueueSize
           /\ reader.block = audio.expected /\ reader.block \in Block
    BY <1>a, <1>b, <1>c, <1>d, <1>e DEF Same
  <2>7. UNCHANGED <<run, faulty, rx, seq, pin, switch, edge, recorder, main, requests,
                    owner, cut>>
    BY <1>e DEF Mic!Free
  <2> QED BY <2>1, <2>2, <2>3, <2>4, <2>5, <2>6, <2>7
<1>2. TypeOK'
  <2>1. reader' \in [at : {"drain", "after"}, block : 0 .. MaxBlocks]
    BY <1>e, CaptureAssumption DEF AfterBlock, Go
  <2>2. queue' \in Seq(Block) /\ Len(queue') <= QueueSize
    <3>1. CASE UNCHANGED queue
      BY <3>1 DEF TypeOK, Block
    <3>2. CASE queue' = Append(queue, reader.block) /\ Len(queue) # QueueSize
      BY <1>c, <3>2, CaptureAssumption DEF TypeOK, Block
    <3> QED BY <1>e, <3>1, <3>2
  <2>3. held' \in 0 .. 1
    BY <1>1
  <2> QED BY <1>1, <2>1, <2>2, <2>3 DEF TypeOK, Block
<1>3. QuiescentIsDrained' /\ Turns' /\ Recording' /\ Powered' /\ Switched' /\ CutLatched'
  BY <1>1 DEF QuiescentIsDrained, Mic!Drained, Turns, Recording, Powered, Switched,
              SwitchCutsPower, CutLatched
<1>4. Blocks'
  BY <1>1, <1>b DEF Blocks
<1>5. Complete'
  BY <1>1 DEF Complete, Due
<1>6. Consecutive'
  <2>1. CASE UNCHANGED queue
    BY <1>1, <2>1 DEF Consecutive
  <2>2. CASE queue' = Append(queue, reader.block) /\ ~audio.fault /\ recorder.state = "recording"
    <3>1. audio.expected = Warmup + Kept + 1 /\ Kept = Len(recorder.blocks) + Len(queue)
      BY <1>b, <2>2 DEF Tracked, Kept
    <3>2. /\ queue \in Seq(Block) /\ Len(queue) \in Nat
          /\ recorder.blocks \in Seq(Block) /\ Len(recorder.blocks) \in Nat /\ Warmup \in Nat
      BY CaptureAssumption DEF TypeOK, Block
    <3>3. /\ Len(queue') = Len(queue) + 1 /\ queue'[Len(queue) + 1] = reader.block
          /\ \A i \in 1 .. Len(queue) : queue'[i] = queue[i]
      BY <1>c, <2>2 DEF TypeOK, Block
    <3>4. ASSUME NEW i \in 1 .. Len(queue')
          PROVE  queue'[i] = Warmup + Len(recorder.blocks) + i
      <4>1. CASE i = Len(queue) + 1
        <5>1. queue'[i] = audio.expected
          BY <1>b, <3>3, <4>1
        <5>2. Warmup + Kept + 1 = Warmup + Len(recorder.blocks) + i
          BY <3>1, <3>2, <4>1, Counting
        <5> QED BY <3>1, <5>1, <5>2
      <4>2. CASE i # Len(queue) + 1
        <5>1. i \in 1 .. Len(queue)
          BY <3>2, <3>3, <4>2
        <5> QED BY <2>2, <3>3, <5>1 DEF Consecutive
      <4> QED BY <4>1, <4>2
    <3> QED BY <1>1, <2>2, <3>4 DEF Consecutive
  <2> QED BY <1>1, <2>1, <2>2 DEF Consecutive
<1>7. Tracked'
  <2>1. SUFFICES ASSUME recorder.state = "recording", ~audio'.fault, ~audio.fault
                 PROVE  Tracked'
    BY <1>1 DEF Tracked
  <2>2. /\ audio.published = Kept /\ audio.expected = Warmup + Kept + 1 /\ ~(audio.warmup > 0)
        /\ Kept = Len(recorder.blocks) + Len(queue)
    BY <1>b, <2>1 DEF Tracked, Kept
  <2>3. /\ queue \in Seq(Block) /\ Len(queue) \in Nat
        /\ recorder.blocks \in Seq(Block) /\ Len(recorder.blocks) \in Nat /\ Warmup \in Nat
    BY CaptureAssumption DEF TypeOK, Block
  <2>4. Len(queue') = Len(queue) + 1 /\ audio'.published = audio.published + 1
    BY <1>1, <2>1 DEF TypeOK, Block
  <2>5. audio'.published = Kept' /\ audio'.expected = Warmup + Kept' + 0 /\ Held' = 0 /\ Read' = 0
    <3>1. /\ Kept' = Kept + 1
          /\ Held' = 0 /\ Read' = 0 /\ audio'.expected = audio.expected
      <4>1. Kept' = Len(recorder.blocks) + Len(queue')
        BY <1>1 DEF Kept
      <4>2. Len(recorder.blocks) + (Len(queue) + 1) = (Len(recorder.blocks) + Len(queue)) + 1
        BY <2>3, Counting
      <4> QED BY <1>1, <2>2, <2>4, <4>1, <4>2
    <3>2. Kept \in Nat
      BY <2>2, <2>3
    <3> QED BY <2>2, <2>3, <2>4, <3>1, <3>2
  <2>6. ~faulty => /\ seq = audio.expected + 0 + Len(rx)
                   /\ \A i \in 1 .. Len(rx) : rx[i] = audio.expected + 0 + i
    BY <1>b, <2>1 DEF Tracked
  <2> QED BY <1>1, <2>1, <2>2, <2>5, <2>6 DEF Tracked
<1> QED BY <1>2, <1>3, <1>4, <1>5, <1>6, <1>7

LEMMA AfterReadStep ==
  ASSUME CaptureIInv, AfterRead
  PROVE  CaptureIInv'
<1>b. /\ reader.at = "after" /\ Go("idle")
      /\ StopDevice(audio) \/ UNCHANGED <<mic, audio, pin>>
      /\ UNCHANGED <<switch, edge, queue, recorder, main, requests, owner, cut>>
  BY DEF AfterRead
<1>c. StopDevice(audio) =>
        /\ audio' \in Audio /\ (audio.fault => audio'.fault)
        /\ audio'.cut_moved = audio.cut_moved
        /\ audio'.enabled = audio.enabled /\ audio'.done = audio.done
        /\ audio'.quiescent = audio.quiescent /\ audio'.warmup = audio.warmup
        /\ audio'.expected = audio.expected /\ audio'.published = audio.published
        /\ audio'.ending /\ audio'.state = "stopping" /\ ~pin' /\ pin' \in BOOLEAN
        /\ UNCHANGED <<rx, seq, held>> /\ run' \in {"on", "stopping", "off"}
        /\ faulty' \in BOOLEAN /\ (faulty => faulty')
  <2>1. SUFFICES ASSUME StopDevice(audio)
                 PROVE  /\ UNCHANGED <<rx, seq, held>> /\ run' \in {"on", "stopping", "off"}
                        /\ pin' \in BOOLEAN /\ faulty' \in BOOLEAN /\ (faulty => faulty')
    BY StopFields DEF TypeOK
  <2>2. UNCHANGED <<rx, seq, held>> /\ run' \in {"on", "stopping", "off"}
    BY <2>1 DEF StopDevice, Mic!Stop, Mic!Ending, TypeOK
  <2>3. pin' = FALSE /\ (faulty' = faulty \/ faulty' = TRUE)
    BY <2>1 DEF StopDevice, Mic!Stop
  <2>4. CASE faulty' = faulty
    BY <2>2, <2>3, <2>4 DEF TypeOK
  <2>5. CASE faulty' = TRUE
    BY <2>2, <2>3, <2>5
  <2> QED BY <2>3, <2>4, <2>5
<1>1. /\ reader.at \in {"after"}
      /\ audio.enabled /\ ~audio.done /\ ~audio.quiescent /\ audio.state \notin AtRest
      /\ owner.at \notin Starting \ {"enabled"} /\ owner.at # "seal"
      /\ audio' \in Audio /\ (audio.fault => audio'.fault)
      /\ audio'.cut_moved = audio.cut_moved
      /\ audio'.enabled = audio.enabled /\ audio'.done = audio.done /\ audio'.quiescent = audio.quiescent
      /\ audio'.warmup = audio.warmup /\ audio'.expected = audio.expected /\ audio'.published = audio.published
      /\ \/ /\ reader'.at \in {"read", "drain", "idle"} /\ UNCHANGED <<audio, pin, run,
                                                                       faulty>>
            /\ reader'.at = "drain" => audio.ending
         \/ /\ reader'.at \in {"drain", "idle"} /\ audio'.ending /\ audio'.state = "stopping" /\ ~pin'
            /\ pin' \in BOOLEAN /\ run' \in {"on", "stopping", "off"}
            /\ faulty' \in BOOLEAN /\ (faulty => faulty')
      /\ UNCHANGED <<rx, seq, held, switch, edge, queue, recorder, main, requests, owner,
                     cut>>
  <2>1. reader.at \in {"after"}
    BY <1>b, <1>c DEF AfterRead, Go, mic, TypeOK
  <2>2. /\ audio.enabled /\ ~audio.done /\ ~audio.quiescent /\ audio.state \notin AtRest
        /\ owner.at \notin Starting \ {"enabled"} /\ owner.at # "seal"
    BY Reading DEF AfterRead
  <2>3. /\ audio' \in Audio /\ (audio.fault => audio'.fault)
        /\ audio'.cut_moved = audio.cut_moved
        /\ audio'.enabled = audio.enabled /\ audio'.done = audio.done /\ audio'.quiescent = audio.quiescent
        /\ audio'.warmup = audio.warmup /\ audio'.expected = audio.expected /\ audio'.published = audio.published
    BY <1>b, <1>c DEF mic, TypeOK
  <2>4. \/ /\ reader'.at \in {"read", "drain", "idle"} /\ UNCHANGED <<audio, pin, run,
                                                                      faulty>>
           /\ reader'.at = "drain" => audio.ending
        \/ /\ reader'.at \in {"drain", "idle"} /\ audio'.ending /\ audio'.state = "stopping" /\ ~pin'
           /\ pin' \in BOOLEAN /\ run' \in {"on", "stopping", "off"}
           /\ faulty' \in BOOLEAN /\ (faulty => faulty')
    <3>1. reader'.at = "idle"
      BY <1>b DEF Go
    <3>2. CASE StopDevice(audio)
      BY <1>c, <3>1, <3>2
    <3>3. CASE UNCHANGED <<mic, audio, pin>>
      BY <3>1, <3>3 DEF mic
    <3> QED BY <1>b, <3>2, <3>3
  <2>5. UNCHANGED <<rx, seq, held, switch, edge, queue, recorder, main, requests, owner,
                    cut>>
    BY <1>b, <1>c DEF mic, TypeOK
  <2> QED BY <2>1, <2>2, <2>3, <2>4, <2>5
<1>2. TypeOK'
  <2>1. reader' \in [at : {"idle", "read", "drain", "accept", "publish", "after"},
                     block : 0 .. MaxBlocks]
    BY <1>b, CaptureAssumption DEF Go
  <2> QED BY <1>1, <2>1 DEF TypeOK
<1>3. Blocks' /\ Turns' /\ Powered' /\ Switched' /\ CutLatched'
  BY <1>1 DEF Blocks, Turns, Powered, Switched, SwitchCutsPower, CutLatched
<1>4. QuiescentIsDrained'
  BY <1>1 DEF QuiescentIsDrained
<1>5. Recording'
  BY <1>1 DEF Recording
<1>6. Consecutive' /\ Tracked' /\ Complete'
  BY <1>1 DEF Consecutive, Tracked, Kept, Complete, Due
<1> QED BY <1>2, <1>3, <1>4, <1>5, <1>6

LEMMA DrainStopStep ==
  ASSUME CaptureIInv, DrainStop
  PROVE  CaptureIInv'
<1> DEFINE a == IF faulty THEN LatchFault(audio) ELSE audio
           drained == [a EXCEPT !.quiescent = TRUE, !.enabled = FALSE, !.done = TRUE,
                                !.late = FALSE]
           lost == [LatchFault(a) EXCEPT !.state = "quarantined", !.enabled = FALSE,
                                         !.done = TRUE]
<1>a. /\ a \in Audio /\ Same(a, audio) /\ a.cut_moved = audio.cut_moved
      /\ audio.fault => a.fault
      /\ faulty => a.fault
  BY LatchFields DEF TypeOK, Same
<1> HIDE DEF a
<1>b. /\ drained \in Audio /\ drained.quiescent /\ ~drained.enabled /\ drained.done
      /\ drained.state = a.state /\ drained.ending = a.ending /\ drained.fault = a.fault
      /\ drained.warmup = a.warmup /\ drained.expected = a.expected
      /\ drained.published = a.published /\ drained.cut_moved = a.cut_moved
  BY <1>a DEF Audio
<1>c. /\ LatchFault(a) \in Audio /\ Same(LatchFault(a), a) /\ LatchFault(a).fault
      /\ LatchFault(a).cut_moved = a.cut_moved
  BY <1>a, LatchFields
<1>d. /\ lost \in Audio /\ ~lost.enabled /\ lost.done /\ lost.state = "quarantined"
      /\ lost.quiescent = a.quiescent /\ lost.ending = a.ending /\ lost.fault
      /\ lost.warmup = a.warmup /\ lost.expected = a.expected
      /\ lost.published = a.published /\ lost.cut_moved = a.cut_moved
  BY <1>c DEF Audio, Same
<1> HIDE DEF drained, lost
<1>e. /\ reader.at = "drain" /\ Go("idle")
      /\ \/ Mic!Drained /\ audio' = drained /\ UNCHANGED pin
         \/ audio' = lost /\ pin' = FALSE
         \/ audio' = a /\ UNCHANGED pin
      /\ UNCHANGED <<mic, switch, edge, queue, recorder, main, requests, owner, cut>>
  BY DEF DrainStop, DrainVerdict, a, drained, lost
<1>f. audio.ending /\ ~pin /\ pin \in BOOLEAN /\ ~audio.quiescent
  BY <1>e, Reading DEF Turns, Powered, TypeOK
<1>1. /\ reader.at \in {"drain"}
      /\ audio.enabled /\ ~audio.done /\ ~audio.quiescent /\ audio.state \notin AtRest
      /\ owner.at \notin Starting \ {"enabled"} /\ owner.at # "seal"
      /\ audio' \in Audio /\ (audio.fault => audio'.fault)
      /\ audio'.cut_moved = audio.cut_moved
      /\ audio'.ending = audio.ending
      /\ audio'.warmup = audio.warmup /\ audio'.expected = audio.expected /\ audio'.published = audio.published
      /\ reader'.at = "idle" /\ audio.ending /\ ~pin' /\ pin' \in BOOLEAN
      /\ \/ /\ audio'.quiescent /\ ~audio'.enabled /\ audio'.done /\ Mic!Drained
            /\ audio'.state = audio.state /\ (faulty => audio'.fault)
         \/ /\ audio'.fault /\ audio'.state = "quarantined" /\ ~audio'.enabled /\ audio'.done
            /\ ~audio'.quiescent
         \/ /\ audio'.state = audio.state /\ audio'.enabled = audio.enabled
            /\ audio'.done = audio.done /\ audio'.quiescent = audio.quiescent
      /\ UNCHANGED <<run, faulty, rx, seq, held, switch, edge, queue, recorder, main,
                     requests, owner, cut>>
  <2>1. reader.at \in {"drain"}
    BY <1>a DEF DrainStop, Go, mic, TypeOK
  <2>2. /\ audio.enabled /\ ~audio.done /\ ~audio.quiescent /\ audio.state \notin AtRest
        /\ owner.at \notin Starting \ {"enabled"} /\ owner.at # "seal"
    BY Reading DEF DrainStop
  <2>3. /\ audio' \in Audio /\ (audio.fault => audio'.fault)
        /\ audio'.cut_moved = audio.cut_moved
        /\ audio'.ending = audio.ending
        /\ audio'.warmup = audio.warmup /\ audio'.expected = audio.expected /\ audio'.published = audio.published
    BY <1>a, <1>b, <1>d, <1>e DEF Same
  <2>4. reader'.at = "idle" /\ audio.ending /\ ~pin' /\ pin' \in BOOLEAN
    <3>1. pin' = pin \/ pin' = FALSE
      BY <1>e
    <3>2. ~pin' /\ pin' \in BOOLEAN
      <4>1. CASE pin' = pin
        BY <1>f, <4>1
      <4>2. CASE pin' = FALSE
        BY <4>2
      <4> QED BY <3>1, <4>1, <4>2
    <3> QED BY <1>e, <1>f, <3>2 DEF Go
  <2>5. \/ /\ audio'.quiescent /\ ~audio'.enabled /\ audio'.done /\ Mic!Drained
           /\ audio'.state = audio.state /\ (faulty => audio'.fault)
        \/ /\ audio'.fault /\ audio'.state = "quarantined" /\ ~audio'.enabled /\ audio'.done
           /\ ~audio'.quiescent
        \/ /\ audio'.state = audio.state /\ audio'.enabled = audio.enabled
           /\ audio'.done = audio.done /\ audio'.quiescent = audio.quiescent
    BY <1>a, <1>b, <1>d, <1>e, <1>f DEF Same
  <2>6. UNCHANGED <<run, faulty, rx, seq, held, switch, edge, queue, recorder, main,
                    requests, owner, cut>>
    BY <1>e DEF mic
  <2> QED BY <2>1, <2>2, <2>3, <2>4, <2>5, <2>6
<1>2. TypeOK'
  <2>1. reader' \in [at : {"idle", "read", "drain", "accept", "publish", "after"},
                     block : 0 .. MaxBlocks]
    BY <1>e, CaptureAssumption DEF Go
  <2> QED BY <1>1, <2>1 DEF TypeOK
<1>3. Blocks' /\ Powered' /\ Switched' /\ CutLatched'
  BY <1>1 DEF Blocks, Powered, Switched, SwitchCutsPower, CutLatched
<1>4. QuiescentIsDrained'
  BY <1>1 DEF QuiescentIsDrained, Mic!Drained
<1>5. Turns'
  BY <1>1 DEF Turns
<1>6. Recording'
  BY <1>1 DEF Recording
<1>7. Consecutive' /\ Complete'
  BY <1>1 DEF Consecutive, Complete, Due
<1>8. Tracked'
  <2>1. CASE audio'.quiescent \/ audio'.fault
    BY <1>1, <2>1 DEF Tracked, Kept
  <2>2. CASE ~audio'.quiescent /\ ~audio'.fault
    BY <1>1, <2>2 DEF Tracked, Kept
  <2> QED BY <2>1, <2>2
<1> QED BY <1>2, <1>3, <1>4, <1>5, <1>6, <1>7, <1>8

-----------------------------------------------------------------------------
(* The microphone. *)

LEMMA DeviceStep ==
  ASSUME CaptureIInv, Device
  PROVE  CaptureIInv'
<1>a. /\ run # "off" /\ run' \in {"on", "stopping", "off"} /\ rx \in Seq(Block)
      /\ seq \in 0 .. MaxBlocks /\ faulty \in BOOLEAN /\ seq \in Nat
      /\ faulty' = faulty \/ faulty' = TRUE
      /\ UNCHANGED <<held, pin, switch, edge, audio, queue, recorder, main, requests, owner,
                     reader, cut>>
  BY CaptureAssumption DEF Device, Mic!Device, Mic!Settle, Mic!Complete, Mic!Fail,
     Mic!Ending,
                           TypeOK, Blocks
<1>b. seq < MaxBlocks => seq + 1 \in 0 .. MaxBlocks /\ seq + 1 \in Block
  BY <1>a, CaptureAssumption DEF Block
<1>c. \/ UNCHANGED <<rx, seq, faulty>>
      \/ UNCHANGED <<rx, seq>> /\ faulty' = TRUE
      \/ /\ faulty' = TRUE /\ seq < MaxBlocks /\ seq' = seq + 1
         /\ rx' \in {rx, Append(rx, seq + 1)}
      \/ /\ ~faulty /\ UNCHANGED faulty /\ seq < MaxBlocks /\ seq' = seq + 1
         /\ rx' = Append(rx, seq + 1)
  BY DEF Device, Mic!Device, Mic!Settle, Mic!Complete, Mic!Fail
<1>d. ~(audio.quiescent /\ owner.at \notin {"undo", "enable"})
  BY <1>a DEF QuiescentIsDrained, Mic!Drained
<1>1. /\ run # "off" /\ run' \in {"on", "stopping", "off"} /\ faulty' \in BOOLEAN
      /\ \/ audio.enabled /\ ~audio.done
         \/ owner.at \in {"undo", "enable"}
         \/ audio.state = "quarantined" /\ audio.fault
      /\ \/ UNCHANGED <<rx, seq, faulty>>
         \/ UNCHANGED <<rx, seq>> /\ faulty'
         \/ /\ faulty' /\ seq' \in 0 .. MaxBlocks /\ rx' \in Seq(Block)
         \/ /\ ~faulty /\ UNCHANGED faulty /\ seq' = seq + 1 /\ seq' \in 0 .. MaxBlocks
            /\ seq \in Nat /\ seq' \in Block /\ rx' = Append(rx, seq + 1)
      /\ UNCHANGED <<held, pin, switch, edge, audio, queue, recorder, main, requests, owner,
                     reader, cut>>
  <2>1. run # "off" /\ run' \in {"on", "stopping", "off"} /\ faulty' \in BOOLEAN
    <3>1. faulty' \in BOOLEAN
      <4>1. CASE faulty' = faulty
        BY <1>a, <4>1
      <4>2. CASE faulty' = TRUE
        BY <4>2
      <4> QED BY <1>a, <4>1, <4>2
    <3> QED BY <1>a, <3>1
  <2>2. \/ audio.enabled /\ ~audio.done
        \/ owner.at \in {"undo", "enable"}
        \/ audio.state = "quarantined" /\ audio.fault
    BY <1>d DEF Turns
  <2>3. \/ UNCHANGED <<rx, seq, faulty>>
        \/ UNCHANGED <<rx, seq>> /\ faulty'
        \/ /\ faulty' /\ seq' \in 0 .. MaxBlocks /\ rx' \in Seq(Block)
        \/ /\ ~faulty /\ UNCHANGED faulty /\ seq' = seq + 1 /\ seq' \in 0 .. MaxBlocks
           /\ seq \in Nat /\ seq' \in Block /\ rx' = Append(rx, seq + 1)
    <3>1. CASE UNCHANGED <<rx, seq, faulty>>
      BY <3>1
    <3>2. CASE UNCHANGED <<rx, seq>> /\ faulty' = TRUE
      BY <3>2
    <3>3. CASE /\ faulty' = TRUE /\ seq < MaxBlocks /\ seq' = seq + 1
               /\ rx' \in {rx, Append(rx, seq + 1)}
      <4>1. seq + 1 \in Block /\ seq + 1 \in 0 .. MaxBlocks
        BY <1>b, <3>3
      <4>2. Append(rx, seq + 1) \in Seq(Block)
        BY <1>a, <4>1
      <4> QED BY <1>a, <3>3, <4>1, <4>2
    <3>4. CASE /\ ~faulty /\ UNCHANGED faulty /\ seq < MaxBlocks /\ seq' = seq + 1
               /\ rx' = Append(rx, seq + 1)
      BY <1>a, <1>b, <3>4
    <3> QED BY <1>c, <3>1, <3>2, <3>3, <3>4
  <2>4. UNCHANGED <<held, pin, switch, edge, audio, queue, recorder, main, requests, owner,
                    reader, cut>>
    BY <1>a
  <2> QED BY <2>1, <2>2, <2>3, <2>4
<1>2. TypeOK'
  <2>1. seq' \in 0 .. MaxBlocks
    BY <1>a, <1>b, <1>c
  <2> QED BY <1>1, <2>1 DEF TypeOK
<1>3. Turns' /\ Recording' /\ Powered' /\ Switched' /\ CutLatched'
  BY <1>1 DEF Turns, Recording, Powered, Switched, SwitchCutsPower, CutLatched
<1>4. QuiescentIsDrained'
  BY <1>1, <1>d DEF QuiescentIsDrained
<1>5. Blocks'
  <2>1. rx' \in Seq(Block)
    BY <1>1, <1>a, <1>b, <1>c
  <2> QED BY <1>1, <2>1 DEF Blocks
<1>6. Consecutive'
  BY <1>1 DEF Consecutive
<1>7. Tracked'
  <2>1. SUFFICES ASSUME recorder.state = "recording", ~audio.fault
                 PROVE  Tracked'
    BY <1>1 DEF Tracked
  <2>2. CASE faulty'
    BY <1>1, <2>1, <2>2 DEF Tracked, Kept
  <2>3. CASE UNCHANGED <<rx, seq, faulty>>
    BY <1>1, <2>1, <2>3 DEF Tracked, Kept
  <2>4. CASE /\ ~faulty /\ UNCHANGED faulty /\ seq' = seq + 1 /\ rx' = Append(rx, seq + 1)
    <3> DEFINE e == audio.expected + Read
    <3>1. seq = e + Len(rx) /\ \A i \in 1 .. Len(rx) : rx[i] = e + i
      BY <2>1, <2>4 DEF Tracked
    <3>2. e \in Nat /\ Len(rx) \in Nat
      BY <1>a DEF TypeOK, Audio
    <3> HIDE DEF e
    <3>3. /\ Len(rx') = Len(rx) + 1 /\ rx'[Len(rx) + 1] = seq + 1
          /\ \A i \in 1 .. Len(rx) : rx'[i] = rx[i]
      BY <1>a, <2>4
    <3>4. seq' = e + Len(rx')
      BY <2>4, <3>1, <3>2, <3>3, Counting
    <3>5. ASSUME NEW i \in 1 .. Len(rx') PROVE rx'[i] = e + i
      <4>1. CASE i = Len(rx) + 1
        BY <3>1, <3>2, <3>3, <4>1, Counting
      <4>2. CASE i # Len(rx) + 1
        <5>1. i \in 1 .. Len(rx)
          BY <3>2, <3>3, <4>2
        <5> QED BY <3>1, <3>3, <5>1
      <4> QED BY <4>1, <4>2
    <3> QED BY <1>1, <2>1, <2>4, <3>4, <3>5 DEF Tracked, Kept, e
  <2> QED BY <1>1, <2>2, <2>3, <2>4
<1>8. Complete'
  <2>1. owner.at \notin Latching \cup {"record"}
    BY <1>d DEF Turns
  <2>2. ~(owner.at = "seal" /\ audio.quiescent)
    BY <1>d
  <2>3. audio.state # "finalized"
    BY <1>d, <2>1 DEF Complete, Turns
  <2> QED BY <1>1, <2>1, <2>2, <2>3 DEF Complete
<1> QED BY <1>2, <1>3, <1>4, <1>5, <1>6, <1>7, <1>8

-----------------------------------------------------------------------------
(* The specification *)

\* The board after aura_audio_zephyr_init, with the switch in either position.
LEMMA FirstState == Init => CaptureIInv
<1> SUFFICES ASSUME Init PROVE CaptureIInv
  OBVIOUS
<1>1. /\ audio \in Audio /\ audio.state = "idle" /\ audio.done /\ audio.quiescent
      /\ ~audio.enabled /\ ~audio.fault /\ ~audio.ending
      /\ audio.expected = 0 /\ audio.published = 0
  <2>1. 0 \in 0 .. 2 /\ 0 \in 0 .. Warmup /\ 0 \in 0 .. MaxBlocks
    BY CaptureAssumption
  <2> QED BY <2>1 DEF Init, Audio
<1>2. /\ run = "off" /\ faulty = FALSE /\ rx = << >> /\ seq = 0 /\ held = 0
      /\ pin = FALSE /\ switch \in BOOLEAN /\ edge = FALSE /\ queue = << >>
      /\ recorder = [state |-> "idle", blocks |-> << >>] /\ requests = << >>
      /\ main = [gate |-> FALSE, startup |-> FALSE, cancelled |-> FALSE, reply |-> FALSE]
      /\ owner = [at |-> "loop", fault |-> FALSE]
      /\ reader = [at |-> "idle", block |-> 0] /\ cut = FALSE
  BY DEF Init, Mic!Init
<1>3. TypeOK
  <2>1. 0 \in 0 .. MaxBlocks /\ 0 \in 0 .. 1 /\ 0 <= QueueSize /\ 0 <= MaxRequests
    BY CaptureAssumption
  <2>2. queue \in Seq(1 .. MaxBlocks) /\ Len(queue) = 0
    BY <1>2
  <2>3. requests \in Seq({"start", "stale", "stop"}) /\ Len(requests) = 0
    BY <1>2
  <2>4. recorder \in [state : {"idle", "recording", "finalized", "interrupted", "failed"},
                      blocks : Seq(1 .. MaxBlocks)]
    BY <1>2
  <2>5. reader \in [at : {"idle", "read", "drain", "accept", "publish", "after"},
                    block : 0 .. MaxBlocks]
    BY <1>2, <2>1
  <2> QED BY <1>1, <1>2, <2>1, <2>2, <2>3, <2>4, <2>5 DEF TypeOK
<1>4. QuiescentIsDrained /\ Blocks
  BY <1>1, <1>2 DEF QuiescentIsDrained, Mic!Drained, Blocks
<1>5. Turns /\ Recording /\ Powered
  BY <1>1, <1>2 DEF Turns, Recording, Powered
<1>6. Switched /\ CutLatched
  BY <1>1, <1>2 DEF Switched, SwitchCutsPower, CutLatched
<1>7. Consecutive /\ Tracked /\ Complete
  BY <1>1, <1>2 DEF Consecutive, Tracked, Complete
<1> QED BY <1>3, <1>4, <1>5, <1>6, <1>7

\* A step that changes nothing preserves the invariant.
LEMMA Stuttering ==
  ASSUME CaptureIInv, UNCHANGED vars
  PROVE  CaptureIInv'
<1>1. UNCHANGED <<run, faulty, rx, seq, held, pin, switch, edge, audio, queue, recorder,
                  main, requests, owner, reader, cut>>
  BY DEF vars, mic
<1>2. /\ TypeOK' /\ QuiescentIsDrained' /\ Blocks' /\ Turns' /\ Recording' /\ Powered'
      /\ Switched' /\ CutLatched'
  BY <1>1 DEF TypeOK, QuiescentIsDrained, Mic!Drained, Blocks, Turns, Recording, Powered,
              Switched, SwitchCutsPower, CutLatched
<1>3. Consecutive' /\ Tracked' /\ Complete'
  BY <1>1 DEF Consecutive, Tracked, Kept, Complete, Due
<1> QED BY <1>2, <1>3

\* Every step of a capture, of whichever actor, preserves the invariant.
THEOREM CaptureInductive == Spec => []CaptureIInv
<1>1. ASSUME CaptureIInv, [Next]_vars PROVE CaptureIInv'
  <2>1. CASE Flip \/ PrivacyChanged \/ StopLine \/ StartLine \/ LimitReached \/ Deadline \/ Device
    BY <1>1, <2>1, FlipStep, PrivacyChangedStep, StopLineStep, StartLineStep,
       LimitReachedStep, DeadlineStep, DeviceStep
  <2>2. CASE Begin
    BY <1>1, <2>2, PrepareStep, SampleStopStep, CheckBeginStep, ClearLatchesStep, RelatchStep,
       RecordStep, ConfigureMicStep, PowerOnStep, SettledStep, TriggerStep, UndoStep,
       EnableStep, ReturnStep DEF Begin
  <2>3. CASE Service \/ Finish \/ Seal \/ Rest \/ Dispatch
    BY <1>1, <2>3, ServiceStep, FinishStep, SealStep, RestStep, DispatchStep
  <2>4. CASE Reader
    BY <1>1, <2>4, ReaderStepStep, ReadBlockStep, ReadTimeoutStep, AcceptStep, PublishStep,
       AfterReadStep, DrainStopStep DEF Reader
  <2>5. CASE UNCHANGED vars
    BY <1>1, <2>5, Stuttering
  <2> QED BY <1>1, <2>1, <2>2, <2>3, <2>4, <2>5 DEF Next, Owner
<1> QED BY FirstState, <1>1, PTL DEF Spec

\* Types, power off at rest, consecutive blocks and a drained device hold in
\* every state of aura_audio_zephyr.c, however its three actors interleave.
THEOREM AudioInvariant == Spec => []AudioInv
<1>1. ASSUME CaptureIInv PROVE AudioInv
  <2>1. PowerOffAtRest
    <3>1. SUFFICES ASSUME audio.state \in AtRest, pin PROVE FALSE
      BY DEF PowerOffAtRest, TypeOK
    <3>2. ~audio.enabled /\ audio.state # "starting"
      BY <1>1, <3>1 DEF Turns
    <3> QED BY <1>1, <3>1, <3>2 DEF Powered, Turns
  <2>2. Contiguous
    <3> DEFINE all == recorder.blocks \o queue
    <3>1. /\ recorder.blocks \in Seq(Block) /\ queue \in Seq(Block)
          /\ Len(recorder.blocks) \in Nat /\ Len(queue) \in Nat
      BY <1>1 DEF TypeOK, Block
    <3>2. /\ all \in Seq(Block) /\ Len(all) = Len(recorder.blocks) + Len(queue)
          /\ \A i \in 1 .. Len(recorder.blocks) + Len(queue) :
               all[i] = IF i <= Len(recorder.blocks) THEN recorder.blocks[i]
                        ELSE queue[i - Len(recorder.blocks)]
      BY <3>1, ConcatProperties
    <3> HIDE DEF all
    <3>3. ASSUME recorder.state = "recording", NEW i \in DOMAIN all
          PROVE  all[i] = Warmup + i
      <4>1. i \in 1 .. Len(recorder.blocks) + Len(queue)
        BY <3>2, <3>3
      <4>2. CASE i <= Len(recorder.blocks)
        <5>1. i \in 1 .. Len(recorder.blocks)
          BY <3>1, <4>1, <4>2
        <5> QED BY <1>1, <3>2, <3>3, <4>1, <4>2, <5>1 DEF Consecutive
      <4>3. CASE ~(i <= Len(recorder.blocks))
        <5>1. i - Len(recorder.blocks) \in 1 .. Len(queue)
          BY <3>1, <4>1, <4>3
        <5>2. queue[i - Len(recorder.blocks)]
                = Warmup + Len(recorder.blocks) + (i - Len(recorder.blocks))
          BY <1>1, <3>3, <5>1 DEF Consecutive
        <5>3. Warmup + Len(recorder.blocks) + (i - Len(recorder.blocks)) = Warmup + i
          BY <3>1, <4>1, CaptureAssumption
        <5> QED BY <3>2, <4>1, <4>3, <5>2, <5>3
      <4> QED BY <4>2, <4>3
    <3> QED BY <3>3 DEF Contiguous, all
  <2> QED BY <1>1, <2>1, <2>2 DEF AudioInv
<1> QED BY CaptureInductive, <1>1, PTL

\* The privacy switch wins over guarded_power_on at every interleaving: after its
\* interrupt the microphone has no power until the switch permits it again.
THEOREM SwitchWins == Spec => []SwitchCutsPower
<1>1. CaptureIInv => SwitchCutsPower
  BY DEF Switched
<1> QED BY CaptureInductive, <1>1, PTL

\* What aura_audio_zephyr_service calls finalized holds every block that the
\* microphone completed after the warmup.
THEOREM FinalizedComplete == Spec => []FinalizedIsComplete
<1>1. ASSUME CaptureIInv PROVE FinalizedIsComplete
  <2>1. SUFFICES ASSUME audio.state = "finalized", owner.at \notin Starting
                 PROVE  /\ recorder.blocks = [i \in 1 .. Len(recorder.blocks) |-> Warmup + i]
                        /\ Len(recorder.blocks) = IF seq > Warmup THEN seq - Warmup ELSE 0
    BY DEF FinalizedIsComplete
  <2>2. /\ Len(recorder.blocks) = Due(seq)
        /\ \A i \in 1 .. Len(recorder.blocks) : recorder.blocks[i] = Warmup + i
    BY <1>1, <2>1 DEF Complete
  <2>3. recorder.blocks \in Seq(Block)
    BY <1>1 DEF TypeOK, Block
  <2>4. recorder.blocks \in [1 .. Len(recorder.blocks) -> Block]
    BY <2>3
  <2> QED BY <2>2, <2>4 DEF Due
<1> QED BY CaptureInductive, <1>1, PTL

\* A capture that a privacy cutoff hit is never sealed as a clean one.
THEOREM CutoffInterrupts == Spec => CutIsInterrupted
<1> DEFINE Sealed == recorder'.state = "finalized" => recorder.state = "finalized" \/ ~cut
<1>1. ASSUME CaptureIInv, Next PROVE Sealed
  <2>1. SUFFICES ASSUME recorder'.state = "finalized", recorder.state # "finalized"
                 PROVE  ~cut
    OBVIOUS
  <2>2. ~UNCHANGED recorder
    BY <2>1
  <2>3. CASE Service
    <3>1. ASSUME NEW b, recorder' \in Broken(b) PROVE FALSE
      BY <2>1, <3>1 DEF Broken
    <3>2. ASSUME NEW b, recorder' = [recorder EXCEPT !.blocks = b] PROVE FALSE
      BY <1>1, <2>1, <3>2 DEF TypeOK
    <3> QED BY <2>2, <2>3, <3>1, <3>2 DEF Service, Recorded
  <2>4. CASE Seal
    <3>1. Clean /\ owner.at = "seal"
      BY <2>1, <2>4 DEF Seal, Broken
    <3> QED BY <1>1, <3>1 DEF Clean, CutLatched
  <2>5. CASE Record
    BY <1>1, <2>1, <2>5 DEF Record, TypeOK
  <2>6. Service \/ Seal \/ Record
    BY <1>1, <2>2 DEF Next, Owner, Begin, Reader, Flip, PrivacyChanged, StopLine, StartLine,
       LimitReached, Finish, Rest, Dispatch, Prepare, SampleStop, CheckBegin, ClearLatches,
       Relatch, ConfigureMic, PowerOn, Settled, Trigger, Undo, Enable, Return, ReaderStep,
       ReadBlock, ReadTimeout, Accept, Publish, AfterRead, DrainStop, Deadline, Device
  <2> QED BY <2>3, <2>4, <2>5, <2>6
<1>2. ASSUME CaptureIInv, [Next]_vars PROVE [Sealed]_recorder
  BY <1>1, <1>2 DEF vars
<1> QED BY CaptureInductive, <1>2, PTL DEF Spec, CutIsInterrupted
================================================================================
