--------------------------------- MODULE Dmic ---------------------------------
(***************************************************************************)
(* What firmware/a04/include/aura_dmic_health.h promises the application   *)
(* about the microphone driver: full blocks are readable in the order they *)
(* were completed, none is lost unless a sticky fault says so, and once    *)
(* the device reports that it is stopped and drained nothing moves until   *)
(* the next start.                                                         *)
(***************************************************************************)
EXTENDS Naturals, Sequences

CONSTANTS MaxBlocks     \* blocks one start may complete (UINT64_MAX)

VARIABLES
  run,      \* "on", "stopping", or "off": peripheral, DMA and clock released
  faulty,   \* a sticky fault is latched
  rx,       \* sequence numbers of the completed blocks that can be read
  seq,      \* blocks completed since the last reset
  held      \* blocks that were read and not yet freed

mic == <<run, faulty, rx, seq, held>>

Drained == run = "off" /\ rx = << >> /\ held = 0

Init == run = "off" /\ faulty = FALSE /\ rx = << >> /\ seq = 0 /\ held = 0

\* Where a start or a stop may leave the device when it does not succeed.
Ending == {"stopping", "off"}

Start == /\ Drained /\ ~faulty
         /\ \/ run' = "on" /\ UNCHANGED faulty
            \/ run' \in Ending /\ faulty' = TRUE
         /\ UNCHANGED <<rx, seq, held>>

Stop == /\ IF run = "off" THEN UNCHANGED run ELSE run' \in Ending
        /\ faulty' \in {faulty, TRUE}
        /\ UNCHANGED <<rx, seq, held>>

\* The asynchronous end of a stop.
Settle == /\ run = "stopping"
          /\ run' = "off"
          /\ UNCHANGED <<faulty, rx, seq, held>>

Complete == /\ run = "on" /\ ~faulty /\ seq < MaxBlocks
            /\ seq' = seq + 1
            /\ rx' = Append(rx, seq + 1)
            /\ UNCHANGED <<run, faulty, held>>

\* A fault ends the run.  The block in hand may be counted, and then be lost.
Fail == /\ run # "off"
        /\ faulty' = TRUE
        /\ run' \in Ending
        /\ \/ UNCHANGED <<rx, seq>>
           \/ /\ run = "on" /\ ~faulty /\ seq < MaxBlocks
              /\ seq' = seq + 1
              /\ rx' \in {rx, Append(rx, seq + 1)}
        /\ UNCHANGED held

\* Configuration happens at rest and may fail.
Configure == /\ Drained /\ ~faulty
             /\ faulty' \in BOOLEAN
             /\ UNCHANGED <<run, rx, seq, held>>

Read == /\ rx # << >>
        /\ rx' = Tail(rx)
        /\ held' = held + 1
        /\ UNCHANGED <<run, faulty, seq>>

Free == /\ held > 0
        /\ held' = held - 1
        /\ UNCHANGED <<run, faulty, rx, seq>>

Reset == /\ Drained
         /\ faulty' = FALSE /\ seq' = 0
         /\ UNCHANGED <<run, rx, held>>

Device == Settle \/ Complete \/ Fail

Next == Device \/ Start \/ Stop \/ Configure \/ Read \/ Free \/ Reset

Spec == Init /\ [][Next]_mic
===============================================================================
