------------------------------ MODULE DmicDriver ------------------------------
(***************************************************************************)
(* firmware/a04/drivers/aura_dmic_nrfx_pdm.c: the monitored microphone     *)
(* driver between nrfx interrupts, the clock manager's callback and one    *)
(* application that starts, stops, reads, frees and resets.                *)
(*                                                                         *)
(* Every critical section (irq_lock) is one step, so the driver, its DMA   *)
(* slots, slab and queue, the nrfx state and the clock reference are one   *)
(* record, and a critical section is a chain of functions on it.  A read   *)
(* takes its block and its sequence number in one step: only the           *)
(* application reads.                                                      *)
(***************************************************************************)
EXTENDS Integers, FiniteSets, Sequences

CONSTANTS
  Buffer,       \* slab blocks (8)
  None,         \* no buffer
  QueueSize,    \* blocks that wait to be read (queue-size, 4)
  MaxBlocks,    \* blocks completed per reset that are considered
  Error         \* what the hardware abstraction may refuse, once each step

ASSUME DriverAssumption ==
  /\ None \notin Buffer
  /\ QueueSize \in Nat /\ MaxBlocks \in Nat
  /\ Error \subseteq {"overflow", "release", "prepare", "handoff", "start",
                      "request", "clock", "unclock"}

VARIABLES
  dev,      \* driver data, DMA ownership, slab, queue, nrfx and the clock
  held      \* blocks in the application's hands

vars == <<dev, held>>

\* An error that may or may not happen in this step.
Mishap(kinds) == {"none"} \cup (kinds \cap Error)

Init ==
  /\ dev = [faulty |-> FALSE, completed |-> 0, configured |-> FALSE,
            slab |-> Buffer, active |-> FALSE, stopping |-> FALSE, clock_pending |-> FALSE,
            clock_owned |-> FALSE, hw_started |-> FALSE, dma |-> {}, rx |-> << >>,
            op |-> "idle", armed |-> << >>, request |-> FALSE, refs |-> 0]
  /\ held = {}

----------------------------------------------------------------------------
(* nrfx: "op" is its state, "armed" the buffers the hardware may write, the *)
(* active one first; "request" is its pended request for a first buffer.   *)

Enabled(d) == d.op \in {"armed", "running", "stopping"}

\* A stop before STARTED returns no buffer; in RUNNING they come back later.
NrfxStop(d) ==
  CASE d.op \in {"starting", "armed"} -> [d EXCEPT !.op = "idle", !.armed = << >>]
    [] d.op = "running" -> [d EXCEPT !.op = "stopping"]
    [] OTHER -> d

NrfxBufferSet(d, b) ==
  [d EXCEPT !.armed = Append(@, b), !.op = IF @ = "starting" THEN "armed" ELSE @]

----------------------------------------------------------------------------
Faulted(d) == [d EXCEPT !.faulty = TRUE]

\* finish_stop: the clock goes last, after its own request and all DMA.
FinishStop(d, bad) ==
  IF d.active \/ d.clock_pending \/ d.dma # {} \/ Enabled(d) THEN d
  ELSE IF d.clock_owned /\ bad = "unclock" THEN [Faulted(d) EXCEPT !.stopping = TRUE]
  ELSE [d EXCEPT !.clock_owned = FALSE, !.refs = IF d.clock_owned THEN @ - 1 ELSE @,
                 !.stopping = FALSE]

\* Mutant of StopPdm: it does not wait for the STARTED callback.
StopPdmAtOnce(d, bad) ==
  LET e == [d EXCEPT !.active = FALSE, !.stopping = TRUE]
  IN  FinishStop(IF d.configured THEN NrfxStop(e) ELSE e, bad)

\* stop_pdm: with a first buffer armed, STOP waits for the STARTED callback.
StopPdm(d, bad) ==
  LET e == [d EXCEPT !.active = FALSE, !.stopping = TRUE]
  IN  IF ~d.hw_started /\ d.dma # {} /\ Enabled(d) THEN e
      ELSE FinishStop(IF d.configured THEN NrfxStop(e) ELSE e, bad)

FullyStopped(d) ==
  ~d.active /\ ~d.stopping /\ ~d.clock_pending /\ ~d.clock_owned /\ d.dma = {} /\ ~Enabled(d)

FullyDrained(d) == FullyStopped(d) /\ d.rx = << >> /\ d.slab = Buffer

\* The block leaves its DMA slot for the queue, or goes back to the slab.
ToQueue(d, b) == [d EXCEPT !.dma = @ \ {b},
                           !.rx = Append(@, [buffer |-> b, sequence |-> d.completed])]
ToSlab(d, b)  == [d EXCEPT !.dma = @ \ {b}, !.slab = @ \cup {b}]

Counted(d, complete) == [d EXCEPT !.completed = IF complete THEN @ + 1 ELSE @]

\* Mutants of Release: a full queue drops its block without a fault, or a
\* block that is not full is forgotten.
ReleaseDrops(d, b, complete, bad) ==
  LET n == Counted(d, complete)
  IN  IF complete /\ Len(d.rx) < QueueSize THEN ToQueue(n, b) ELSE ToSlab(n, b)

ReleaseLeaks(d, b, complete, bad) ==
  LET n == Counted(d, complete)
  IN  IF bad = "release" THEN Faulted(n)
      ELSE IF complete /\ Len(d.rx) < QueueSize THEN ToQueue(n, b)
      ELSE [Faulted(n) EXCEPT !.dma = @ \ {b}]

\* release_buffer: a full block is counted and queued, anything else is freed.
\* A release the DMA layer refuses keeps its slot for good.
Release(d, b, complete, bad) ==
  LET n == Counted(d, complete)
  IN  IF bad = "release" THEN Faulted(n)
      ELSE IF ~complete THEN ToSlab(n, b)
      ELSE IF Len(d.rx) < QueueSize THEN ToQueue(n, b)
      ELSE Faulted(ToSlab(n, b))

----------------------------------------------------------------------------
(* event_handler, in the order of its parts.                               *)

Noted(d, evt, bad) ==
  LET e == [d EXCEPT !.hw_started = @ \/ (evt.requested /\ d.dma # {})]
  IN  IF evt.error THEN StopPdm(Faulted(e), bad) ELSE e

Reclaimed(d, evt, bad) ==
  IF evt.released = None THEN d
  ELSE IF evt.released \notin d.dma THEN StopPdm(Faulted(d), bad)
  ELSE LET complete == d.active /\ ~d.stopping /\ ~d.faulty
           e == Release(d, evt.released, complete, bad)
       IN  IF bad = "release" \/ (complete /\ e.faulty) THEN StopPdm(e, bad) ELSE e

\* b is the slab block that the allocation returns.
Supplied(d, evt, b, bad) ==
  IF ~(evt.requested /\ d.active /\ ~d.stopping /\ ~d.faulty) THEN d
  ELSE IF Cardinality(d.dma) = 2 \/ b = None \/ bad = "prepare"
  THEN StopPdm(Faulted(d), bad)
  ELSE LET e == [d EXCEPT !.dma = @ \cup {b}, !.slab = @ \ {b}]
       IN  IF bad = "handoff" THEN StopPdm(Release(Faulted(e), b, FALSE, bad), bad)
           ELSE NrfxBufferSet(e, b)

Handled(d, evt, b, bad) ==
  LET e == Supplied(Reclaimed(Noted(d, evt, bad), evt, bad), evt, b, bad)
  IN  IF e.active THEN e ELSE StopPdm(e, bad)

Event(requested, released) == [requested |-> requested, released |-> released, error |-> FALSE]
Overflow == [requested |-> FALSE, released |-> None, error |-> TRUE]

Allocatable(d) == IF d.slab = {} THEN {None} ELSE d.slab

\* nrfx asks for the first buffer, from the interrupt that start pended.
FirstRequest ==
  /\ dev.request
  /\ \E b \in Allocatable(dev), bad \in Mishap({"prepare", "handoff", "unclock"}) :
       dev' = Handled([dev EXCEPT !.request = FALSE], Event(TRUE, None), b, bad)
  /\ UNCHANGED held

\* STARTED of the very first buffer.
FirstStarted ==
  /\ dev.op = "armed"
  /\ \E b \in Allocatable(dev), bad \in Mishap({"prepare", "handoff", "unclock"}) :
       dev' = Handled([dev EXCEPT !.op = "running"], Event(TRUE, None), b, bad)
  /\ UNCHANGED held

\* STARTED of a later buffer returns the one before it, also after a stop.
NextStarted ==
  /\ dev.op \in {"running", "stopping"} /\ Len(dev.armed) = 2
  /\ dev.completed < MaxBlocks
  /\ \E b \in Allocatable(dev), bad \in Mishap({"release", "prepare", "handoff", "unclock"}) :
       dev' = Handled([dev EXCEPT !.armed = Tail(@)],
                      Event(TRUE, Head(dev.armed)), b, bad)
  /\ UNCHANGED held

\* The hardware needs a buffer and was given none.
Overflows ==
  /\ dev.op \in {"running", "stopping"} /\ Len(dev.armed) = 1 /\ "overflow" \in Error
  /\ dev' = Handled(dev, Overflow, None, "none")
  /\ UNCHANGED held

\* The peripheral is disabled and its buffers come back one by one.
Returned(d, bad) ==
  IF d.armed = << >> THEN d
  ELSE Handled([d EXCEPT !.armed = Tail(@)], Event(FALSE, Head(d.armed)), None, bad)

Stopped ==
  /\ dev.op = "stopping"
  /\ \E bad, worse \in Mishap({"release", "unclock"}) :
       dev' = Returned(Returned([dev EXCEPT !.op = "idle"], bad), worse)
  /\ UNCHANGED held

----------------------------------------------------------------------------
(* The clock and the application's calls.                                  *)

StartTransfer(d, bad) ==
  IF ~d.active \/ d.stopping \/ d.faulty THEN FinishStop(d, bad)
  ELSE IF bad = "start" THEN StopPdm(Faulted(d), bad)
  ELSE [d EXCEPT !.op = "starting", !.request = TRUE]

\* clock_started_callback, with the result that the clock manager reports.
ClockCalled(d, bad) ==
  LET e == [d EXCEPT !.clock_pending = FALSE]
  IN  IF bad = "clock"
      THEN StopPdm([Faulted(e) EXCEPT !.clock_owned = FALSE, !.refs = @ - 1], bad)
      ELSE IF ~d.active \/ d.stopping THEN FinishStop(e, bad)
      ELSE StartTransfer(e, bad)

ClockStarted ==
  /\ dev.clock_pending
  /\ \E bad \in Mishap({"clock", "start", "unclock"}) : dev' = ClockCalled(dev, bad)
  /\ UNCHANGED held

\* A thread runs only when no interrupt is pended.
Thread == ~dev.request

Configure ==
  /\ Thread /\ FullyDrained(dev) /\ ~dev.faulty
  /\ \E ok \in BOOLEAN :
       dev' = [dev EXCEPT !.configured = ok, !.faulty = ~ok]
  /\ UNCHANGED held

Start ==
  /\ Thread /\ dev.configured /\ ~dev.faulty /\ FullyDrained(dev)
  /\ LET d == [dev EXCEPT !.active = TRUE, !.hw_started = FALSE]
         asked == [d EXCEPT !.clock_pending = TRUE, !.clock_owned = TRUE, !.refs = @ + 1]
     IN  \/ dev' = asked
         \/ \E bad \in Mishap({"clock", "start", "unclock"}) : dev' = ClockCalled(asked, bad)
         \/ "request" \in Error /\ dev' = StopPdm(Faulted(d), "none")
  /\ UNCHANGED held

Stop ==
  /\ Thread
  /\ \E bad \in Mishap({"unclock"}) : dev' = StopPdm(dev, bad)
  /\ UNCHANGED held

Read ==
  /\ Thread /\ dev.configured /\ dev.rx # << >>
  /\ dev' = [dev EXCEPT !.rx = Tail(@)]
  /\ held' = held \cup {Head(dev.rx).buffer}

FreeBlock(b) ==
  /\ Thread /\ b \in held
  /\ dev' = [dev EXCEPT !.slab = @ \cup {b}]
  /\ held' = held \ {b}

Reset ==
  /\ Thread /\ FullyDrained(dev)
  /\ dev' = [dev EXCEPT !.faulty = FALSE, !.completed = 0]
  /\ UNCHANGED held

----------------------------------------------------------------------------
Interrupt == FirstRequest \/ FirstStarted \/ NextStarted \/ Stopped \/ ClockStarted

Next ==
  \/ Interrupt \/ Overflows
  \/ Configure \/ Start \/ Stop \/ Read \/ (\E b \in Buffer : FreeBlock(b)) \/ Reset

Spec == Init /\ [][Next]_vars

\* nrfx and the clock manager answer: STARTED, STOPPED and the clock callback
\* come at some time, whatever else comes first.  These are the weak fairness
\* conditions of the four interrupts, with what enables each spelled out.
FairSpec ==
  /\ Spec
  /\ []<>(~dev.request) \/ []<><<FirstRequest>>_vars
  /\ []<>(dev.op # "armed") \/ []<><<FirstStarted>>_vars
  /\ []<>(dev.op # "stopping") \/ []<><<Stopped>>_vars
  /\ []<>(~dev.clock_pending) \/ []<><<ClockStarted>>_vars

----------------------------------------------------------------------------
TypeOK ==
  /\ dev \in [faulty : BOOLEAN, completed : 0 .. MaxBlocks, configured : BOOLEAN,
              active : BOOLEAN, stopping : BOOLEAN, clock_pending : BOOLEAN,
              clock_owned : BOOLEAN, hw_started : BOOLEAN,
              dma : SUBSET Buffer, slab : SUBSET Buffer,
              rx : Seq([buffer : Buffer, sequence : 1 .. MaxBlocks]),
              op : {"idle", "starting", "armed", "running", "stopping"},
              armed : Seq(Buffer), request : BOOLEAN, refs : {0, 1}]
  /\ held \in SUBSET Buffer

\* A block has one owner, and none gets lost: it is in the slab, in a DMA slot,
\* in the queue or with the application.  The hardware only ever writes blocks
\* in DMA slots, through every fault, stop and late event.
OneOwner ==
  LET owner(b) == <<b \in dev.slab, b \in dev.dma, b \in held,
                    \E i \in DOMAIN dev.rx : dev.rx[i].buffer = b>>
  IN  /\ \A b \in Buffer : Cardinality({k \in 1 .. 4 : owner(b)[k]}) = 1
      /\ Cardinality({dev.rx[i].buffer : i \in DOMAIN dev.rx}) = Len(dev.rx)
      /\ {dev.armed[i] : i \in DOMAIN dev.armed} \subseteq dev.dma

\* The high-frequency clock is held for as long as the peripheral runs or DMA
\* is out, and every reference taken is returned exactly once.
ClockBalanced ==
  /\ dev.refs = IF dev.clock_owned THEN 1 ELSE 0
  /\ Enabled(dev) \/ dev.dma # {} => dev.clock_owned

\* The shape of the driver's state, and the ownership of all it hands around.
DriverInv == TypeOK /\ OneOwner /\ ClockBalanced

\* A stop comes to an end whenever it was requested: while the clock is still
\* starting, before the first STARTED, or in the middle of a block.  Only a DMA
\* release or a clock release that the hardware refused can hold it up.
Refused == \/ dev.dma # {} /\ dev.op = "idle" /\ dev.faulty
           \/ dev.clock_owned /\ dev.op = "idle" /\ dev.faulty

StopSettles == dev.stopping ~> (FullyStopped(dev) \/ Refused)

Contract == INSTANCE Dmic
  WITH run <- IF dev.active THEN "on" ELSE IF FullyStopped(dev) THEN "off" ELSE "stopping",
       faulty <- dev.faulty,
       rx <- [i \in DOMAIN dev.rx |-> dev.rx[i].sequence],
       seq <- dev.completed,
       held <- Cardinality(held)

\* The driver keeps the contract of aura_dmic_health.h: readable blocks are
\* consecutive, a lost block is always preceded by its sticky fault, and a
\* device that reports drained stays so until it is started.
ImplementsDmic == Contract!Spec
===============================================================================
