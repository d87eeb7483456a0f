--------------------------- MODULE DmicDriverProofs ---------------------------
(***************************************************************************)
(* The microphone driver for every number of blocks, queue size and set of *)
(* refusals: each block has one owner, the clock is balanced, and what the *)
(* driver does is what the contract Dmic allows.                           *)
(***************************************************************************)
EXTENDS DmicDriver, SequenceTheorems, FiniteSetTheorems, TLAPS

Block == [buffer : Buffer, sequence : 1 .. MaxBlocks]

Dev == [faulty : BOOLEAN, completed : 0 .. MaxBlocks, configured : BOOLEAN,
        active : BOOLEAN, stopping : BOOLEAN, clock_pending : BOOLEAN,
        clock_owned : BOOLEAN, hw_started : BOOLEAN,
        dma : SUBSET Buffer, slab : SUBSET Buffer, rx : Seq(Block),
        op : {"idle", "starting", "armed", "running", "stopping"},
        armed : Seq(Buffer), request : BOOLEAN, refs : {0, 1}]

\* A sequence of blocks without a repetition.
Distinct(s) == \A i, j \in 1 .. Len(s) : s[i] = s[j] => i = j

Waiting(d) == {d.rx[i].buffer : i \in 1 .. Len(d.rx)}

\* Every block has one owner, d and the h in the application's hands together.
Owners(d, h) ==
  /\ h \in SUBSET Buffer
  /\ Buffer = d.slab \cup d.dma \cup Waiting(d) \cup h
  /\ d.slab \cap d.dma = {} /\ d.slab \cap Waiting(d) = {} /\ d.slab \cap h = {}
  /\ d.dma \cap Waiting(d) = {} /\ d.dma \cap h = {} /\ Waiting(d) \cap h = {}
  /\ \A i, j \in 1 .. Len(d.rx) : d.rx[i].buffer = d.rx[j].buffer => i = j
  /\ Distinct(d.armed) /\ \A i \in 1 .. Len(d.armed) : d.armed[i] \in d.dma

\* The reference to the clock, and who needs the clock.
Clocked(d) ==
  /\ d.refs = IF d.clock_owned THEN 1 ELSE 0
  /\ Enabled(d) \/ d.dma # {} => d.clock_owned

\* What holds of a driver at every point of a critical section.
Safe(d, h) == d \in Dev /\ Owners(d, h) /\ Clocked(d)

\* What the phases of a transfer say, between two critical sections.
Orderly(d) ==
  /\ d.active => ~d.faulty /\ ~d.stopping /\ d.clock_owned
  /\ d.active \/ d.op # "idle" => d.configured
  /\ d.request <=> d.op = "starting"
  /\ d.request => d.active /\ d.dma = {}
  /\ d.request \/ d.clock_pending => ~d.hw_started
  /\ d.clock_pending => d.op = "idle" /\ d.dma = {} /\ d.clock_owned
  /\ d.op \in {"idle", "starting"} => d.armed = << >>
  /\ d.op = "armed" => ~d.hw_started /\ Len(d.armed) = 1 /\ (d.active \/ d.stopping)
  /\ d.op = "running" => d.active /\ d.hw_started
  /\ d.op = "stopping" => ~d.active /\ d.stopping
  /\ Len(d.armed) <= 2

DriverIInv == Safe(dev, held) /\ Orderly(dev) /\ IsFiniteSet(held)

-----------------------------------------------------------------------------
(* What each function of a critical section does to the record.            *)

Balanced(d) == d.refs = IF d.clock_owned THEN 1 ELSE 0

\* Nothing is left that a stop would have to wait for.
Quiet(d) == ~d.active /\ ~d.clock_pending /\ d.dma = {} /\ ~Enabled(d)

\* The fields that neither a stop nor its end changes.
Alike(e, d) ==
  /\ e.completed = d.completed /\ e.configured = d.configured /\ e.slab = d.slab
  /\ e.clock_pending = d.clock_pending /\ e.hw_started = d.hw_started
  /\ e.dma = d.dma /\ e.rx = d.rx /\ e.request = d.request

\* A step may add a fault and never takes one away.
Sticky(e, d) == e.faulty = d.faulty \/ e.faulty = TRUE

\* finish_stop does nothing but to give the clock back when all is quiet.
LEMMA FinishStopFacts ==
  ASSUME NEW d \in Dev, Balanced(d), NEW bad
  PROVE  LET e == FinishStop(d, bad)
         IN  /\ e \in Dev /\ Balanced(e) /\ Alike(e, d) /\ Sticky(e, d)
             /\ e.active = d.active /\ e.op = d.op /\ e.armed = d.armed
             /\ ~Quiet(d) => e = d
             /\ Quiet(d) /\ ~d.clock_owned => e.faulty = d.faulty /\ ~e.clock_owned /\ ~e.stopping
<1> DEFINE e == FinishStop(d, bad)
<1>1. CASE ~Quiet(d)
  BY <1>1 DEF FinishStop, Quiet, Alike, Sticky
<1>2. CASE Quiet(d) /\ d.clock_owned /\ bad = "unclock"
  <2>1. e = [Faulted(d) EXCEPT !.stopping = TRUE]
    BY <1>2 DEF FinishStop, Quiet
  <2>2. e = [d EXCEPT !.faulty = TRUE, !.stopping = TRUE]
    BY <2>1 DEF Faulted, Dev
  <2> HIDE DEF e
  <2>3. e \in Dev
    BY <2>2 DEF Dev
  <2>4. Balanced(e) /\ Alike(e, d) /\ e.active = d.active /\ e.op = d.op /\ e.armed = d.armed
        /\ e.faulty = TRUE
    BY <2>2 DEF Dev, Balanced, Alike
  <2> QED BY <1>2, <2>3, <2>4 DEF e, Sticky
<1>3. CASE Quiet(d) /\ ~(d.clock_owned /\ bad = "unclock")
  <2>1. e = [d EXCEPT !.clock_owned = FALSE, !.refs = IF d.clock_owned THEN @ - 1 ELSE @,
                      !.stopping = FALSE]
    BY <1>3 DEF FinishStop, Quiet
  <2>2. (IF d.clock_owned THEN d.refs - 1 ELSE d.refs) = 0
    BY DEF Balanced
  <2>3. e = [d EXCEPT !.clock_owned = FALSE, !.refs = 0, !.stopping = FALSE]
    BY <2>1, <2>2 DEF Dev
  <2> HIDE DEF e
  <2>4. e \in Dev
    BY <2>3 DEF Dev
  <2>5. Balanced(e) /\ Alike(e, d) /\ e.active = d.active /\ e.op = d.op /\ e.armed = d.armed
        /\ e.faulty = d.faulty /\ ~e.clock_owned /\ ~e.stopping
    BY <2>3 DEF Dev, Balanced, Alike
  <2> QED BY <1>3, <2>4, <2>5 DEF e, Sticky
<1> QED BY <1>1, <1>2, <1>3

\* Whether a stop waits for the callback of the first buffer.
Deferred(d) == ~d.hw_started /\ d.dma # {} /\ Enabled(d)

\* stop_pdm ends the run, stops nrfx unless it has to wait, and finishes if it can.
LEMMA StopFacts ==
  ASSUME NEW d \in Dev, Balanced(d), NEW bad
  PROVE  LET e == StopPdm(d, bad)
         IN  /\ e \in Dev /\ Balanced(e) /\ Alike(e, d) /\ Sticky(e, d) /\ ~e.active
             /\ Deferred(d) => /\ e.op = d.op /\ e.armed = d.armed /\ e.stopping
                               /\ e.faulty = d.faulty /\ e.clock_owned = d.clock_owned
             /\ ~Deferred(d) /\ d.configured =>
                  /\ d.op \in {"starting", "armed"} => e.op = "idle" /\ e.armed = << >>
                  /\ d.op = "running" => e.op = "stopping" /\ e.armed = d.armed
                  /\ d.op \in {"idle", "stopping"} => e.op = d.op /\ e.armed = d.armed
             /\ ~d.configured => e.op = d.op /\ e.armed = d.armed
             /\ Enabled(e) => e.stopping
             /\ Enabled(e) \/ e.dma # {} \/ e.clock_pending => e.clock_owned = d.clock_owned
             /\ e.dma = {} /\ ~Enabled(e) /\ ~e.clock_pending /\ ~d.clock_owned =>
                  e.faulty = d.faulty /\ ~e.clock_owned /\ ~e.stopping
<1> DEFINE m == [d EXCEPT !.active = FALSE, !.stopping = TRUE]
           n == IF d.configured THEN NrfxStop(m) ELSE m
<1>1. /\ m \in Dev /\ Balanced(m) /\ Alike(m, d) /\ ~m.active /\ m.stopping
      /\ m.op = d.op /\ m.armed = d.armed /\ m.faulty = d.faulty
      /\ m.clock_owned = d.clock_owned
  BY DEF Dev, Balanced, Alike
<1>2. CASE Deferred(d)
  <2>1. StopPdm(d, bad) = m
    BY <1>2 DEF StopPdm, Deferred
  <2> HIDE DEF m
  <2> QED BY <1>1, <1>2, <2>1 DEF Alike, Deferred, Sticky
<1>3. CASE ~Deferred(d)
  <2> HIDE DEF m
  <2>1. /\ n \in Dev /\ Balanced(n) /\ Alike(n, d) /\ ~n.active /\ n.stopping
        /\ n.faulty = d.faulty /\ n.clock_owned = d.clock_owned
        /\ d.configured => /\ d.op \in {"starting", "armed"} => n.op = "idle" /\ n.armed = << >>
                           /\ d.op = "running" => n.op = "stopping" /\ n.armed = d.armed
                           /\ d.op \in {"idle", "stopping"} => n.op = d.op /\ n.armed = d.armed
        /\ ~d.configured => n.op = d.op /\ n.armed = d.armed
    <3>1. CASE d.configured /\ d.op \in {"starting", "armed"}
      <4>1. n = [m EXCEPT !.op = "idle", !.armed = << >>]
        BY <1>1, <3>1 DEF NrfxStop
      <4>2. << >> \in Seq(Buffer)
        OBVIOUS
      <4> HIDE DEF n
      <4>3. n \in Dev
        BY <1>1, <4>1, <4>2 DEF Dev
      <4>4. /\ Balanced(n) /\ Alike(n, m) /\ n.active = m.active /\ n.stopping = m.stopping
            /\ n.faulty = m.faulty /\ n.clock_owned = m.clock_owned
            /\ n.op = "idle" /\ n.armed = << >>
        BY <1>1, <4>1 DEF Dev, Balanced, Alike
      <4> QED BY <1>1, <3>1, <4>3, <4>4 DEF Alike
    <3>2. CASE d.configured /\ d.op = "running"
      <4>1. n = [m EXCEPT !.op = "stopping"]
        BY <1>1, <3>2 DEF NrfxStop
      <4> HIDE DEF n
      <4>3. n \in Dev
        BY <1>1, <4>1 DEF Dev
      <4>4. /\ Balanced(n) /\ Alike(n, m) /\ n.active = m.active /\ n.stopping = m.stopping
            /\ n.faulty = m.faulty /\ n.clock_owned = m.clock_owned
            /\ n.op = "stopping" /\ n.armed = m.armed
        BY <1>1, <4>1 DEF Dev, Balanced, Alike
      <4> QED BY <1>1, <3>2, <4>3, <4>4 DEF Alike
    <3>3. CASE ~d.configured \/ d.op \in {"idle", "stopping"}
      <4>1. n = m
        BY <1>1, <3>3 DEF NrfxStop
      <4> QED BY <1>1, <3>3, <4>1
    <3>4. d.op \in {"idle", "starting", "armed", "running", "stopping"}
      BY DEF Dev
    <3> QED BY <3>1, <3>2, <3>3, <3>4
  <2>2. StopPdm(d, bad) = FinishStop(n, bad)
    BY <1>3 DEF StopPdm, Deferred, m
  <2> HIDE DEF n
  <2> DEFINE e == FinishStop(n, bad)
  <2>3. /\ e \in Dev /\ Balanced(e) /\ Alike(e, n) /\ Sticky(e, n)
        /\ e.active = n.active /\ e.op = n.op /\ e.armed = n.armed
        /\ ~Quiet(n) => e = n
        /\ Quiet(n) /\ ~n.clock_owned => e.faulty = n.faulty /\ ~e.clock_owned /\ ~e.stopping
    BY <2>1, FinishStopFacts
  <2> HIDE DEF e
  <2>4. Enabled(e) \/ e.dma # {} \/ e.clock_pending => e = n
    BY <2>3 DEF Quiet, Enabled, Alike
  <2>5. e.dma = {} /\ ~Enabled(e) /\ ~e.clock_pending => Quiet(n)
    BY <2>1, <2>3 DEF Quiet, Enabled, Alike
  <2> QED BY <1>3, <2>1, <2>2, <2>3, <2>4, <2>5 DEF Alike, Sticky, e
<1> QED BY <1>2, <1>3

-----------------------------------------------------------------------------
(* Ownership of the blocks.                                                *)

\* What a stop does to the record leaves its blocks and its clock in order.
LEMMA StopSafe ==
  ASSUME NEW d, NEW h, Safe(d, h), NEW bad
  PROVE  Safe(StopPdm(d, bad), h)
<1> DEFINE e == StopPdm(d, bad)
<1>1. d \in Dev /\ Balanced(d)
  BY DEF Safe, Clocked, Balanced
<1>2. /\ e \in Dev /\ Balanced(e) /\ Alike(e, d)
      /\ e.armed = d.armed \/ e.armed = << >>
      /\ Enabled(e) => Enabled(d)
      /\ Enabled(e) \/ e.dma # {} => e.clock_owned = d.clock_owned
  BY <1>1, StopFacts DEF Enabled, Deferred, Dev
<1> HIDE DEF e
<1>3. Owners(e, h)
  <2>1. Len(<< >>) = 0
    OBVIOUS
  <2> QED BY <1>2, <2>1 DEF Safe, Owners, Waiting, Alike, Distinct
<1>4. Clocked(e)
  BY <1>2 DEF Safe, Clocked, Balanced, Alike
<1> QED BY <1>2, <1>3, <1>4 DEF Safe, e

\* A fault does not change who owns what.
LEMMA FaultedFacts ==
  ASSUME NEW d \in Dev
  PROVE  /\ Faulted(d) \in Dev /\ Alike(Faulted(d), d) /\ Faulted(d).faulty = TRUE
         /\ Faulted(d).active = d.active /\ Faulted(d).stopping = d.stopping
         /\ Faulted(d).op = d.op /\ Faulted(d).armed = d.armed
         /\ Faulted(d).clock_owned = d.clock_owned /\ Faulted(d).refs = d.refs
BY DEF Dev, Faulted, Alike

\* Who owns what depends on these fields alone.
LEMMA SameOwners ==
  ASSUME NEW d, NEW e, NEW h, Owners(d, h),
         e.slab = d.slab, e.dma = d.dma, e.rx = d.rx, e.armed = d.armed
  PROVE  Owners(e, h)
<1>1. Waiting(e) = Waiting(d)
  BY DEF Waiting
<1> QED BY <1>1 DEF Owners

\* A fault that is noted leaves the blocks and the clock in order.
LEMMA FaultedSafe ==
  ASSUME NEW d, NEW h, Safe(d, h)
  PROVE  Safe(Faulted(d), h)
<1> DEFINE e == Faulted(d)
<1>1. e \in Dev /\ Alike(e, d) /\ e.op = d.op /\ e.armed = d.armed
      /\ e.clock_owned = d.clock_owned /\ e.refs = d.refs
  BY FaultedFacts DEF Safe
<1> HIDE DEF e
<1>2. Owners(e, h)
  BY <1>1, SameOwners DEF Safe, Alike
<1>3. Clocked(e)
  BY <1>1 DEF Safe, Clocked, Enabled, Alike
<1> QED BY <1>1, <1>2, <1>3 DEF Safe, e

\* A block put at the end of the queue is one more block that waits.
LEMMA WaitingAppend ==
  ASSUME NEW s \in Seq(Block), NEW x \in Block,
         \A i, j \in 1 .. Len(s) : s[i].buffer = s[j].buffer => i = j,
         \A i \in 1 .. Len(s) : s[i].buffer # x.buffer
  PROVE  LET t == Append(s, x)
         IN  /\ t \in Seq(Block) /\ Len(t) = Len(s) + 1
             /\ {t[i].buffer : i \in 1 .. Len(t)} = {s[i].buffer : i \in 1 .. Len(s)} \cup {x.buffer}
             /\ \A i, j \in 1 .. Len(t) : t[i].buffer = t[j].buffer => i = j
<1> DEFINE t == Append(s, x)
<1>1. /\ t \in Seq(Block) /\ Len(t) = Len(s) + 1 /\ Len(s) \in Nat
      /\ t[Len(s) + 1] = x /\ \A i \in 1 .. Len(s) : t[i] = s[i]
  BY AppendProperties
<1> HIDE DEF t
<1>2. \A i \in 1 .. Len(t) : i \in 1 .. Len(s) \/ i = Len(s) + 1
  BY <1>1
<1>3. \A i \in 1 .. Len(s) : i \in 1 .. Len(t) /\ i # Len(s) + 1
  BY <1>1
<1>4. Len(s) + 1 \in 1 .. Len(t)
  BY <1>1
<1>5. {t[i].buffer : i \in 1 .. Len(t)} = {s[i].buffer : i \in 1 .. Len(s)} \cup {x.buffer}
  BY <1>1, <1>2, <1>3, <1>4
<1>6. ASSUME NEW i \in 1 .. Len(t), NEW j \in 1 .. Len(t), t[i].buffer = t[j].buffer
      PROVE  i = j
  <2>1. CASE i \in 1 .. Len(s) /\ j \in 1 .. Len(s)
    BY <1>1, <1>6, <2>1
  <2>2. CASE i = Len(s) + 1 /\ j \in 1 .. Len(s)
    BY <1>1, <1>6, <2>2
  <2>3. CASE i \in 1 .. Len(s) /\ j = Len(s) + 1
    BY <1>1, <1>6, <2>3
  <2> QED BY <1>2, <2>1, <2>2, <2>3
<1> QED BY <1>1, <1>5, <1>6 DEF t

\* The first block that waits leaves, and the others wait on.
LEMMA WaitingTail ==
  ASSUME NEW s \in Seq(Block), s # << >>,
         \A i, j \in 1 .. Len(s) : s[i].buffer = s[j].buffer => i = j
  PROVE  LET t == Tail(s)
         IN  /\ t \in Seq(Block) /\ Len(t) + 1 = Len(s) /\ Head(s) \in Block
             /\ {s[i].buffer : i \in 1 .. Len(s)} = {t[i].buffer : i \in 1 .. Len(t)} \cup {Head(s).buffer}
             /\ Head(s).buffer \notin {t[i].buffer : i \in 1 .. Len(t)}
             /\ \A i, j \in 1 .. Len(t) : t[i].buffer = t[j].buffer => i = j
<1> DEFINE t == Tail(s)
<1>1. /\ t \in Seq(Block) /\ Len(t) + 1 = Len(s) /\ Len(t) \in Nat /\ Len(s) \in Nat
      /\ Head(s) = s[1] /\ Head(s) \in Block /\ \A i \in 1 .. Len(t) : t[i] = s[i + 1]
  BY HeadTailProperties
<1> HIDE DEF t
<1>2. \A i \in 1 .. Len(s) : i = 1 \/ (i - 1 \in 1 .. Len(t) /\ t[i - 1] = s[i])
  BY <1>1
<1>3. \A i \in 1 .. Len(t) : i + 1 \in 1 .. Len(s) /\ i + 1 # 1
  BY <1>1
<1>4. 1 \in 1 .. Len(s)
  BY <1>1
<1>5. {s[i].buffer : i \in 1 .. Len(s)} = {t[i].buffer : i \in 1 .. Len(t)} \cup {Head(s).buffer}
  <2>1. ASSUME NEW i \in 1 .. Len(s)
        PROVE  s[i].buffer \in {t[j].buffer : j \in 1 .. Len(t)} \cup {Head(s).buffer}
    <3>1. CASE i = 1
      BY <1>1, <3>1
    <3>2. CASE i - 1 \in 1 .. Len(t) /\ t[i - 1] = s[i]
      BY <3>2
    <3> QED BY <1>2, <3>1, <3>2
  <2>2. ASSUME NEW i \in 1 .. Len(t)
        PROVE  t[i].buffer \in {s[j].buffer : j \in 1 .. Len(s)}
    BY <1>1, <1>3
  <2>3. Head(s).buffer \in {s[j].buffer : j \in 1 .. Len(s)}
    BY <1>1, <1>4
  <2> QED BY <2>1, <2>2, <2>3
<1>6. Head(s).buffer \notin {t[i].buffer : i \in 1 .. Len(t)}
  BY <1>1, <1>3, <1>4
<1>7. ASSUME NEW i \in 1 .. Len(t), NEW j \in 1 .. Len(t), t[i].buffer = t[j].buffer
      PROVE  i = j
  <2>1. i + 1 = j + 1
    BY <1>1, <1>3, <1>7
  <2> QED BY <2>1
<1> QED BY <1>1, <1>5, <1>6, <1>7 DEF t

\* What release_buffer makes of d when it is given the block b.
Releasing(e, d, h, b, complete, bad) ==
  /\ e \in Dev /\ Owners(e, h) /\ Sticky(e, d)
  /\ e.dma \subseteq d.dma /\ d.slab \subseteq e.slab
  /\ e.configured = d.configured /\ e.active = d.active /\ e.stopping = d.stopping
  /\ e.clock_pending = d.clock_pending /\ e.clock_owned = d.clock_owned
  /\ e.hw_started = d.hw_started /\ e.op = d.op /\ e.armed = d.armed
  /\ e.request = d.request /\ e.refs = d.refs
  /\ bad = "release" => e.faulty = TRUE
  /\ ~complete => e.completed = d.completed /\ e.rx = d.rx
  /\ complete => /\ e.completed = d.completed + 1
                 /\ \/ e.rx = d.rx /\ e.faulty = TRUE
                    \/ /\ e.rx = Append(d.rx, [buffer |-> b, sequence |-> d.completed + 1])
                       /\ e.faulty = d.faulty

\* release_buffer: the block is queued, freed, or kept in its slot by a refusal.
LEMMA ReleaseFacts ==
  ASSUME NEW d, NEW h, d \in Dev, Owners(d, h), NEW b \in d.dma,
         \A i \in 1 .. Len(d.armed) : d.armed[i] # b,
         NEW complete \in BOOLEAN, complete => d.completed < MaxBlocks, NEW bad
  PROVE  Releasing(Release(d, b, complete, bad), d, h, b, complete, bad)
<1> DEFINE e == Release(d, b, complete, bad)
           n == Counted(d, complete)
           c == IF complete THEN d.completed + 1 ELSE d.completed
           x == [buffer |-> b, sequence |-> c]
<1>1. /\ n \in Dev /\ n = [d EXCEPT !.completed = c] /\ n.completed = c /\ n.dma = d.dma
      /\ n.rx = d.rx /\ n.slab = d.slab /\ n.armed = d.armed /\ n.faulty = d.faulty
      /\ n.configured = d.configured /\ n.active = d.active /\ n.stopping = d.stopping
      /\ n.clock_pending = d.clock_pending /\ n.clock_owned = d.clock_owned
      /\ n.hw_started = d.hw_started /\ n.op = d.op /\ n.request = d.request /\ n.refs = d.refs
  <2>1. c \in 0 .. MaxBlocks
    BY DriverAssumption DEF Dev
  <2>2. n = [d EXCEPT !.completed = c]
    BY DEF Counted, Dev
  <2> HIDE DEF c, n
  <2> QED BY <2>1, <2>2 DEF Dev
<1>2. b \in Buffer /\ b \notin d.slab /\ b \notin Waiting(d) /\ b \notin h
  BY DEF Owners, Dev
<1> DEFINE q == ToQueue(n, b)
           s == ToSlab(n, b)
<1>3. /\ s \in Dev /\ s.completed = c /\ s.dma = d.dma \ {b} /\ s.slab = d.slab \cup {b}
      /\ s.rx = d.rx /\ s.armed = d.armed /\ s.faulty = d.faulty
      /\ s.configured = d.configured /\ s.active = d.active /\ s.stopping = d.stopping
      /\ s.clock_pending = d.clock_pending /\ s.clock_owned = d.clock_owned
      /\ s.hw_started = d.hw_started /\ s.op = d.op /\ s.request = d.request /\ s.refs = d.refs
  <2> HIDE DEF n, c
  <2>1. s = [n EXCEPT !.dma = d.dma \ {b}, !.slab = d.slab \cup {b}]
    BY <1>1 DEF ToSlab, Dev
  <2>2. d.dma \ {b} \in SUBSET Buffer /\ d.slab \cup {b} \in SUBSET Buffer
    BY <1>2 DEF Dev
  <2> HIDE DEF s
  <2> QED BY <1>1, <2>1, <2>2 DEF Dev
<1>4. Owners(s, h)
  <2> HIDE DEF s
  <2>1. Waiting(s) = Waiting(d)
    BY <1>3 DEF Waiting
  <2> QED BY <1>2, <1>3, <2>1 DEF Owners
<1>5. ASSUME complete
      PROVE  /\ q \in Dev /\ q.completed = c /\ q.dma = d.dma \ {b} /\ q.slab = d.slab
             /\ q.rx = Append(d.rx, x) /\ q.armed = d.armed /\ q.faulty = d.faulty
             /\ q.configured = d.configured /\ q.active = d.active /\ q.stopping = d.stopping
             /\ q.clock_pending = d.clock_pending /\ q.clock_owned = d.clock_owned
             /\ q.hw_started = d.hw_started /\ q.op = d.op /\ q.request = d.request
             /\ q.refs = d.refs /\ Owners(q, h)
  <2>1. x \in Block
    BY <1>2, <1>5, DriverAssumption DEF Block, Dev
  <2>2. /\ d.rx \in Seq(Block) /\ \A i \in 1 .. Len(d.rx) : d.rx[i].buffer # x.buffer
        /\ \A i, j \in 1 .. Len(d.rx) : d.rx[i].buffer = d.rx[j].buffer => i = j
    BY <1>2 DEF Dev, Waiting, Owners
  <2> DEFINE t == Append(d.rx, x)
  <2>3. /\ t \in Seq(Block)
        /\ {t[i].buffer : i \in 1 .. Len(t)} = Waiting(d) \cup {x.buffer}
        /\ \A i, j \in 1 .. Len(t) : t[i].buffer = t[j].buffer => i = j
    BY <2>1, <2>2, WaitingAppend DEF Waiting
  <2>4. q = [n EXCEPT !.dma = d.dma \ {b}, !.rx = t]
    <3> HIDE DEF n, c
    <3> QED BY <1>1 DEF ToQueue, Dev
  <2>5. x.buffer = b
    OBVIOUS
  <2> HIDE DEF n, c, x, t
  <2>6. d.dma \ {b} \in SUBSET Buffer
    BY DEF Dev
  <2> HIDE DEF q
  <2>7. /\ q \in Dev /\ q.completed = c /\ q.dma = d.dma \ {b} /\ q.slab = d.slab
        /\ q.rx = t /\ q.armed = d.armed /\ q.faulty = d.faulty
        /\ q.configured = d.configured /\ q.active = d.active /\ q.stopping = d.stopping
        /\ q.clock_pending = d.clock_pending /\ q.clock_owned = d.clock_owned
        /\ q.hw_started = d.hw_started /\ q.op = d.op /\ q.request = d.request
        /\ q.refs = d.refs
    BY <1>1, <2>3, <2>4, <2>6 DEF Dev
  <2>8. Waiting(q) = Waiting(d) \cup {b}
    BY <2>3, <2>5, <2>7 DEF Waiting
  <2>9. Owners(q, h)
    BY <1>2, <2>3, <2>7, <2>8 DEF Owners
  <2> QED BY <2>7, <2>9 DEF t
<1>6. Owners(n, h)
  <2> HIDE DEF n, c
  <2>1. Waiting(n) = Waiting(d)
    BY <1>1 DEF Waiting
  <2> QED BY <1>1, <2>1 DEF Owners
<1>7. ASSUME NEW f \in Dev, Owners(f, h)
      PROVE  Owners(Faulted(f), h)
  <2> DEFINE g == Faulted(f)
  <2>1. Alike(g, f) /\ g.armed = f.armed
    BY FaultedFacts
  <2> HIDE DEF g
  <2>2. Owners(g, h)
    BY <1>7, <2>1, SameOwners DEF Alike
  <2> QED BY <2>2 DEF g
<1> HIDE DEF n, q, s
<1>8. CASE bad = "release"
  <2>1. e = Faulted(n)
    BY <1>8 DEF Release, n
  <2>2. Owners(Faulted(n), h)
    BY <1>1, <1>6, <1>7
  <2>3. /\ e \in Dev /\ Owners(e, h) /\ Alike(e, n) /\ e.faulty = TRUE /\ e.active = n.active
        /\ e.stopping = n.stopping /\ e.op = n.op /\ e.armed = n.armed
        /\ e.clock_owned = n.clock_owned /\ e.refs = n.refs
    BY <1>1, <2>1, <2>2, FaultedFacts
  <2> HIDE DEF e
  <2> QED BY <1>1, <1>8, <2>3 DEF Releasing, Sticky, Alike, e
<1>9. CASE bad # "release" /\ ~complete
  <2>1. e = s
    BY <1>9 DEF Release, n, s
  <2> HIDE DEF e
  <2> QED BY <1>3, <1>4, <1>9, <2>1 DEF Releasing, Sticky, e
<1>10. CASE bad # "release" /\ complete /\ Len(d.rx) < QueueSize
  <2>1. e = q
    BY <1>10 DEF Release, n, q
  <2> HIDE DEF e
  <2> QED BY <1>5, <1>10, <2>1 DEF Releasing, Sticky, e
<1>11. CASE bad # "release" /\ complete /\ ~(Len(d.rx) < QueueSize)
  <2>1. e = Faulted(s)
    BY <1>11 DEF Release, n, s
  <2>2. Owners(Faulted(s), h)
    BY <1>3, <1>4, <1>7
  <2>3. /\ e \in Dev /\ Owners(e, h) /\ Alike(e, s) /\ e.faulty = TRUE /\ e.active = s.active
        /\ e.stopping = s.stopping /\ e.op = s.op /\ e.armed = s.armed
        /\ e.clock_owned = s.clock_owned /\ e.refs = s.refs
    BY <1>3, <2>1, <2>2, FaultedFacts
  <2> HIDE DEF e
  <2> QED BY <1>3, <1>11, <2>3 DEF Releasing, Sticky, Alike, e
<1> QED BY <1>8, <1>9, <1>10, <1>11


-----------------------------------------------------------------------------
(* The handler, part by part.                                              *)

\* What a stop has to find in order to leave the driver in order.
Stoppable(d) ==
  /\ ~d.request /\ (d.op # "idle" => d.configured)
  /\ d.clock_pending => ~d.hw_started /\ d.op = "idle" /\ d.dma = {} /\ d.clock_owned
  /\ d.op \in {"idle", "starting"} => d.armed = << >>
  /\ d.op = "armed" => ~d.hw_started /\ Len(d.armed) = 1
  /\ d.op = "running" => d.hw_started
  /\ Len(d.armed) <= 2

\* One lemma for every call of stop_pdm: a driver that can be stopped ends up in order.
LEMMA StopOrderly ==
  ASSUME NEW d, NEW h, Safe(d, h), Stoppable(d), NEW bad
  PROVE  LET e == StopPdm(d, bad)
         IN  /\ Safe(e, h) /\ Orderly(e) /\ Stoppable(e)
             /\ Alike(e, d) /\ Sticky(e, d) /\ ~e.active
<1> DEFINE e == StopPdm(d, bad)
<1>1. d \in Dev /\ Balanced(d) /\ Safe(e, h)
  BY StopSafe DEF Safe, Clocked, Balanced
<1>2. /\ e \in Dev /\ Alike(e, d) /\ Sticky(e, d) /\ ~e.active
      /\ Deferred(d) => e.op = d.op /\ e.armed = d.armed
      /\ ~Deferred(d) /\ d.configured =>
           /\ d.op \in {"starting", "armed"} => e.op = "idle" /\ e.armed = << >>
           /\ d.op = "running" => e.op = "stopping" /\ e.armed = d.armed
           /\ d.op \in {"idle", "stopping"} => e.op = d.op /\ e.armed = d.armed
      /\ ~d.configured => e.op = d.op /\ e.armed = d.armed
      /\ Enabled(e) => e.stopping
      /\ e.clock_pending => e.clock_owned = d.clock_owned
  BY <1>1, StopFacts
<1> HIDE DEF e
<1>3. ASSUME d.op = "armed"
      PROVE  d.dma # {}
  <2>1. Len(d.armed) = 1
    BY <1>3 DEF Stoppable
  <2>2. 1 \in 1 .. Len(d.armed)
    BY <2>1
  <2> QED BY <2>2 DEF Safe, Owners
<1>4. d.op \in {"idle", "starting", "armed", "running", "stopping"} /\ d.request \in BOOLEAN
  BY <1>1 DEF Dev
<1>5. Len(<< >>) = 0
  OBVIOUS
<1>6. /\ d.op = "starting" => e.op = "idle" /\ e.armed = << >>
      /\ d.op = "running" => e.op = "stopping" /\ e.armed = d.armed
      /\ d.op \in {"idle", "stopping", "armed"} => e.op = d.op /\ e.armed = d.armed
  BY <1>2, <1>3, <1>4 DEF Stoppable, Deferred, Enabled
<1>7. Orderly(e)
  BY <1>2, <1>4, <1>5, <1>6 DEF Stoppable, Orderly, Alike, Enabled
<1>8. Stoppable(e)
  BY <1>2, <1>4, <1>5, <1>6 DEF Stoppable, Alike, Enabled
<1> QED BY <1>1, <1>2, <1>7, <1>8 DEF e

\* A driver that still has a fault to note can be stopped just the same.
LEMMA FaultedStoppable ==
  ASSUME NEW d \in Dev, Stoppable(d)
  PROVE  Stoppable(Faulted(d))
<1> DEFINE e == Faulted(d)
<1>1. Alike(e, d) /\ e.op = d.op /\ e.armed = d.armed /\ e.clock_owned = d.clock_owned
  BY FaultedFacts
<1> HIDE DEF e
<1>2. Stoppable(e)
  BY <1>1 DEF Stoppable, Alike
<1> QED BY <1>2 DEF e

\* A stop upon a fault, and the stop at the handler's end on top of it.
LEMMA FaultStops ==
  ASSUME NEW d, NEW h, Safe(d, h), Stoppable(d), NEW bad
  PROVE  LET e == StopPdm(Faulted(d), bad)
         IN  /\ Safe(e, h) /\ Orderly(e) /\ Stoppable(e)
             /\ Alike(e, d) /\ e.faulty = TRUE /\ ~e.active
<1> DEFINE f == Faulted(d)
           e == StopPdm(f, bad)
<1>1. Safe(f, h) /\ Stoppable(f)
  BY FaultedSafe, FaultedStoppable DEF Safe
<1>2. Alike(f, d) /\ f.faulty = TRUE
  BY FaultedFacts DEF Safe
<1> HIDE DEF f
<1>3. /\ Safe(e, h) /\ Orderly(e) /\ Stoppable(e)
      /\ Alike(e, f) /\ Sticky(e, f) /\ ~e.active
  BY <1>1, StopOrderly
<1> HIDE DEF e
<1> QED BY <1>2, <1>3 DEF Alike, Sticky, e, f

\* What may ask for a buffer: a driver that runs, or one that has stopped.
Supplying(d) ==
  /\ Stoppable(d)
  /\ d.active => /\ ~d.stopping /\ ~d.faulty /\ d.clock_owned /\ d.configured
                 /\ d.op \in {"starting", "running"} /\ Len(d.armed) <= 1
                 /\ (d.op = "starting" => ~d.hw_started) /\ ~d.clock_pending

\* The rest of the handler leaves the driver in order, and a run ends by a fault only.
LEMMA SuppliedFacts ==
  ASSUME NEW d, NEW h, Safe(d, h), Supplying(d), NEW evt, evt.requested = TRUE,
         NEW b, (b = None) \/ (b \in d.slab), NEW bad
  PROVE  LET e == Supplied(d, evt, b, bad)
             r == IF e.active THEN e ELSE StopPdm(e, bad)
         IN  /\ Safe(r, h) /\ Orderly(r) /\ r.completed = d.completed /\ r.rx = d.rx
             /\ r.active => d.active /\ r.faulty = d.faulty
             /\ ~r.active => Sticky(r, d)
             /\ d.active /\ ~r.active => r.faulty = TRUE
<1> DEFINE e == Supplied(d, evt, b, bad)
           r == IF e.active THEN e ELSE StopPdm(e, bad)
           Goal == /\ Safe(r, h) /\ Orderly(r) /\ r.completed = d.completed /\ r.rx = d.rx
                   /\ r.active => d.active /\ r.faulty = d.faulty
                   /\ ~r.active => Sticky(r, d)
                   /\ d.active /\ ~r.active => r.faulty = TRUE
<1>1. CASE ~d.active
  <2>1. e = d
    BY <1>1 DEF Supplied
  <2> HIDE DEF e
  <2>2. r = StopPdm(d, bad)
    BY <1>1, <2>1
  <2>3. Safe(r, h) /\ Orderly(r) /\ Alike(r, d) /\ Sticky(r, d) /\ ~r.active
    BY <2>2, StopOrderly DEF Supplying
  <2> HIDE DEF r
  <2> QED BY <1>1, <2>3 DEF Alike, e, r
<1>2. CASE d.active /\ e = StopPdm(Faulted(d), bad)
  <2>1. /\ Safe(e, h) /\ Orderly(e) /\ Stoppable(e)
        /\ Alike(e, d) /\ e.faulty = TRUE /\ ~e.active
    BY <1>2, FaultStops DEF Supplying
  <2> HIDE DEF e
  <2>2. r = StopPdm(e, bad)
    BY <2>1
  <2>3. Safe(r, h) /\ Orderly(r) /\ Alike(r, e) /\ Sticky(r, e) /\ ~r.active
    BY <2>1, <2>2, StopOrderly
  <2> HIDE DEF r
  <2>4. Goal
    BY <2>1, <2>3 DEF Alike, Sticky
  <2> QED BY <2>4 DEF r, e
<1>3. CASE d.active /\ b \in d.slab /\ bad = "handoff"
           /\ ~(Cardinality(d.dma) = 2 \/ b = None \/ bad = "prepare")
  <2> DEFINE m == [d EXCEPT !.dma = @ \cup {b}, !.slab = @ \ {b}]
             f == Faulted(m)
  <2>1. d \in Dev /\ b \notin d.dma
    BY <1>3 DEF Safe, Owners
  <2>2. Release(f, b, FALSE, bad) = Faulted(d)
    <3>1. Release(f, b, FALSE, bad) = ToSlab(Counted(f, FALSE), b)
      BY <1>3 DEF Release
    <3>2. Counted(f, FALSE) = f
      BY <2>1 DEF Counted, Faulted, Dev
    <3>3. ToSlab(f, b) = [f EXCEPT !.dma = @ \ {b}, !.slab = @ \cup {b}]
      BY DEF ToSlab
    <3>4. (d.dma \cup {b}) \ {b} = d.dma /\ (d.slab \ {b}) \cup {b} = d.slab
      BY <1>3, <2>1
    <3>5. [f EXCEPT !.dma = @ \ {b}, !.slab = @ \cup {b}] = [d EXCEPT !.faulty = TRUE]
      BY <2>1, <3>4 DEF Faulted, Dev
    <3> QED BY <3>1, <3>2, <3>3, <3>5 DEF Faulted
  <2>3. e = StopPdm(Release(f, b, FALSE, bad), bad)
    BY <1>3 DEF Supplied, Supplying
  <2> QED BY <1>2, <1>3, <2>2, <2>3
<1>4. CASE d.active /\ b \in d.slab /\ bad # "handoff"
           /\ ~(Cardinality(d.dma) = 2 \/ b = None \/ bad = "prepare")
  <2> DEFINE m == [d EXCEPT !.dma = @ \cup {b}, !.slab = @ \ {b}]
             t == Append(d.armed, b)
             o == IF d.op = "starting" THEN "armed" ELSE d.op
  <2>1. /\ d \in Dev /\ b \in Buffer /\ b \notin d.dma
        /\ \A i \in 1 .. Len(d.armed) : d.armed[i] # b
    BY <1>4 DEF Safe, Owners, Dev
  <2>2. e = NrfxBufferSet(m, b)
    BY <1>4 DEF Supplied, Supplying
  <2>3. e = [d EXCEPT !.dma = d.dma \cup {b}, !.slab = d.slab \ {b}, !.armed = t, !.op = o]
    BY <2>1, <2>2 DEF NrfxBufferSet, Dev
  <2>4. /\ t \in Seq(Buffer) /\ Len(t) = Len(d.armed) + 1 /\ Len(d.armed) \in Nat
        /\ t[Len(d.armed) + 1] = b /\ \A i \in 1 .. Len(d.armed) : t[i] = d.armed[i]
    BY <2>1, AppendProperties DEF Dev
  <2>5. o \in {"idle", "starting", "armed", "running", "stopping"}
    BY <2>1 DEF Dev
  <2>6. d.dma \cup {b} \in SUBSET Buffer /\ d.slab \ {b} \in SUBSET Buffer
    BY <2>1 DEF Dev
  <2> HIDE DEF e, t, o
  <2>7. /\ e \in Dev /\ e.dma = d.dma \cup {b} /\ e.slab = d.slab \ {b} /\ e.armed = t
        /\ e.op = o /\ e.rx = d.rx /\ e.completed = d.completed /\ e.active = d.active
        /\ e.faulty = d.faulty /\ e.stopping = d.stopping /\ e.configured = d.configured
        /\ e.clock_owned = d.clock_owned /\ e.clock_pending = d.clock_pending
        /\ e.hw_started = d.hw_started /\ e.request = d.request /\ e.refs = d.refs
    BY <2>1, <2>3, <2>4, <2>5, <2>6 DEF Dev
  <2>8. Distinct(t) /\ \A i \in 1 .. Len(t) : t[i] \in e.dma
    <3>1. \A i \in 1 .. Len(t) : i \in 1 .. Len(d.armed) \/ i = Len(d.armed) + 1
      BY <2>4
    <3>2. /\ Distinct(d.armed)
          /\ \A i \in 1 .. Len(d.armed) : d.armed[i] \in d.dma
      BY DEF Safe, Owners
    <3>3. ASSUME NEW i \in 1 .. Len(t), NEW j \in 1 .. Len(t), t[i] = t[j]
          PROVE  i = j
      <4>1. CASE i \in 1 .. Len(d.armed) /\ j \in 1 .. Len(d.armed)
        BY <2>4, <3>2, <3>3, <4>1 DEF Distinct
      <4>2. CASE i \in 1 .. Len(d.armed) /\ j = Len(d.armed) + 1
        BY <2>1, <2>4, <3>3, <4>2
      <4>3. CASE i = Len(d.armed) + 1 /\ j \in 1 .. Len(d.armed)
        BY <2>1, <2>4, <3>3, <4>3
      <4> QED BY <3>1, <4>1, <4>2, <4>3
    <3>4. ASSUME NEW i \in 1 .. Len(t)
          PROVE  t[i] \in e.dma
      BY <2>4, <2>7, <3>1, <3>2
    <3> QED BY <3>3, <3>4 DEF Distinct
  <2>9. Owners(e, h)
    <3>1. Waiting(e) = Waiting(d)
      BY <2>7 DEF Waiting
    <3> QED BY <1>4, <2>1, <2>7, <2>8, <3>1 DEF Safe, Owners
  <2>10. Clocked(e)
    BY <1>4, <2>7 DEF Supplying, Safe, Clocked
  <2>11. Len(t) <= 2 /\ (d.op = "starting" => Len(t) = 1)
    <3>1. Len(<< >>) = 0
      OBVIOUS
    <3> QED BY <1>4, <2>4, <3>1 DEF Supplying, Stoppable
  <2>12. Orderly(e)
    BY <1>4, <2>1, <2>7, <2>11 DEF Supplying, Stoppable, Orderly, Dev, o
  <2>13. r = e
    BY <1>4, <2>7
  <2> HIDE DEF r
  <2>14. Goal
    BY <1>4, <2>7, <2>9, <2>10, <2>12, <2>13 DEF Safe
  <2> QED BY <2>14 DEF r, e
<1>5. CASE d.active /\ (Cardinality(d.dma) = 2 \/ b = None \/ bad = "prepare")
  <2>1. e = StopPdm(Faulted(d), bad)
    BY <1>5 DEF Supplied, Supplying
  <2> QED BY <1>2, <1>5, <2>1
<1> QED BY <1>1, <1>3, <1>4, <1>5 DEF Supplying, Safe, Dev

-----------------------------------------------------------------------------
(* What the steps of the contract allow.                                   *)

\* The invariant of a step's end, from what is known of the two records.
LEMMA Lift ==
  ASSUME Safe(dev', held'), Orderly(dev'), IsFiniteSet(held')
  PROVE  DriverIInv'
BY DEF DriverIInv, Safe, Owners, Clocked, Orderly, Waiting, Distinct, Enabled

\* The contract sees no change.
LEMMA StutterAllowed ==
  ASSUME dev'.active, dev.active, dev'.faulty = dev.faulty, dev'.rx = dev.rx,
         dev'.completed = dev.completed, held' = held
  PROVE  UNCHANGED Contract!mic
BY DEF Contract!mic

\* A stop, or anything that ends a run and touches no block.
LEMMA StopAllowed ==
  ASSUME ~dev'.active, Sticky(dev', dev), dev'.rx = dev.rx,
         dev'.completed = dev.completed, held' = held,
         FullyStopped(dev) => FullyStopped(dev')
  PROVE  Contract!Stop
<1>1. FullyStopped(dev)' <=> FullyStopped(dev')
  BY DEF FullyStopped, Enabled
<1>2. FullyStopped(dev) => ~dev.active
  BY DEF FullyStopped
<1> QED BY <1>1, <1>2 DEF Contract!Stop, Contract!Ending, Sticky

\* The queue as the contract sees it.
Numbers(s) == [i \in DOMAIN s |-> s[i].sequence]

\* It is a sequence of numbers, as long as the queue.
LEMMA NumbersType ==
  ASSUME NEW s \in Seq(Block)
  PROVE  Numbers(s) \in Seq(1 .. MaxBlocks) /\ Len(Numbers(s)) = Len(s)
<1> DEFINE n == Len(s)
           u == Numbers(s)
<1>1. DOMAIN s = 1 .. n /\ n \in Nat /\ \A i \in 1 .. n : s[i] \in Block
  OBVIOUS
<1>2. \A x \in Block : x.sequence \in 1 .. MaxBlocks
  BY DEF Block
<1> HIDE DEF n
<1>3. u = [i \in 1 .. n |-> s[i].sequence]
  BY <1>1 DEF Numbers
<1>4. \A i \in 1 .. n : s[i].sequence \in 1 .. MaxBlocks
  BY <1>1, <1>2
<1>5. u \in [1 .. n -> 1 .. MaxBlocks]
  BY <1>3, <1>4
<1> HIDE DEF u
<1>6. u \in Seq(1 .. MaxBlocks) /\ Len(u) = n
  <2>1. [i \in 1 .. n |-> u[i]] \in Seq(1 .. MaxBlocks)
    BY <1>1, <1>5
  <2>3. u = [i \in 1 .. n |-> u[i]]
    BY <1>5
  <2>2. DOMAIN u = 1 .. n
    BY <1>5
  <2>4. u \in Seq(1 .. MaxBlocks)
    BY <2>1, <2>3
  <2>5. n = Len(u)
    BY <1>1, <2>2, <2>4, LenProperties
  <2> QED BY <2>4, <2>5
<1> QED BY <1>6 DEF n, u

\* A block at its end is a number at its end.
LEMMA NumbersAppend ==
  ASSUME NEW s \in Seq(Block), NEW x \in Block
  PROVE  Numbers(Append(s, x)) = Append(Numbers(s), x.sequence)
<1> DEFINE t == Append(s, x)
           u == Numbers(s)
           v == Append(u, x.sequence)
<1>1. /\ t \in Seq(Block) /\ Len(t) = Len(s) + 1 /\ Len(s) \in Nat /\ DOMAIN t = 1 .. Len(t)
      /\ t[Len(s) + 1] = x /\ \A i \in 1 .. Len(s) : t[i] = s[i]
  BY AppendProperties
<1>2. DOMAIN s = 1 .. Len(s)
  OBVIOUS
<1>3. u \in Seq(1 .. MaxBlocks) /\ Len(u) = Len(s)
  BY NumbersType
<1>4. x.sequence \in 1 .. MaxBlocks
  BY DEF Block
<1>5. /\ v \in Seq(1 .. MaxBlocks) /\ Len(v) = Len(u) + 1 /\ DOMAIN v = 1 .. Len(v)
      /\ v[Len(u) + 1] = x.sequence /\ \A i \in 1 .. Len(u) : v[i] = u[i]
  <2> HIDE DEF u
  <2> QED BY <1>3, <1>4, AppendProperties
<1>6. \A i \in 1 .. Len(s) : u[i] = s[i].sequence
  BY <1>2 DEF Numbers
<1> HIDE DEF t, u, v
<1>7. ASSUME NEW i \in 1 .. Len(s) + 1
      PROVE  t[i].sequence = v[i]
  <2>1. CASE i \in 1 .. Len(s)
    BY <1>1, <1>3, <1>5, <1>6, <2>1
  <2>2. CASE i = Len(s) + 1
    BY <1>1, <1>3, <1>5, <2>2
  <2> QED BY <1>1, <2>1, <2>2
<1>8. v = [i \in 1 .. Len(s) + 1 |-> v[i]]
  BY <1>3, <1>5
<1> QED BY <1>1, <1>7, <1>8 DEF Numbers, t, u, v

\* A block that leaves is a number that leaves.
LEMMA NumbersTail ==
  ASSUME NEW s \in Seq(Block), s # << >>
  PROVE  Numbers(Tail(s)) = Tail(Numbers(s)) /\ Numbers(s) # << >>
<1> DEFINE t == Tail(s)
           u == Numbers(s)
           v == Tail(u)
<1>1. /\ t \in Seq(Block) /\ Len(t) + 1 = Len(s) /\ Len(t) \in Nat /\ DOMAIN t = 1 .. Len(t)
      /\ \A i \in 1 .. Len(t) : t[i] = s[i + 1]
  BY HeadTailProperties
<1>2. DOMAIN s = 1 .. Len(s) /\ Len(s) \in Nat
  OBVIOUS
<1>3. u \in Seq(1 .. MaxBlocks) /\ Len(u) = Len(s)
  BY NumbersType
<1>4. u # << >>
  BY <1>1, <1>3
<1>5. /\ v \in Seq(1 .. MaxBlocks) /\ Len(v) + 1 = Len(u) /\ Len(v) \in Nat
      /\ DOMAIN v = 1 .. Len(v) /\ \A i \in 1 .. Len(v) : v[i] = u[i + 1]
  <2> HIDE DEF u
  <2> QED BY <1>3, <1>4, HeadTailProperties
<1>6. \A i \in 1 .. Len(s) : u[i] = s[i].sequence
  BY <1>2 DEF Numbers
<1> HIDE DEF t, u, v
<1>7. Len(v) = Len(t)
  <2>1. \A k, l, m \in Nat : k + 1 = m /\ l + 1 = m => k = l
    OBVIOUS
  <2> QED BY <1>1, <1>2, <1>3, <1>5, <2>1
<1>8. ASSUME NEW i \in 1 .. Len(t)
      PROVE  t[i].sequence = v[i]
  <2>1. i + 1 \in 1 .. Len(s)
    BY <1>1
  <2> QED BY <1>1, <1>5, <1>6, <1>7, <2>1
<1>9. v = [i \in 1 .. Len(t) |-> v[i]]
  BY <1>5, <1>7
<1> QED BY <1>1, <1>4, <1>8, <1>9 DEF Numbers, t, u, v

\* A block is completed and can be read, or the run ends and it may be lost.
LEMMA BlockAllowed ==
  ASSUME dev.active, ~dev.faulty, dev.completed < MaxBlocks, dev.faulty \in BOOLEAN,
         dev.completed \in Nat, MaxBlocks \in Nat, dev.rx \in Seq(Block),
         NEW b \in Buffer,
         dev'.completed = dev.completed + 1, held' = held,
         LET more == Append(dev.rx, [buffer |-> b, sequence |-> dev.completed + 1])
         IN  \/ dev'.active /\ ~dev'.faulty /\ dev'.faulty \in BOOLEAN /\ dev'.rx = more
             \/ ~dev'.active /\ dev'.faulty = TRUE /\ dev'.rx \in {dev.rx, more}
  PROVE  Contract!Next
<1> DEFINE x == [buffer |-> b, sequence |-> dev.completed + 1]
           more == Append(dev.rx, x)
<1>1. x \in Block /\ x.sequence = dev.completed + 1
  BY DEF Block
<1> HIDE DEF x
<1>2. Numbers(more) = Append(Numbers(dev.rx), dev.completed + 1)
  BY <1>1, NumbersAppend
<1>3. FullyStopped(dev)' <=> FullyStopped(dev')
  BY DEF FullyStopped, Enabled
<1>4. CASE dev'.active /\ ~dev'.faulty /\ dev'.faulty \in BOOLEAN /\ dev'.rx = more
  <2>1. Contract!Complete
    BY <1>2, <1>4 DEF Contract!Complete, Numbers
  <2> QED BY <2>1 DEF Contract!Next, Contract!Device
<1>5. CASE ~dev'.active /\ dev'.faulty = TRUE /\ dev'.rx \in {dev.rx, more}
  <2>1. Contract!Fail
    BY <1>2, <1>3, <1>5 DEF Contract!Fail, Contract!Ending, Numbers
  <2> QED BY <2>1 DEF Contract!Next, Contract!Device
<1> QED BY <1>4, <1>5 DEF x

-----------------------------------------------------------------------------
(* The interrupts.                                                         *)

\* Between two critical sections, a driver that nrfx asks nothing can be stopped.
LEMMA OrderlyStoppable ==
  ASSUME NEW d, Orderly(d), ~d.request
  PROVE  Stoppable(d)
BY DEF Orderly, Stoppable

\* n is d, but for the mark that the hardware has started.
Noting(n, d, requested) ==
  /\ n \in Dev /\ (n.hw_started <=> (d.hw_started \/ (requested /\ d.dma # {})))
  /\ n.faulty = d.faulty /\ n.completed = d.completed /\ n.configured = d.configured
  /\ n.active = d.active /\ n.stopping = d.stopping /\ n.dma = d.dma
  /\ n.clock_pending = d.clock_pending /\ n.clock_owned = d.clock_owned
  /\ n.slab = d.slab /\ n.rx = d.rx /\ n.op = d.op /\ n.armed = d.armed
  /\ n.request = d.request /\ n.refs = d.refs

\* The first part of the handler notes at most that the hardware has started.
LEMMA NotedFacts ==
  ASSUME NEW d \in Dev, NEW requested \in BOOLEAN, NEW released, NEW bad
  PROVE  Noting(Noted(d, Event(requested, released), bad), d, requested)
<1> DEFINE n == Noted(d, Event(requested, released), bad)
           w == d.hw_started \/ (requested /\ d.dma # {})
<1>1. w \in BOOLEAN
  OBVIOUS
<1>2. n = [d EXCEPT !.hw_started = w]
  BY DEF Noted, Event, Dev
<1> HIDE DEF n, w
<1>3. n \in Dev
  BY <1>1, <1>2 DEF Dev
<1>4. /\ (n.hw_started <=> w)
      /\ n.faulty = d.faulty /\ n.completed = d.completed /\ n.configured = d.configured
      /\ n.active = d.active /\ n.stopping = d.stopping /\ n.dma = d.dma
      /\ n.clock_pending = d.clock_pending /\ n.clock_owned = d.clock_owned
      /\ n.slab = d.slab /\ n.rx = d.rx /\ n.op = d.op /\ n.armed = d.armed
      /\ n.request = d.request /\ n.refs = d.refs
  BY <1>2 DEF Dev
<1> QED BY <1>3, <1>4 DEF n, w, Noting

\* A handler that returns no block: it supplies one, or the run ends.
LEMMA RequestHandled ==
  ASSUME DriverIInv, NEW n, Safe(n, held), Supplying(n), ~FullyStopped(dev),
         n.completed = dev.completed, n.rx = dev.rx, n.active = dev.active,
         n.faulty = dev.faulty, NEW evt, evt.requested = TRUE,
         NEW b, (b = None) \/ (b \in n.slab), NEW bad,
         LET e == Supplied(n, evt, b, bad)
         IN  dev' = IF e.active THEN e ELSE StopPdm(e, bad),
         held' = held
  PROVE  DriverIInv' /\ [Contract!Next]_Contract!mic
<1>1. /\ Safe(dev', held) /\ Orderly(dev') /\ dev'.completed = n.completed /\ dev'.rx = n.rx
      /\ dev'.active => n.active /\ dev'.faulty = n.faulty
      /\ ~dev'.active => Sticky(dev', n)
  BY SuppliedFacts
<1>2. DriverIInv'
  BY <1>1, Lift DEF DriverIInv
<1>3. CASE dev'.active
  <2>1. UNCHANGED Contract!mic
    BY <1>1, <1>3, StutterAllowed
  <2> QED BY <1>2, <2>1
<1>4. CASE ~dev'.active
  <2>1. Contract!Stop
    BY <1>1, <1>4, StopAllowed DEF Sticky
  <2> QED BY <1>2, <2>1 DEF Contract!Next
<1> QED BY <1>3, <1>4

\* nrfx asks for the first buffer: it is armed, or the run ends.
LEMMA FirstRequestSafe ==
  ASSUME DriverIInv, FirstRequest
  PROVE  DriverIInv' /\ [Contract!Next]_Contract!mic
<1> DEFINE d == [dev EXCEPT !.request = FALSE]
           evt == Event(TRUE, None)
<1>1. dev \in Dev /\ Safe(dev, held) /\ Orderly(dev) /\ dev.request
  BY DEF DriverIInv, Safe, FirstRequest
<1>0. PICK b \in Allocatable(dev) : \E bad : dev' = Handled(d, evt, b, bad)
  BY DEF FirstRequest
<1>2. PICK bad : dev' = Handled(d, evt, b, bad)
  BY <1>0
<1>3. held' = held
  BY DEF FirstRequest
<1>4. /\ d \in Dev /\ d.hw_started = dev.hw_started /\ ~d.request
      /\ d.faulty = dev.faulty /\ d.completed = dev.completed /\ d.configured = dev.configured
      /\ d.active = dev.active /\ d.stopping = dev.stopping /\ d.dma = dev.dma
      /\ d.clock_pending = dev.clock_pending /\ d.clock_owned = dev.clock_owned
      /\ d.slab = dev.slab /\ d.rx = dev.rx /\ d.op = dev.op /\ d.armed = dev.armed
      /\ d.refs = dev.refs
  BY <1>1 DEF Dev
<1> HIDE DEF d
<1> DEFINE n == Noted(d, evt, bad)
<1>5. Noting(n, d, TRUE)
  <2>1. TRUE \in BOOLEAN /\ d \in Dev
    BY <1>4
  <2> QED BY <2>1, NotedFacts
<1>6. evt.requested = TRUE /\ evt.released = None
  BY DEF Event
<1>7. Reclaimed(n, evt, bad) = n
  <2> HIDE DEF n, evt
  <2> QED BY <1>6 DEF Reclaimed
<1>8. LET e == Supplied(n, evt, b, bad)
      IN  dev' = IF e.active THEN e ELSE StopPdm(e, bad)
  <2> HIDE DEF evt
  <2> QED BY <1>2, <1>7 DEF Handled
<1> HIDE DEF n, evt
<1>9. Owners(n, held)
  BY <1>1, <1>4, <1>5, SameOwners DEF Noting, Safe
<1>10. Clocked(n)
  BY <1>1, <1>4, <1>5 DEF Noting, Safe, Clocked, Enabled
<1>11. Supplying(n) /\ ~FullyStopped(dev)
  <2>1. Len(<< >>) = 0
    OBVIOUS
  <2>2. ~dev.clock_pending
    BY <1>1 DEF Orderly
  <2>3. dev.op = "starting" /\ dev.active /\ dev.armed = << >> /\ ~dev.hw_started
    BY <1>1 DEF Orderly
  <2> QED BY <1>1, <1>4, <1>5, <2>1, <2>2, <2>3 DEF Noting, Supplying, Stoppable, Orderly, FullyStopped
<1>12. (b = None) \/ (b \in n.slab)
  BY <1>4, <1>5 DEF Noting, Allocatable
<1> QED BY <1>3, <1>4, <1>5, <1>6, <1>8, <1>9, <1>10, <1>11, <1>12, RequestHandled DEF Noting, Safe

\* The first buffer has started: the next one is armed, or the run ends.
LEMMA FirstStartedSafe ==
  ASSUME DriverIInv, FirstStarted
  PROVE  DriverIInv' /\ [Contract!Next]_Contract!mic
<1> DEFINE d == [dev EXCEPT !.op = "running"]
           evt == Event(TRUE, None)
<1>1. dev \in Dev /\ Safe(dev, held) /\ Orderly(dev) /\ dev.op = "armed"
  BY DEF DriverIInv, Safe, FirstStarted
<1>0. PICK b \in Allocatable(dev) : \E bad : dev' = Handled(d, evt, b, bad)
  BY DEF FirstStarted
<1>2. PICK bad : dev' = Handled(d, evt, b, bad)
  BY <1>0
<1>3. held' = held
  BY DEF FirstStarted
<1>4. /\ d \in Dev /\ d.hw_started = dev.hw_started /\ d.request = dev.request
      /\ d.faulty = dev.faulty /\ d.completed = dev.completed /\ d.configured = dev.configured
      /\ d.active = dev.active /\ d.stopping = dev.stopping /\ d.dma = dev.dma
      /\ d.clock_pending = dev.clock_pending /\ d.clock_owned = dev.clock_owned
      /\ d.slab = dev.slab /\ d.rx = dev.rx /\ d.op = "running" /\ d.armed = dev.armed
      /\ d.refs = dev.refs
  BY <1>1 DEF Dev
<1> HIDE DEF d
<1> DEFINE n == Noted(d, evt, bad)
<1>5. Noting(n, d, TRUE)
  <2>1. TRUE \in BOOLEAN /\ d \in Dev
    BY <1>4
  <2> QED BY <2>1, NotedFacts
<1>6. evt.requested = TRUE /\ evt.released = None
  BY DEF Event
<1>7. Reclaimed(n, evt, bad) = n
  <2> HIDE DEF n, evt
  <2> QED BY <1>6 DEF Reclaimed
<1>8. LET e == Supplied(n, evt, b, bad)
      IN  dev' = IF e.active THEN e ELSE StopPdm(e, bad)
  <2> HIDE DEF evt
  <2> QED BY <1>2, <1>7 DEF Handled
<1> HIDE DEF n, evt
<1>9. Owners(n, held)
  BY <1>1, <1>4, <1>5, SameOwners DEF Noting, Safe
<1>10. Clocked(n)
  BY <1>1, <1>4, <1>5 DEF Noting, Safe, Clocked, Enabled
<1>11. n.hw_started
  <2>1. Len(dev.armed) = 1
    BY <1>1 DEF Orderly
  <2>2. 1 \in 1 .. Len(dev.armed)
    BY <2>1
  <2>3. dev.dma # {}
    BY <1>1, <2>2 DEF Safe, Owners
  <2> QED BY <1>4, <1>5, <2>3 DEF Noting
<1>12. Supplying(n) /\ ~FullyStopped(dev)
  <2>1. ~dev.clock_pending /\ ~dev.request /\ dev.configured /\ Len(dev.armed) = 1
    BY <1>1 DEF Orderly
  <2>2. Supplying(n)
    BY <1>1, <1>4, <1>5, <1>11, <2>1 DEF Noting, Supplying, Stoppable, Orderly
  <2> QED BY <1>1, <2>2 DEF FullyStopped, Enabled
<1>13. (b = None) \/ (b \in n.slab)
  BY <1>4, <1>5 DEF Noting, Allocatable
<1> QED BY <1>3, <1>4, <1>5, <1>6, <1>8, <1>9, <1>10, <1>12, <1>13, RequestHandled DEF Noting, Safe

\* An overflow ends the run.
LEMMA OverflowsSafe ==
  ASSUME DriverIInv, Overflows
  PROVE  DriverIInv' /\ [Contract!Next]_Contract!mic
<1>1. /\ dev \in Dev /\ Safe(dev, held) /\ Orderly(dev) /\ dev.op \in {"running", "stopping"}
      /\ held' = held
  BY DEF DriverIInv, Safe, Overflows
<1>2. Stoppable(dev) /\ ~FullyStopped(dev)
  BY <1>1, OrderlyStoppable DEF Orderly, FullyStopped, Enabled
<1> DEFINE e == StopPdm(Faulted(dev), "none")
           r == StopPdm(e, "none")
<1>3. Overflow.requested = FALSE /\ Overflow.released = None /\ Overflow.error = TRUE
  BY DEF Overflow
<1>4. Noted(dev, Overflow, "none") = e
  <2>1. [dev EXCEPT !.hw_started = @ \/ (Overflow.requested /\ dev.dma # {})] = dev
    BY <1>1, <1>3 DEF Dev
  <2> QED BY <1>3, <2>1 DEF Noted
<1>5. /\ Safe(e, held) /\ Stoppable(e) /\ Alike(e, dev) /\ e.faulty = TRUE /\ ~e.active
  BY <1>1, <1>2, FaultStops
<1> HIDE DEF e
<1>6. Reclaimed(e, Overflow, "none") = e
  BY <1>3 DEF Reclaimed
<1>7. Supplied(e, Overflow, None, "none") = e
  BY <1>3 DEF Supplied
<1>8. dev' = r
  BY <1>4, <1>5, <1>6, <1>7 DEF Overflows, Handled
<1>9. Safe(r, held) /\ Orderly(r) /\ Alike(r, e) /\ Sticky(r, e) /\ ~r.active
  BY <1>5, StopOrderly
<1> HIDE DEF r
<1>10. DriverIInv'
  BY <1>1, <1>8, <1>9, Lift DEF DriverIInv
<1>11. Contract!Stop
  BY <1>1, <1>2, <1>5, <1>8, <1>9, StopAllowed DEF Alike, Sticky
<1> QED BY <1>10, <1>11 DEF Contract!Next

\* The head of the armed buffers and the rest, as the interrupt splits them.
LEMMA ArmedTail ==
  ASSUME NEW d, NEW h, d \in Dev, Owners(d, h), d.armed # << >>
  PROVE  LET e == [d EXCEPT !.armed = Tail(@)]
         IN  /\ e \in Dev /\ Owners(e, h) /\ Head(d.armed) \in d.dma
             /\ Tail(d.armed) \in Seq(Buffer) /\ Len(Tail(d.armed)) + 1 = Len(d.armed)
             /\ \A i \in 1 .. Len(Tail(d.armed)) : Tail(d.armed)[i] # Head(d.armed)
             /\ e.armed = Tail(d.armed) /\ e.hw_started = d.hw_started
             /\ e.faulty = d.faulty /\ e.completed = d.completed /\ e.configured = d.configured
             /\ e.active = d.active /\ e.stopping = d.stopping /\ e.dma = d.dma
             /\ e.clock_pending = d.clock_pending /\ e.clock_owned = d.clock_owned
             /\ e.slab = d.slab /\ e.rx = d.rx /\ e.op = d.op
             /\ e.request = d.request /\ e.refs = d.refs
<1> DEFINE t == Tail(d.armed)
           e == [d EXCEPT !.armed = t]
           s == d.armed
<1>1. s \in Seq(Buffer)
  BY DEF Dev
<1>2. Distinct(s) /\ \A i \in 1 .. Len(s) : s[i] \in d.dma
  BY DEF Owners
<1>3. /\ t \in Seq(Buffer) /\ Len(t) + 1 = Len(s) /\ Len(t) \in Nat /\ Len(s) \in Nat
      /\ Head(s) = s[1] /\ \A i \in 1 .. Len(t) : t[i] = s[i + 1]
  <2> HIDE DEF s
  <2> QED BY <1>1, HeadTailProperties DEF s
<1>4. [d EXCEPT !.armed = Tail(@)] = e
  BY DEF Dev
<1> HIDE DEF t, s
<1>5. /\ e \in Dev /\ e.armed = t /\ e.hw_started = d.hw_started
      /\ e.faulty = d.faulty /\ e.completed = d.completed /\ e.configured = d.configured
      /\ e.active = d.active /\ e.stopping = d.stopping /\ e.dma = d.dma
      /\ e.clock_pending = d.clock_pending /\ e.clock_owned = d.clock_owned
      /\ e.slab = d.slab /\ e.rx = d.rx /\ e.op = d.op
      /\ e.request = d.request /\ e.refs = d.refs
  BY <1>3 DEF Dev
<1> HIDE DEF e
<1>6. 1 \in 1 .. Len(s) /\ \A i \in 1 .. Len(t) : i + 1 \in 1 .. Len(s) /\ i + 1 # 1
  BY <1>3
<1>7. Head(s) \in d.dma /\ \A i \in 1 .. Len(t) : t[i] # Head(s) /\ t[i] \in d.dma
  BY <1>2, <1>3, <1>6 DEF Distinct
<1>8. Distinct(t)
  <2>1. ASSUME NEW i \in 1 .. Len(t), NEW j \in 1 .. Len(t), t[i] = t[j]
        PROVE  i = j
    <3>1. i + 1 = j + 1
      BY <1>2, <1>3, <1>6, <2>1 DEF Distinct
    <3> QED BY <3>1
  <2> QED BY <2>1 DEF Distinct
<1>9. Waiting(e) = Waiting(d)
  BY <1>5 DEF Waiting
<1>10. Owners(e, h)
  BY <1>5, <1>7, <1>8, <1>9 DEF Owners
<1> QED BY <1>3, <1>4, <1>5, <1>7, <1>10 DEF s, t

\* What the part of the handler that takes the block b back makes of n.
Reclaiming(m, n, h, b) ==
  /\ Safe(m, h) /\ Supplying(m) /\ n.slab \subseteq m.slab
  /\ n.active =>
       LET more == Append(n.rx, [buffer |-> b, sequence |-> n.completed + 1])
       IN  /\ m.completed = n.completed + 1
           /\ \/ m.active /\ m.faulty = n.faulty /\ m.rx = more
              \/ ~m.active /\ m.faulty = TRUE /\ m.rx \in {n.rx, more}
  /\ ~n.active => /\ m.completed = n.completed /\ m.rx = n.rx
                  /\ ~m.active /\ Sticky(m, n)

\* It takes back the block before the one that has started, or notes a fault.
LEMMA ReclaimedFacts ==
  ASSUME NEW n, NEW h, Safe(n, h), Stoppable(n), n.op \in {"running", "stopping"},
         Len(n.armed) <= 1, n.completed < MaxBlocks,
         n.active => n.op = "running" /\ ~n.stopping /\ ~n.faulty /\ n.clock_owned,
         NEW evt, NEW b \in n.dma, evt.released = b,
         \A i \in 1 .. Len(n.armed) : n.armed[i] # b, NEW bad
  PROVE  Reclaiming(Reclaimed(n, evt, bad), n, h, b)
<1> DEFINE complete == n.active /\ ~n.stopping /\ ~n.faulty
           e == Release(n, b, complete, bad)
           m == Reclaimed(n, evt, bad)
<1>1. n \in Dev /\ Owners(n, h) /\ Clocked(n) /\ complete \in BOOLEAN
      /\ (complete <=> n.active) /\ b # None
  BY DriverAssumption DEF Safe, Dev
<1>2. m = IF bad = "release" \/ (complete /\ e.faulty) THEN StopPdm(e, bad) ELSE e
  BY <1>1 DEF Reclaimed
<1> HIDE DEF complete
<1>3. Releasing(e, n, h, b, complete, bad)
  BY <1>1, ReleaseFacts
<1> HIDE DEF e, m
<1>4. Safe(e, h)
  <2>1. Clocked(e)
    BY <1>1, <1>3 DEF Releasing, Clocked, Enabled
  <2> QED BY <1>3, <2>1 DEF Releasing, Safe
<1>5. Stoppable(e)
  BY <1>3 DEF Releasing, Stoppable
<1>6. CASE bad = "release" \/ (complete /\ e.faulty)
  <2>1. m = StopPdm(e, bad)
    BY <1>2, <1>6
  <2>2. /\ Safe(m, h) /\ Stoppable(m) /\ Alike(m, e) /\ Sticky(m, e) /\ ~m.active
    BY <1>4, <1>5, <2>1, StopOrderly
  <2>3. e.faulty = TRUE
    BY <1>3, <1>6 DEF Releasing, Dev
  <2>4. Reclaiming(m, n, h, b)
    BY <1>1, <1>3, <2>2, <2>3 DEF Releasing, Reclaiming, Alike, Sticky, Supplying
  <2> QED BY <2>4 DEF m
<1>7. CASE ~(bad = "release" \/ (complete /\ e.faulty))
  <2>1. m = e
    BY <1>2, <1>7
  <2>2. Supplying(m)
    BY <1>1, <1>3, <1>5, <1>7, <2>1 DEF Releasing, Supplying, Stoppable
  <2>3. Reclaiming(m, n, h, b)
    BY <1>1, <1>3, <1>4, <1>7, <2>1, <2>2 DEF Releasing, Reclaiming, Sticky
  <2> QED BY <2>3 DEF m
<1> QED BY <1>6, <1>7

\* The next buffer has started: the one before it is completed, or freed after a stop.
LEMMA NextStartedSafe ==
  ASSUME DriverIInv, NextStarted
  PROVE  DriverIInv' /\ [Contract!Next]_Contract!mic
<1> DEFINE d == [dev EXCEPT !.armed = Tail(@)]
           k == Head(dev.armed)
           evt == Event(TRUE, k)
           more == Append(dev.rx, [buffer |-> k, sequence |-> dev.completed + 1])
<1>1. /\ dev \in Dev /\ Safe(dev, held) /\ Owners(dev, held) /\ Orderly(dev)
      /\ dev.op \in {"running", "stopping"} /\ Len(dev.armed) = 2
      /\ dev.completed < MaxBlocks /\ held' = held
  BY DEF DriverIInv, Safe, NextStarted
<1>0. PICK b \in Allocatable(dev) : \E bad : dev' = Handled(d, evt, b, bad)
  BY DEF NextStarted
<1>2. PICK bad : dev' = Handled(d, evt, b, bad)
  BY <1>0
<1>3. dev.armed # << >> /\ Stoppable(dev)
  <2>1. Len(<< >>) = 0
    OBVIOUS
  <2>2. ~dev.request
    BY <1>1 DEF Orderly
  <2> QED BY <1>1, <2>1, <2>2, OrderlyStoppable
<1>4. /\ d \in Dev /\ Owners(d, held) /\ k \in dev.dma
      /\ Tail(dev.armed) \in Seq(Buffer) /\ Len(Tail(dev.armed)) + 1 = Len(dev.armed)
      /\ \A i \in 1 .. Len(Tail(dev.armed)) : Tail(dev.armed)[i] # k
      /\ d.armed = Tail(dev.armed) /\ d.hw_started = dev.hw_started
      /\ d.faulty = dev.faulty /\ d.completed = dev.completed /\ d.configured = dev.configured
      /\ d.active = dev.active /\ d.stopping = dev.stopping /\ d.dma = dev.dma
      /\ d.clock_pending = dev.clock_pending /\ d.clock_owned = dev.clock_owned
      /\ d.slab = dev.slab /\ d.rx = dev.rx /\ d.op = dev.op
      /\ d.request = dev.request /\ d.refs = dev.refs
  BY <1>1, <1>3, ArmedTail
<1>5. Len(d.armed) = 1
  <2>1. Len(d.armed) \in Nat /\ Len(d.armed) + 1 = 2
    BY <1>1, <1>4
  <2> QED BY <2>1
<1> HIDE DEF d
<1> DEFINE n == Noted(d, evt, bad)
           m == Reclaimed(n, evt, bad)
<1>6. Noting(n, d, TRUE)
  <2>1. TRUE \in BOOLEAN /\ d \in Dev
    BY <1>4
  <2> QED BY <2>1, NotedFacts
<1>7. evt.requested = TRUE /\ evt.released = k
  BY DEF Event
<1>8. dev' = LET e == Supplied(m, evt, b, bad)
             IN  IF e.active THEN e ELSE StopPdm(e, bad)
  <2> HIDE DEF evt
  <2> QED BY <1>2 DEF Handled
<1> HIDE DEF n, evt, k
<1>9. Safe(n, held)
  <2>1. Owners(n, held)
    BY <1>4, <1>6, SameOwners DEF Noting
  <2>2. Clocked(n)
    BY <1>1, <1>4, <1>6 DEF Noting, Safe, Clocked, Enabled
  <2> QED BY <1>6, <2>1, <2>2 DEF Safe, Noting
<1>10. Stoppable(n)
  <2>1. ~dev.request /\ dev.configured /\ ~dev.clock_pending
    BY <1>1 DEF Orderly
  <2>2. n.hw_started
    BY <1>4, <1>6 DEF Noting
  <2>3. n.armed = d.armed
    BY <1>6 DEF Noting
  <2>4. Len(n.armed) <= 2
    <3>1. Len(n.armed) = 1
      BY <1>5, <2>3
    <3> QED BY <3>1
  <2>5. n.op \in {"running", "stopping"} /\ ~n.request /\ ~n.clock_pending /\ n.configured
    BY <1>1, <1>4, <1>6, <2>1 DEF Noting
  <2> QED BY <2>2, <2>4, <2>5 DEF Stoppable
<1>11. n.active => n.op = "running" /\ ~n.stopping /\ ~n.faulty /\ n.clock_owned
  BY <1>1, <1>4, <1>6 DEF Noting, Orderly
<1>12. /\ n.rx = dev.rx /\ n.completed = dev.completed /\ n.active = dev.active
       /\ n.faulty = dev.faulty /\ n.slab = dev.slab
  BY <1>4, <1>6 DEF Noting
<1>13. Reclaiming(m, n, held, k)
  <2>1. n.op \in {"running", "stopping"} /\ n.completed < MaxBlocks
    BY <1>1, <1>4, <1>6 DEF Noting
  <2>2. n.armed = d.armed
    BY <1>6 DEF Noting
  <2>4. Len(n.armed) <= 1
    <3>1. Len(n.armed) = 1
      BY <1>5, <2>2
    <3> QED BY <3>1
  <2>3. k \in n.dma /\ \A i \in 1 .. Len(n.armed) : n.armed[i] # k
    BY <1>4, <1>6, <2>2 DEF Noting
  <2> QED BY <1>7, <1>9, <1>10, <1>11, <2>1, <2>3, <2>4, ReclaimedFacts
<1> HIDE DEF m, more
<1>14. (b = None) \/ (b \in m.slab)
  BY <1>12, <1>13 DEF Reclaiming, Allocatable
<1>15. /\ Safe(dev', held) /\ Orderly(dev') /\ dev'.completed = m.completed /\ dev'.rx = m.rx
       /\ dev'.active => m.active /\ dev'.faulty = m.faulty
       /\ ~dev'.active => Sticky(dev', m)
       /\ m.active /\ ~dev'.active => dev'.faulty = TRUE
  BY <1>7, <1>8, <1>13, <1>14, SuppliedFacts DEF Reclaiming
<1>16. DriverIInv'
  BY <1>1, <1>15, Lift DEF DriverIInv
<1>17. CASE dev.active
  <2>1. /\ ~dev.faulty /\ dev.faulty \in BOOLEAN /\ dev.completed \in Nat /\ MaxBlocks \in Nat
        /\ dev.rx \in Seq(Block) /\ k \in Buffer /\ dev'.faulty \in BOOLEAN
    BY <1>1, <1>4, <1>15, <1>17, DriverAssumption DEF Dev, Orderly, Safe
  <2>2. dev'.completed = dev.completed + 1
    BY <1>12, <1>13, <1>15, <1>17 DEF Reclaiming
  <2>3. \/ dev'.active /\ ~dev'.faulty /\ dev'.faulty \in BOOLEAN /\ dev'.rx = more
        \/ ~dev'.active /\ dev'.faulty = TRUE /\ dev'.rx \in {dev.rx, more}
    BY <1>12, <1>13, <1>15, <1>17, <2>1 DEF Reclaiming, Sticky, more
  <2>4. Contract!Next
    BY <1>1, <1>17, <2>1, <2>2, <2>3, BlockAllowed DEF more
  <2> QED BY <1>16, <2>4
<1>18. CASE ~dev.active
  <2>1. ~FullyStopped(dev)
    BY <1>1 DEF FullyStopped, Enabled
  <2>2. Contract!Stop
    BY <1>1, <1>12, <1>13, <1>15, <1>18, <2>1, StopAllowed DEF Reclaiming, Sticky
  <2> QED BY <1>16, <2>2 DEF Contract!Next
<1> QED BY <1>17, <1>18

\* A stop of a driver whose peripheral is already off.
LEMMA IdleStop ==
  ASSUME NEW d, NEW h, Safe(d, h), d.op = "idle", NEW bad
  PROVE  LET e == StopPdm(d, bad)
         IN  /\ Safe(e, h) /\ Alike(e, d) /\ Sticky(e, d) /\ ~e.active
             /\ e.op = "idle" /\ e.armed = d.armed
<1> DEFINE e == StopPdm(d, bad)
<1>1. d \in Dev /\ Balanced(d) /\ Safe(e, h)
  BY StopSafe DEF Safe, Clocked, Balanced
<1>2. /\ Alike(e, d) /\ Sticky(e, d) /\ ~e.active
      /\ Deferred(d) => e.op = d.op /\ e.armed = d.armed
      /\ ~Deferred(d) /\ d.configured => (d.op = "idle" => e.op = d.op /\ e.armed = d.armed)
      /\ ~d.configured => e.op = d.op /\ e.armed = d.armed
  BY <1>1, StopFacts
<1> HIDE DEF e
<1> QED BY <1>1, <1>2 DEF e

\* What the callback that returns one buffer of a disabled peripheral leaves.
Returning(e, d, h) ==
  /\ Safe(e, h) /\ ~e.active /\ e.op = "idle" /\ Sticky(e, d)
  /\ e.armed = IF d.armed = << >> THEN << >> ELSE Tail(d.armed)
  /\ e.completed = d.completed /\ e.rx = d.rx
  /\ e.request = d.request /\ e.clock_pending = d.clock_pending

\* Each returned buffer leaves its slot, unless the release is refused.
LEMMA ReturnedFacts ==
  ASSUME NEW d, NEW h, Safe(d, h), ~d.active, d.op = "idle", NEW bad
  PROVE  Returning(Returned(d, bad), d, h)
<1> DEFINE t == [d EXCEPT !.armed = Tail(@)]
           k == Head(d.armed)
           evt == Event(FALSE, k)
           n == Noted(t, evt, bad)
           e == Release(n, k, FALSE, bad)
           m == Reclaimed(n, evt, bad)
           r == StopPdm(m, bad)
<1>1. CASE d.armed = << >>
  <2>1. Returned(d, bad) = d
    BY <1>1 DEF Returned
  <2> QED BY <1>1, <2>1 DEF Returning, Sticky
<1>2. CASE d.armed # << >>
  <2>1. d \in Dev /\ Owners(d, h) /\ Clocked(d)
    BY DEF Safe
  <2>2. /\ t \in Dev /\ Owners(t, h) /\ k \in d.dma
        /\ \A i \in 1 .. Len(Tail(d.armed)) : Tail(d.armed)[i] # k
        /\ t.armed = Tail(d.armed) /\ t.hw_started = d.hw_started
        /\ t.faulty = d.faulty /\ t.completed = d.completed /\ t.configured = d.configured
        /\ t.active = d.active /\ t.stopping = d.stopping /\ t.dma = d.dma
        /\ t.clock_pending = d.clock_pending /\ t.clock_owned = d.clock_owned
        /\ t.slab = d.slab /\ t.rx = d.rx /\ t.op = d.op
        /\ t.request = d.request /\ t.refs = d.refs
    BY <1>2, <2>1, ArmedTail
  <2> HIDE DEF t
  <2>3. Noting(n, t, FALSE)
    <3>1. FALSE \in BOOLEAN /\ t \in Dev
      BY <2>2
    <3> QED BY <3>1, NotedFacts
  <2>4. evt.requested = FALSE /\ evt.released = k /\ k # None
    BY <2>1, <2>2, DriverAssumption DEF Event, Dev
  <2>5. Returned(d, bad) = Handled(t, evt, None, bad)
    BY <1>2 DEF Returned, t
  <2> HIDE DEF n, evt, k
  <2>6. n \in Dev /\ Owners(n, h) /\ k \in n.dma /\ ~n.active /\ n.armed = Tail(d.armed)
    BY <2>2, <2>3, SameOwners DEF Noting
  <2>7. Releasing(e, n, h, k, FALSE, bad)
    <3>1. \A i \in 1 .. Len(n.armed) : n.armed[i] # k
      BY <2>2, <2>6
    <3> QED BY <2>6, <3>1, ReleaseFacts
  <2>8. m = IF bad = "release" THEN StopPdm(e, bad) ELSE e
    BY <2>4, <2>6 DEF Reclaimed
  <2> HIDE DEF e, m
  <2>9. Safe(e, h) /\ e.op = "idle"
    <3>1. Clocked(e)
      BY <2>1, <2>2, <2>3, <2>7 DEF Noting, Releasing, Clocked, Enabled
    <3> QED BY <2>2, <2>3, <2>7, <3>1 DEF Noting, Releasing, Safe
  <2>10. /\ Safe(m, h) /\ Alike(m, e) /\ Sticky(m, e) /\ ~m.active
         /\ m.op = "idle" /\ m.armed = e.armed
    <3>1. CASE bad = "release"
      BY <2>8, <2>9, <3>1, IdleStop
    <3>2. CASE bad # "release"
      BY <2>6, <2>7, <2>8, <2>9, <3>2 DEF Releasing, Alike, Sticky
    <3> QED BY <3>1, <3>2
  <2>11. Supplied(m, evt, None, bad) = m
    BY <2>4 DEF Supplied
  <2>12. Returned(d, bad) = r
    BY <2>5, <2>10, <2>11 DEF Handled, m, n
  <2>13. /\ Safe(r, h) /\ Alike(r, m) /\ Sticky(r, m) /\ ~r.active
         /\ r.op = "idle" /\ r.armed = m.armed
    BY <2>10, IdleStop
  <2> HIDE DEF r
  <2>14. /\ r.armed = Tail(d.armed) /\ r.completed = d.completed /\ r.rx = d.rx
         /\ r.request = d.request /\ r.clock_pending = d.clock_pending
    BY <2>2, <2>3, <2>7, <2>10, <2>13 DEF Noting, Releasing, Alike
  <2>15. Sticky(r, d)
    BY <2>2, <2>3, <2>7, <2>10, <2>13 DEF Noting, Releasing, Sticky
  <2> QED BY <1>2, <2>12, <2>13, <2>14, <2>15 DEF Returning
<1> QED BY <1>1, <1>2

\* The peripheral is off and has returned what it held.
LEMMA StoppedSafe ==
  ASSUME DriverIInv, Stopped
  PROVE  DriverIInv' /\ [Contract!Next]_Contract!mic
<1> DEFINE d == [dev EXCEPT !.op = "idle"]
<1>1. /\ dev \in Dev /\ Owners(dev, held) /\ Clocked(dev) /\ Orderly(dev)
      /\ dev.op = "stopping" /\ held' = held
  BY DEF DriverIInv, Safe, Stopped
<1>2. PICK bad, worse : dev' = Returned(Returned(d, bad), worse)
  BY DEF Stopped
<1>3. /\ d \in Dev /\ d.hw_started = dev.hw_started /\ d.request = dev.request
      /\ d.faulty = dev.faulty /\ d.completed = dev.completed /\ d.configured = dev.configured
      /\ d.active = dev.active /\ d.stopping = dev.stopping /\ d.dma = dev.dma
      /\ d.clock_pending = dev.clock_pending /\ d.clock_owned = dev.clock_owned
      /\ d.slab = dev.slab /\ d.rx = dev.rx /\ d.op = "idle" /\ d.armed = dev.armed
      /\ d.refs = dev.refs
  BY <1>1 DEF Dev
<1> HIDE DEF d
<1>4. Safe(d, held) /\ ~d.active
  <2>1. Owners(d, held)
    BY <1>1, <1>3, SameOwners
  <2>2. Clocked(d)
    BY <1>1, <1>3 DEF Clocked, Enabled
  <2>3. ~d.active
    BY <1>1, <1>3 DEF Orderly
  <2> QED BY <1>3, <2>1, <2>2, <2>3 DEF Safe
<1> DEFINE x == Returned(d, bad)
<1>5. Returning(x, d, held)
  BY <1>3, <1>4, ReturnedFacts
<1> HIDE DEF x
<1>6. Returning(dev', x, held)
  <2>1. Safe(x, held) /\ ~x.active /\ x.op = "idle"
    BY <1>5 DEF Returning
  <2> QED BY <1>2, <2>1, ReturnedFacts DEF x
<1>7. dev'.armed = << >>
  <2>1. d.armed \in Seq(Buffer) /\ Len(d.armed) <= 2
    BY <1>1, <1>3 DEF Orderly, Dev
  <2>2. \A s \in Seq(Buffer) : s # << >> => Tail(s) \in Seq(Buffer) /\ Len(Tail(s)) = Len(s) - 1
    OBVIOUS
  <2>3. x.armed \in Seq(Buffer) /\ Len(x.armed) <= 1
    <3>1. CASE d.armed = << >>
      BY <1>5, <3>1 DEF Returning
    <3>2. CASE d.armed # << >>
      BY <1>5, <2>1, <2>2, <3>2 DEF Returning
    <3> QED BY <3>1, <3>2
  <2>4. CASE x.armed = << >>
    BY <1>6, <2>4 DEF Returning
  <2>5. CASE x.armed # << >>
    <3>1. dev'.armed = Tail(x.armed)
      BY <1>6, <2>5 DEF Returning
    <3>2. Tail(x.armed) = << >>
      <4>1. \A s \in Seq(Buffer) : Len(s) <= 1 /\ s # << >> => Tail(s) = << >>
        OBVIOUS
      <4> QED BY <2>3, <2>5, <4>1
    <3> QED BY <3>1, <3>2
  <2> QED BY <2>4, <2>5
<1>8. /\ Safe(dev', held) /\ ~dev'.active /\ dev'.op = "idle" /\ Sticky(dev', dev)
      /\ dev'.completed = dev.completed /\ dev'.rx = dev.rx
      /\ dev'.request = dev.request /\ dev'.clock_pending = dev.clock_pending
  BY <1>3, <1>5, <1>6 DEF Returning, Sticky
<1>9. Orderly(dev')
  <2>1. ~dev.request /\ ~dev.clock_pending
    BY <1>1 DEF Orderly
  <2>2. Len(<< >>) = 0
    OBVIOUS
  <2> QED BY <1>7, <1>8, <2>1, <2>2 DEF Orderly
<1>10. DriverIInv'
  BY <1>1, <1>8, <1>9, Lift DEF DriverIInv
<1>11. Contract!Stop
  <2>1. ~FullyStopped(dev)
    BY <1>1 DEF FullyStopped, Enabled
  <2> QED BY <1>1, <1>8, <2>1, StopAllowed
<1> QED BY <1>10, <1>11 DEF Contract!Next

-----------------------------------------------------------------------------
(* The clock, and the application's calls.                                 *)

\* What the clock's callback leaves, of a driver that waits for it.
Calling(e, d, h) ==
  /\ Safe(e, h) /\ Orderly(e) /\ e.completed = d.completed /\ e.rx = d.rx
  /\ e.active => d.active /\ e.faulty = d.faulty
  /\ ~e.active => Sticky(e, d)
  /\ d.active /\ ~e.active => e.faulty = TRUE

\* The clock's callback starts the transfer, ends the stop or notes a fault.
LEMMA ClockCalledFacts ==
  ASSUME NEW d, NEW h, Safe(d, h), Orderly(d), d.clock_pending, NEW bad
  PROVE  Calling(ClockCalled(d, bad), d, h)
<1> DEFINE c == [d EXCEPT !.clock_pending = FALSE]
<1>1. d \in Dev /\ Owners(d, h) /\ Clocked(d)
  BY DEF Safe
<1>2. /\ d.op = "idle" /\ d.dma = {} /\ d.clock_owned /\ ~d.hw_started /\ d.armed = << >>
      /\ ~d.request /\ (d.active => ~d.faulty /\ ~d.stopping /\ d.configured)
  BY DEF Orderly
<1>3. d.refs = 1
  BY <1>1, <1>2 DEF Clocked
<1>4. /\ c \in Dev /\ c.hw_started = d.hw_started /\ c.request = d.request
      /\ c.faulty = d.faulty /\ c.completed = d.completed /\ c.configured = d.configured
      /\ c.active = d.active /\ c.stopping = d.stopping /\ c.dma = d.dma
      /\ ~c.clock_pending /\ c.clock_owned = d.clock_owned
      /\ c.slab = d.slab /\ c.rx = d.rx /\ c.op = d.op /\ c.armed = d.armed
      /\ c.refs = d.refs
  BY <1>1 DEF Dev
<1>5. ClockCalled(d, bad) =
        IF bad = "clock"
        THEN StopPdm([Faulted(c) EXCEPT !.clock_owned = FALSE, !.refs = @ - 1], bad)
        ELSE IF ~d.active \/ d.stopping THEN FinishStop(c, bad) ELSE StartTransfer(c, bad)
  BY DEF ClockCalled
<1> HIDE DEF c
<1>6. Safe(c, h) /\ Stoppable(c)
  <2>1. Owners(c, h)
    BY <1>1, <1>4, SameOwners
  <2>2. Clocked(c)
    BY <1>1, <1>2, <1>4 DEF Clocked, Enabled
  <2>3. Len(<< >>) = 0
    OBVIOUS
  <2>4. Stoppable(c)
    BY <1>2, <1>4, <2>3 DEF Stoppable
  <2> QED BY <1>4, <2>1, <2>2, <2>4 DEF Safe
<1>7. CASE bad = "clock"
  <2> DEFINE f == [c EXCEPT !.faulty = TRUE, !.clock_owned = FALSE, !.refs = 0]
             e == StopPdm(f, bad)
  <2>1. [Faulted(c) EXCEPT !.clock_owned = FALSE, !.refs = @ - 1] = f
    <3>1. c \in Dev /\ c.refs - 1 = 0
      BY <1>3, <1>4
    <3>2. [Faulted(c) EXCEPT !.clock_owned = FALSE, !.refs = @ - 1] =
            [c EXCEPT !.faulty = TRUE, !.clock_owned = FALSE, !.refs = c.refs - 1]
      BY <3>1 DEF Faulted, Dev
    <3> QED BY <3>1, <3>2
  <2>2. ClockCalled(d, bad) = e
    BY <1>5, <1>7, <2>1
  <2>3. f \in Dev /\ f.faulty = TRUE /\ ~f.clock_owned /\ f.refs = 0 /\ Alike(f, c)
        /\ f.op = c.op /\ f.armed = c.armed /\ f.active = c.active
    BY <1>4 DEF Dev, Alike
  <2> HIDE DEF f
  <2>4. Safe(f, h)
    <3>1. Owners(f, h)
      BY <1>6, <2>3, SameOwners DEF Safe, Alike
    <3>2. Clocked(f)
      BY <1>2, <1>4, <2>3 DEF Clocked, Enabled, Alike
    <3> QED BY <2>3, <3>1, <3>2 DEF Safe
  <2>5. Stoppable(f)
    BY <1>2, <1>4, <1>6, <2>3 DEF Stoppable, Alike
  <2>6. Safe(e, h) /\ Orderly(e) /\ Alike(e, f) /\ Sticky(e, f) /\ ~e.active
    BY <2>4, <2>5, StopOrderly
  <2> HIDE DEF e
  <2>7. Calling(e, d, h)
    BY <1>4, <2>3, <2>6 DEF Calling, Alike, Sticky
  <2> QED BY <2>2, <2>7
<1>8. CASE bad # "clock" /\ (~d.active \/ d.stopping)
  <2> DEFINE e == FinishStop(c, bad)
  <2>1. ClockCalled(d, bad) = e
    BY <1>5, <1>8
  <2>2. ~d.active
    BY <1>2, <1>8
  <2>3. /\ e \in Dev /\ Balanced(e) /\ Alike(e, c) /\ Sticky(e, c)
        /\ e.active = c.active /\ e.op = c.op /\ e.armed = c.armed
    BY <1>1, <1>4, FinishStopFacts DEF Clocked, Balanced
  <2> HIDE DEF e
  <2>4. Owners(e, h)
    BY <1>6, <2>3, SameOwners DEF Safe, Alike
  <2>5. Clocked(e)
    BY <1>2, <1>4, <2>3 DEF Clocked, Balanced, Enabled, Alike
  <2>6. Orderly(e)
    <3>1. Len(<< >>) = 0
      OBVIOUS
    <3> QED BY <1>2, <1>4, <2>2, <2>3, <3>1 DEF Orderly, Alike
  <2>7. Calling(e, d, h)
    BY <1>4, <2>2, <2>3, <2>4, <2>5, <2>6 DEF Calling, Safe, Sticky, Alike
  <2> QED BY <2>1, <2>7
<1>9. CASE bad # "clock" /\ ~(~d.active \/ d.stopping) /\ bad = "start"
  <2> DEFINE e == StopPdm(Faulted(c), bad)
  <2>1. ClockCalled(d, bad) = e
    BY <1>2, <1>4, <1>5, <1>9 DEF StartTransfer
  <2>2. /\ Safe(e, h) /\ Orderly(e) /\ Stoppable(e)
        /\ Alike(e, c) /\ e.faulty = TRUE /\ ~e.active
    BY <1>6, FaultStops
  <2> HIDE DEF e
  <2>3. Calling(e, d, h)
    BY <1>4, <2>2 DEF Calling, Alike, Sticky
  <2> QED BY <2>1, <2>3
<1>10. CASE bad # "clock" /\ ~(~d.active \/ d.stopping) /\ bad # "start"
  <2> DEFINE e == [c EXCEPT !.op = "starting", !.request = TRUE]
  <2>1. ClockCalled(d, bad) = e
    BY <1>2, <1>4, <1>5, <1>10 DEF StartTransfer
  <2>2. /\ e \in Dev /\ e.hw_started = c.hw_started /\ e.request = TRUE
        /\ e.faulty = c.faulty /\ e.completed = c.completed /\ e.configured = c.configured
        /\ e.active = c.active /\ e.stopping = c.stopping /\ e.dma = c.dma
        /\ e.clock_pending = c.clock_pending /\ e.clock_owned = c.clock_owned
        /\ e.slab = c.slab /\ e.rx = c.rx /\ e.op = "starting" /\ e.armed = c.armed
        /\ e.refs = c.refs
    BY <1>4 DEF Dev
  <2> HIDE DEF e
  <2>3. Owners(e, h)
    BY <1>6, <2>2, SameOwners DEF Safe
  <2>4. Clocked(e)
    BY <1>1, <1>2, <1>4, <2>2 DEF Clocked, Enabled
  <2>5. Orderly(e)
    <3>1. Len(<< >>) = 0
      OBVIOUS
    <3> QED BY <1>2, <1>4, <1>10, <2>2, <3>1 DEF Orderly
  <2>6. Calling(e, d, h)
    BY <1>4, <1>10, <2>2, <2>3, <2>4, <2>5 DEF Calling, Safe
  <2> QED BY <2>1, <2>6
<1> QED BY <1>7, <1>8, <1>9, <1>10

\* The step of that callback.
LEMMA ClockStartedSafe ==
  ASSUME DriverIInv, ClockStarted
  PROVE  DriverIInv' /\ [Contract!Next]_Contract!mic
<1>1. Safe(dev, held) /\ Orderly(dev) /\ dev.clock_pending /\ held' = held
  BY DEF DriverIInv, ClockStarted
<1>2. PICK bad : dev' = ClockCalled(dev, bad)
  BY DEF ClockStarted
<1>3. Calling(dev', dev, held)
  BY <1>1, <1>2, ClockCalledFacts
<1>4. DriverIInv'
  BY <1>1, <1>3, Lift DEF DriverIInv, Calling
<1>5. CASE dev'.active
  <2>1. UNCHANGED Contract!mic
    BY <1>1, <1>3, <1>5, StutterAllowed DEF Calling
  <2> QED BY <1>4, <2>1
<1>6. CASE ~dev'.active
  <2>1. ~FullyStopped(dev)
    BY <1>1 DEF FullyStopped
  <2>2. Contract!Stop
    BY <1>1, <1>3, <1>6, <2>1, StopAllowed DEF Calling
  <2> QED BY <1>4, <2>2 DEF Contract!Next
<1> QED BY <1>5, <1>6

\* A device that reports drained has nothing out, and the contract says the same.
LEMMA DrainedFacts ==
  ASSUME DriverIInv, Thread, FullyDrained(dev)
  PROVE  /\ Contract!Drained /\ ~dev.active /\ FullyStopped(dev)
         /\ dev.op = "idle" /\ dev.armed = << >> /\ dev.dma = {} /\ dev.rx = << >>
         /\ ~dev.stopping /\ ~dev.clock_pending /\ ~dev.clock_owned /\ dev.refs = 0
         /\ ~dev.request
<1>1. dev \in Dev /\ Owners(dev, held) /\ Clocked(dev) /\ Orderly(dev) /\ IsFiniteSet(held)
  BY DEF DriverIInv, Safe
<1>2. /\ ~dev.active /\ ~dev.stopping /\ ~dev.clock_pending /\ ~dev.clock_owned
      /\ dev.dma = {} /\ ~Enabled(dev) /\ dev.rx = << >> /\ dev.slab = Buffer
      /\ FullyStopped(dev)
  BY DEF FullyDrained, FullyStopped
<1>3. dev.op = "idle" /\ dev.armed = << >> /\ ~dev.request /\ dev.refs = 0
  BY <1>1, <1>2 DEF Thread, Orderly, Enabled, Dev, Clocked
<1>4. held = {}
  BY <1>1, <1>2 DEF Owners
<1>5. Cardinality(held) = 0
  BY <1>4, FS_EmptySet
<1>6. Numbers(dev.rx) = << >>
  <2>1. << >> \in Seq(Block) /\ Len(<< >>) = 0
    OBVIOUS
  <2> DEFINE u == Numbers(<< >>)
  <2>2. u \in Seq(1 .. MaxBlocks) /\ Len(u) = 0
    <3> HIDE DEF u
    <3> QED BY <2>1, NumbersType DEF u
  <2> HIDE DEF u
  <2>3. u = << >>
    BY <2>2
  <2> QED BY <1>2, <2>3 DEF u
<1>7. Contract!Drained
  BY <1>2, <1>5, <1>6 DEF Contract!Drained, Numbers
<1> QED BY <1>1, <1>2, <1>3, <1>7

\* A drained device may be configured.
LEMMA ConfigureSafe ==
  ASSUME DriverIInv, Configure
  PROVE  DriverIInv' /\ Contract!Next
<1>1. /\ Thread /\ FullyDrained(dev) /\ ~dev.faulty /\ held' = held
      /\ dev \in Dev /\ Owners(dev, held) /\ Clocked(dev) /\ Orderly(dev)
  BY DEF DriverIInv, Safe, Configure
<1>2. /\ Contract!Drained /\ ~dev.active /\ FullyStopped(dev)
      /\ dev.op = "idle" /\ dev.armed = << >> /\ dev.dma = {} /\ dev.rx = << >>
      /\ ~dev.stopping /\ ~dev.clock_pending /\ ~dev.clock_owned /\ dev.refs = 0
      /\ ~dev.request
  BY <1>1, DrainedFacts
<1>3. PICK ok \in BOOLEAN : dev' = [dev EXCEPT !.configured = ok, !.faulty = ~ok]
  BY DEF Configure
<1>4. /\ dev' \in Dev /\ dev'.completed = dev.completed /\ dev'.faulty \in BOOLEAN
      /\ dev'.active = dev.active /\ dev'.stopping = dev.stopping /\ dev'.dma = dev.dma
      /\ dev'.clock_pending = dev.clock_pending /\ dev'.clock_owned = dev.clock_owned
      /\ dev'.slab = dev.slab /\ dev'.rx = dev.rx /\ dev'.op = dev.op
      /\ dev'.armed = dev.armed /\ dev'.hw_started = dev.hw_started
      /\ dev'.request = dev.request /\ dev'.refs = dev.refs
  <2>1. (~ok) \in BOOLEAN
    OBVIOUS
  <2> DEFINE e == [dev EXCEPT !.configured = ok, !.faulty = ~ok]
  <2>2. e \in Dev
    BY <1>1, <2>1 DEF Dev
  <2>3. /\ e.completed = dev.completed
        /\ e.active = dev.active /\ e.stopping = dev.stopping /\ e.dma = dev.dma
        /\ e.clock_pending = dev.clock_pending /\ e.clock_owned = dev.clock_owned
        /\ e.slab = dev.slab /\ e.rx = dev.rx /\ e.op = dev.op
        /\ e.armed = dev.armed /\ e.hw_started = dev.hw_started
        /\ e.request = dev.request /\ e.refs = dev.refs
    BY <1>1 DEF Dev
  <2>4. e.faulty \in BOOLEAN
    <3> HIDE DEF e
    <3> QED BY <2>2 DEF Dev
  <2> HIDE DEF e
  <2> QED BY <1>3, <2>2, <2>3, <2>4 DEF e
<1>5. Owners(dev', held)
  BY <1>1, <1>4, SameOwners
<1>6. Clocked(dev')
  BY <1>1, <1>4 DEF Clocked, Enabled
<1>7. Orderly(dev')
  BY <1>1, <1>2, <1>4 DEF Orderly
<1>8. DriverIInv'
  BY <1>1, <1>4, <1>5, <1>6, <1>7, Lift DEF DriverIInv, Safe
<1>9. FullyStopped(dev)'
  BY <1>2, <1>4 DEF FullyStopped, Enabled
<1>10. Contract!Configure
  BY <1>1, <1>2, <1>4, <1>9 DEF Contract!Configure
<1> QED BY <1>8, <1>10 DEF Contract!Next

\* The application stops the device, at any time.
LEMMA StopStep ==
  ASSUME DriverIInv, Stop
  PROVE  DriverIInv' /\ Contract!Next
<1>1. /\ Safe(dev, held) /\ Orderly(dev) /\ ~dev.request /\ held' = held /\ dev \in Dev
      /\ Balanced(dev)
  BY DEF DriverIInv, Stop, Thread, Safe, Clocked, Balanced
<1>2. PICK bad : dev' = StopPdm(dev, bad)
  BY DEF Stop
<1>3. Stoppable(dev)
  BY <1>1, OrderlyStoppable
<1>4. /\ Safe(dev', held) /\ Orderly(dev') /\ Alike(dev', dev) /\ Sticky(dev', dev) /\ ~dev'.active
  BY <1>1, <1>2, <1>3, StopOrderly
<1>5. ASSUME FullyStopped(dev)
      PROVE  FullyStopped(dev')
  <2>1. /\ ~dev.clock_pending /\ ~dev.clock_owned /\ dev.dma = {} /\ dev.op = "idle"
    BY <1>1, <1>5 DEF FullyStopped, Enabled, Orderly, Dev
  <2>2. dev'.op = "idle"
    BY <1>1, <1>2, <2>1, IdleStop
  <2>3. dev'.dma = {} /\ ~Enabled(dev') /\ ~dev'.clock_pending
    BY <1>4, <2>1, <2>2 DEF Alike, Enabled
  <2>4. ~dev'.clock_owned /\ ~dev'.stopping
    BY <1>1, <1>2, <2>1, <2>3, StopFacts
  <2> QED BY <1>4, <2>3, <2>4 DEF FullyStopped
<1>6. DriverIInv'
  BY <1>1, <1>4, Lift DEF DriverIInv
<1>7. Contract!Stop
  BY <1>1, <1>4, <1>5, StopAllowed DEF Alike
<1> QED BY <1>6, <1>7 DEF Contract!Next

\* The application starts a drained device; the clock may answer at once.
LEMMA StartStep ==
  ASSUME DriverIInv, Start
  PROVE  DriverIInv' /\ Contract!Next
<1> DEFINE d == [dev EXCEPT !.active = TRUE, !.hw_started = FALSE]
           asked == [d EXCEPT !.clock_pending = TRUE, !.clock_owned = TRUE, !.refs = @ + 1]
           a == [d EXCEPT !.clock_pending = TRUE, !.clock_owned = TRUE, !.refs = 1]
<1>1. /\ Thread /\ FullyDrained(dev) /\ ~dev.faulty /\ dev.configured /\ held' = held
      /\ dev \in Dev /\ Owners(dev, held) /\ Clocked(dev) /\ Orderly(dev)
  BY DEF DriverIInv, Safe, Start
<1>2. /\ Contract!Drained /\ ~dev.active /\ FullyStopped(dev)
      /\ dev.op = "idle" /\ dev.armed = << >> /\ dev.dma = {} /\ dev.rx = << >>
      /\ ~dev.stopping /\ ~dev.clock_pending /\ ~dev.clock_owned /\ dev.refs = 0
      /\ ~dev.request
  BY <1>1, DrainedFacts
<1>3. /\ d \in Dev /\ d.active /\ ~d.hw_started
      /\ d.faulty = dev.faulty /\ d.completed = dev.completed /\ d.configured = dev.configured
      /\ d.stopping = dev.stopping /\ d.dma = dev.dma
      /\ d.clock_pending = dev.clock_pending /\ d.clock_owned = dev.clock_owned
      /\ d.slab = dev.slab /\ d.rx = dev.rx /\ d.op = dev.op /\ d.armed = dev.armed
      /\ d.request = dev.request /\ d.refs = dev.refs
  BY <1>1 DEF Dev
<1>4. \/ dev' = asked
      \/ \E bad : dev' = ClockCalled(asked, bad)
      \/ dev' = StopPdm(Faulted(d), "none")
  BY DEF Start
<1> HIDE DEF d
<1>5. asked = a
  <2>1. d.refs + 1 = 1
    BY <1>2, <1>3
  <2> QED BY <2>1
<1> HIDE DEF asked
<1>6. /\ a \in Dev /\ a.active = d.active /\ a.hw_started = d.hw_started
      /\ a.faulty = d.faulty /\ a.completed = d.completed /\ a.configured = d.configured
      /\ a.stopping = d.stopping /\ a.dma = d.dma
      /\ a.clock_pending /\ a.clock_owned
      /\ a.slab = d.slab /\ a.rx = d.rx /\ a.op = d.op /\ a.armed = d.armed
      /\ a.request = d.request /\ a.refs = 1
  BY <1>3 DEF Dev
<1> HIDE DEF a
<1>7. Len(<< >>) = 0
  OBVIOUS
<1>8. Safe(d, held) /\ Stoppable(d)
  <2>1. Owners(d, held)
    BY <1>1, <1>3, SameOwners
  <2>2. Clocked(d)
    BY <1>2, <1>3 DEF Clocked, Enabled
  <2>3. Stoppable(d)
    BY <1>2, <1>3, <1>7 DEF Stoppable
  <2> QED BY <1>3, <2>1, <2>2, <2>3 DEF Safe
<1>9. Safe(a, held) /\ Orderly(a)
  <2>1. Owners(a, held)
    BY <1>6, <1>8, SameOwners DEF Safe
  <2>2. Clocked(a)
    BY <1>2, <1>6 DEF Clocked, Enabled
  <2>3. Orderly(a)
    BY <1>1, <1>2, <1>3, <1>6, <1>7 DEF Orderly
  <2> QED BY <1>6, <2>1, <2>2, <2>3 DEF Safe
<1>10. /\ Safe(dev', held) /\ Orderly(dev') /\ dev'.completed = dev.completed
       /\ dev'.rx = dev.rx
       /\ \/ dev'.active /\ dev'.faulty = dev.faulty
          \/ ~dev'.active /\ dev'.faulty = TRUE
  <2>1. CASE dev' = a
    BY <1>3, <1>6, <1>9, <2>1
  <2>2. CASE \E bad : dev' = ClockCalled(a, bad)
    <3>1. Calling(dev', a, held)
      BY <1>6, <1>9, <2>2, ClockCalledFacts
    <3> QED BY <1>3, <1>6, <3>1 DEF Calling
  <2>3. CASE dev' = StopPdm(Faulted(d), "none")
    <3>1. /\ Safe(dev', held) /\ Orderly(dev') /\ Alike(dev', d) /\ dev'.faulty = TRUE
          /\ ~dev'.active
      BY <1>8, <2>3, FaultStops
    <3> QED BY <1>3, <3>1 DEF Alike
  <2> QED BY <1>4, <1>5, <2>1, <2>2, <2>3
<1>11. DriverIInv'
  BY <1>1, <1>10, Lift DEF DriverIInv
<1>12. Contract!Start
  BY <1>1, <1>2, <1>10 DEF Contract!Start, Contract!Ending
<1> QED BY <1>11, <1>12 DEF Contract!Next

\* A block goes from the queue to the application.
LEMMA ReadStep ==
  ASSUME DriverIInv, Read
  PROVE  DriverIInv' /\ Contract!Next
<1> DEFINE s == dev.rx
           t == Tail(dev.rx)
           x == Head(dev.rx).buffer
           h == held \cup {x}
<1>1. /\ dev \in Dev /\ Owners(dev, held) /\ Clocked(dev) /\ Orderly(dev) /\ IsFiniteSet(held)
      /\ s # << >> /\ s \in Seq(Block)
  BY DEF DriverIInv, Safe, Read, Dev
<1>2. dev' = [dev EXCEPT !.rx = t] /\ held' = h
  BY <1>1 DEF Read, Dev
<1>3. \A i, j \in 1 .. Len(s) : s[i].buffer = s[j].buffer => i = j
  BY <1>1 DEF Owners
<1> HIDE DEF s
<1>4. /\ t \in Seq(Block) /\ Head(s) \in Block
      /\ {s[i].buffer : i \in 1 .. Len(s)} = {t[i].buffer : i \in 1 .. Len(t)} \cup {Head(s).buffer}
      /\ Head(s).buffer \notin {t[i].buffer : i \in 1 .. Len(t)}
      /\ \A i, j \in 1 .. Len(t) : t[i].buffer = t[j].buffer => i = j
  BY <1>1, <1>3, WaitingTail DEF s
<1> HIDE DEF t
<1>5. /\ dev' \in Dev /\ dev'.rx = t /\ dev'.completed = dev.completed
      /\ dev'.faulty = dev.faulty /\ dev'.configured = dev.configured
      /\ dev'.active = dev.active /\ dev'.stopping = dev.stopping /\ dev'.dma = dev.dma
      /\ dev'.clock_pending = dev.clock_pending /\ dev'.clock_owned = dev.clock_owned
      /\ dev'.slab = dev.slab /\ dev'.op = dev.op
      /\ dev'.armed = dev.armed /\ dev'.hw_started = dev.hw_started
      /\ dev'.request = dev.request /\ dev'.refs = dev.refs
  BY <1>1, <1>2, <1>4 DEF Dev
<1>6. x \in Buffer
  BY <1>4 DEF Block, s
<1>7. Waiting(dev) = Waiting(dev') \cup {x} /\ x \notin Waiting(dev')
  BY <1>4, <1>5 DEF Waiting, s
<1> HIDE DEF x
<1>8. Owners(dev', h)
  BY <1>1, <1>4, <1>5, <1>6, <1>7 DEF Owners
<1>9. Clocked(dev')
  BY <1>1, <1>5 DEF Clocked, Enabled
<1>10. Orderly(dev')
  BY <1>1, <1>5 DEF Orderly
<1>11. x \notin held
  BY <1>1, <1>7 DEF Owners
<1>12. IsFiniteSet(h) /\ Cardinality(h) = Cardinality(held) + 1
  BY <1>1, <1>11, FS_AddElement
<1>13. DriverIInv'
  BY <1>2, <1>5, <1>8, <1>9, <1>10, <1>12, Lift DEF Safe
<1>14. Numbers(t) = Tail(Numbers(s)) /\ Numbers(s) # << >>
  BY <1>1, NumbersTail DEF t, s
<1>15. FullyStopped(dev)' <=> FullyStopped(dev)
  BY <1>5 DEF FullyStopped, Enabled
<1>16. Contract!Read
  BY <1>2, <1>5, <1>12, <1>14, <1>15 DEF Contract!Read, Numbers, s
<1> QED BY <1>13, <1>16 DEF Contract!Next

\* A block goes from the application to the slab.
LEMMA FreeStep ==
  ASSUME DriverIInv, NEW b, FreeBlock(b)
  PROVE  DriverIInv' /\ Contract!Next
<1> DEFINE h == held \ {b}
<1>1. /\ dev \in Dev /\ Owners(dev, held) /\ Clocked(dev) /\ Orderly(dev) /\ IsFiniteSet(held)
      /\ b \in held /\ b \in Buffer /\ held' = h
  BY DEF DriverIInv, Safe, FreeBlock, Owners
<1>2. dev' = [dev EXCEPT !.slab = dev.slab \cup {b}]
  BY <1>1 DEF FreeBlock, Dev
<1>3. dev.slab \cup {b} \in SUBSET Buffer
  BY <1>1 DEF Dev
<1>4. /\ dev' \in Dev /\ dev'.rx = dev.rx /\ dev'.completed = dev.completed
      /\ dev'.faulty = dev.faulty /\ dev'.configured = dev.configured
      /\ dev'.active = dev.active /\ dev'.stopping = dev.stopping /\ dev'.dma = dev.dma
      /\ dev'.clock_pending = dev.clock_pending /\ dev'.clock_owned = dev.clock_owned
      /\ dev'.slab = dev.slab \cup {b} /\ dev'.op = dev.op
      /\ dev'.armed = dev.armed /\ dev'.hw_started = dev.hw_started
      /\ dev'.request = dev.request /\ dev'.refs = dev.refs
  BY <1>1, <1>2, <1>3 DEF Dev
<1>5. Owners(dev', h)
  <2>1. Waiting(dev') = Waiting(dev)
    BY <1>4 DEF Waiting
  <2> QED BY <1>1, <1>4, <2>1 DEF Owners
<1>6. Clocked(dev')
  BY <1>1, <1>4 DEF Clocked, Enabled
<1>7. Orderly(dev')
  BY <1>1, <1>4 DEF Orderly
<1>8. IsFiniteSet(h) /\ Cardinality(h) = Cardinality(held) - 1
  BY <1>1, FS_RemoveElement
<1>9. Cardinality(held) > 0
  <2>1. Cardinality(held) \in Nat
    BY <1>1, FS_CardinalityType
  <2>2. Cardinality(held) # 0
    BY <1>1, FS_EmptySet
  <2> QED BY <2>1, <2>2
<1>10. DriverIInv'
  BY <1>1, <1>4, <1>5, <1>6, <1>7, <1>8, Lift DEF Safe
<1>11. FullyStopped(dev)' <=> FullyStopped(dev)
  BY <1>4 DEF FullyStopped, Enabled
<1>12. Contract!Free
  BY <1>1, <1>4, <1>8, <1>9, <1>11 DEF Contract!Free
<1> QED BY <1>10, <1>12 DEF Contract!Next

\* A drained device forgets its fault and its count.
LEMMA ResetStep ==
  ASSUME DriverIInv, Reset
  PROVE  DriverIInv' /\ Contract!Next
<1>1. /\ Thread /\ FullyDrained(dev) /\ held' = held
      /\ dev \in Dev /\ Owners(dev, held) /\ Clocked(dev) /\ Orderly(dev)
  BY DEF DriverIInv, Safe, Reset
<1>2. /\ Contract!Drained /\ ~dev.active /\ FullyStopped(dev)
      /\ dev.op = "idle" /\ dev.armed = << >> /\ dev.dma = {} /\ dev.rx = << >>
      /\ ~dev.stopping /\ ~dev.clock_pending /\ ~dev.clock_owned /\ dev.refs = 0
      /\ ~dev.request
  BY <1>1, DrainedFacts
<1>3. 0 \in 0 .. MaxBlocks
  BY DriverAssumption
<1>4. dev' = [dev EXCEPT !.faulty = FALSE, !.completed = 0]
  BY DEF Reset
<1>5. /\ dev' \in Dev /\ dev'.completed = 0 /\ dev'.faulty = FALSE
      /\ dev'.active = dev.active /\ dev'.stopping = dev.stopping /\ dev'.dma = dev.dma
      /\ dev'.clock_pending = dev.clock_pending /\ dev'.clock_owned = dev.clock_owned
      /\ dev'.slab = dev.slab /\ dev'.rx = dev.rx /\ dev'.op = dev.op
      /\ dev'.armed = dev.armed /\ dev'.hw_started = dev.hw_started
      /\ dev'.configured = dev.configured
      /\ dev'.request = dev.request /\ dev'.refs = dev.refs
  BY <1>1, <1>3, <1>4 DEF Dev
<1>6. Owners(dev', held)
  BY <1>1, <1>5, SameOwners
<1>7. Clocked(dev')
  BY <1>1, <1>5 DEF Clocked, Enabled
<1>8. Orderly(dev')
  BY <1>1, <1>2, <1>5 DEF Orderly
<1>9. DriverIInv'
  BY <1>1, <1>5, <1>6, <1>7, <1>8, Lift DEF DriverIInv, Safe
<1>10. FullyStopped(dev)' <=> FullyStopped(dev)
  BY <1>5 DEF FullyStopped, Enabled
<1>11. Contract!Reset
  BY <1>1, <1>2, <1>5, <1>10 DEF Contract!Reset
<1> QED BY <1>9, <1>11 DEF Contract!Next

-----------------------------------------------------------------------------
(* The specification.                                                      *)

\* The invariant and the contract hold at the beginning.
LEMMA InitSafe == Init => DriverIInv /\ Contract!Init
<1> SUFFICES ASSUME Init PROVE DriverIInv /\ Contract!Init
  OBVIOUS
<1>1. /\ dev.faulty = FALSE /\ dev.completed = 0 /\ dev.configured = FALSE
      /\ dev.slab = Buffer /\ dev.active = FALSE /\ dev.stopping = FALSE
      /\ dev.clock_pending = FALSE /\ dev.clock_owned = FALSE /\ dev.hw_started = FALSE
      /\ dev.dma = {} /\ dev.rx = << >> /\ dev.op = "idle" /\ dev.armed = << >>
      /\ dev.request = FALSE /\ dev.refs = 0 /\ held = {}
  BY DEF Init
<1>2. Len(<< >>) = 0 /\ << >> \in Seq(Block) /\ << >> \in Seq(Buffer)
  OBVIOUS
<1>3. 0 \in 0 .. MaxBlocks /\ 0 \in {0, 1}
  BY DriverAssumption
<1>4. dev \in Dev
  BY <1>2, <1>3 DEF Init, Dev
<1>5. Waiting(dev) = {}
  BY <1>1, <1>2 DEF Waiting
<1>6. Owners(dev, held)
  BY <1>1, <1>2, <1>5 DEF Owners, Distinct
<1>7. Clocked(dev) /\ Orderly(dev)
  BY <1>1, <1>2 DEF Clocked, Orderly, Enabled
<1>8. IsFiniteSet(held) /\ Cardinality(held) = 0
  BY <1>1, FS_EmptySet
<1>9. DriverIInv
  BY <1>4, <1>6, <1>7, <1>8 DEF DriverIInv, Safe
<1>10. Thread /\ FullyDrained(dev)
  BY <1>1 DEF Thread, FullyDrained, FullyStopped, Enabled
<1>11. Contract!Drained
  BY <1>9, <1>10, DrainedFacts
<1>12. Contract!Init
  BY <1>1, <1>11 DEF Contract!Drained, Contract!Init
<1> QED BY <1>9, <1>12

\* Every step keeps the invariant, and is a step of the contract or none.
LEMMA StepSafe ==
  ASSUME DriverIInv, [Next]_vars
  PROVE  DriverIInv' /\ [Contract!Next]_Contract!mic
<1>1. CASE UNCHANGED vars
  <2>1. dev' = dev /\ held' = held
    BY <1>1 DEF vars
  <2>2. DriverIInv'
    BY <2>1, Lift DEF DriverIInv
  <2>3. FullyStopped(dev)' <=> FullyStopped(dev)
    BY <2>1 DEF FullyStopped, Enabled
  <2>4. UNCHANGED Contract!mic
    BY <2>1, <2>3 DEF Contract!mic
  <2> QED BY <2>2, <2>4
<1>2. CASE FirstRequest
  BY <1>2, FirstRequestSafe
<1>3. CASE FirstStarted
  BY <1>3, FirstStartedSafe
<1>4. CASE NextStarted
  BY <1>4, NextStartedSafe
<1>5. CASE Stopped
  BY <1>5, StoppedSafe
<1>6. CASE ClockStarted
  BY <1>6, ClockStartedSafe
<1>7. CASE Overflows
  BY <1>7, OverflowsSafe
<1>8. CASE Configure
  BY <1>8, ConfigureSafe
<1>9. CASE Start
  BY <1>9, StartStep
<1>10. CASE Stop
  BY <1>10, StopStep
<1>11. CASE Read
  BY <1>11, ReadStep
<1>12. CASE \E b \in Buffer : FreeBlock(b)
  BY <1>12, FreeStep
<1>13. CASE Reset
  BY <1>13, ResetStep
<1> QED BY <1>1, <1>2, <1>3, <1>4, <1>5, <1>6, <1>7, <1>8, <1>9, <1>10, <1>11, <1>12, <1>13
        DEF Next, Interrupt

\* The inductive invariant: who owns each block and the clock, and what the
\* phases of a transfer (start, first buffer, run, stop) say of the driver.
THEOREM DriverInductive == Spec => []DriverIInv
<1>1. DriverIInv /\ [Next]_vars => DriverIInv'
  BY StepSafe
<1> QED BY InitSafe, <1>1, PTL DEF Spec

\* Of four owners exactly one holds.
LEMMA OneOfFour ==
  ASSUME NEW p \in BOOLEAN, NEW q \in BOOLEAN, NEW r \in BOOLEAN, NEW s \in BOOLEAN,
         p \/ q \/ r \/ s, ~(p /\ q), ~(p /\ r), ~(p /\ s), ~(q /\ r), ~(q /\ s), ~(r /\ s)
  PROVE  Cardinality({k \in 1 .. 4 : <<p, q, r, s>>[k]}) = 1
<1> DEFINE o == <<p, q, r, s>>
           S == {k \in 1 .. 4 : o[k]}
<1>1. o[1] = p /\ o[2] = q /\ o[3] = r /\ o[4] = s
  OBVIOUS
<1> HIDE DEF o
<1>2. \A k \in 1 .. 4 : k = 1 \/ k = 2 \/ k = 3 \/ k = 4
  OBVIOUS
<1>3. 1 \in 1 .. 4 /\ 2 \in 1 .. 4 /\ 3 \in 1 .. 4 /\ 4 \in 1 .. 4
  OBVIOUS
<1>4. \E k : S = {k}
  <2>1. CASE p
    <3>1. S = {1}
      BY <1>1, <1>2, <1>3, <2>1
    <3> QED BY <3>1
  <2>2. CASE q
    <3>1. S = {2}
      BY <1>1, <1>2, <1>3, <2>2
    <3> QED BY <3>1
  <2>3. CASE r
    <3>1. S = {3}
      BY <1>1, <1>2, <1>3, <2>3
    <3> QED BY <3>1
  <2>4. CASE s
    <3>1. S = {4}
      BY <1>1, <1>2, <1>3, <2>4
    <3> QED BY <3>1
  <2> QED BY <2>1, <2>2, <2>3, <2>4
<1>5. Cardinality(S) = 1
  <2> HIDE DEF S
  <2> QED BY <1>4, FS_Singleton
<1> QED BY <1>5 DEF o

\* A queue without a repetition holds as many blocks as it is long.
LEMMA QueueCount ==
  ASSUME NEW s \in Seq(Block),
         \A i, j \in 1 .. Len(s) : s[i].buffer = s[j].buffer => i = j
  PROVE  Cardinality({s[i].buffer : i \in 1 .. Len(s)}) = Len(s)
<1> DEFINE n == Len(s)
           T == {s[i].buffer : i \in 1 .. n}
           f == [i \in 1 .. n |-> s[i].buffer]
<1>1. n \in Nat
  OBVIOUS
<1> HIDE DEF n
<1>2. f \in [1 .. n -> T] /\ \A t \in T : \E i \in 1 .. n : f[i] = t
  OBVIOUS
<1>3. \A i, j \in 1 .. n : f[i] = f[j] => i = j
  BY DEF n
<1>4. f \in Surjection(1 .. n, T) /\ f \in Injection(1 .. n, T)
  <2> HIDE DEF f, T
  <2>1. DOMAIN f = 1 .. n
    BY <1>2
  <2>2. f \in Surjection(1 .. n, T)
    BY <1>2 DEF Surjection
  <2> QED BY <1>2, <1>3, <2>1, <2>2 DEF Injection, IsInjective
<1>5. IsFiniteSet(1 .. n) /\ Cardinality(1 .. n) = n
  <2>1. /\ IsFiniteSet(1 .. n)
        /\ Cardinality(1 .. n) = IF 1 > n THEN 0 ELSE n - 1 + 1
    BY <1>1, FS_Interval
  <2> QED BY <1>1, <2>1
<1>6. Cardinality(T) = n
  <2> HIDE DEF f, T
  <2> QED BY <1>4, <1>5, FS_Surjection
<1> QED BY <1>6 DEF n

\* The invariant of the runs is part of the inductive one.
LEMMA InvariantShape == DriverIInv => DriverInv
<1> SUFFICES ASSUME DriverIInv PROVE DriverInv
  OBVIOUS
<1>1. /\ dev \in Dev /\ Owners(dev, held) /\ Clocked(dev) /\ dev.rx \in Seq(Block)
      /\ dev.armed \in Seq(Buffer)
  BY DEF DriverIInv, Safe, Dev
<1>2. TypeOK
  BY <1>1 DEF TypeOK, Dev, Block, Owners
<1>3. ClockBalanced
  BY <1>1 DEF ClockBalanced, Clocked
<1>4. DOMAIN dev.rx = 1 .. Len(dev.rx) /\ DOMAIN dev.armed = 1 .. Len(dev.armed)
  BY <1>1
<1>5. ASSUME NEW b \in Buffer
      PROVE  Cardinality({k \in 1 .. 4 :
               <<b \in dev.slab, b \in dev.dma, b \in held,
                 \E i \in DOMAIN dev.rx : dev.rx[i].buffer = b>>[k]}) = 1
  <2> DEFINE p == b \in dev.slab
             q == b \in dev.dma
             r == b \in held
             s == \E i \in DOMAIN dev.rx : dev.rx[i].buffer = b
  <2>1. s <=> b \in Waiting(dev)
    BY <1>4 DEF Waiting
  <2>2. /\ p \/ q \/ r \/ s
        /\ ~(p /\ q) /\ ~(p /\ r) /\ ~(p /\ s) /\ ~(q /\ r) /\ ~(q /\ s) /\ ~(r /\ s)
    BY <1>1, <2>1 DEF Owners
  <2>3. p \in BOOLEAN /\ q \in BOOLEAN /\ r \in BOOLEAN /\ s \in BOOLEAN
    OBVIOUS
  <2> HIDE DEF p, q, r, s
  <2>4. Cardinality({k \in 1 .. 4 : <<p, q, r, s>>[k]}) = 1
    BY <2>2, <2>3, OneOfFour
  <2> QED BY <2>4 DEF p, q, r, s
<1>6. Cardinality({dev.rx[i].buffer : i \in DOMAIN dev.rx}) = Len(dev.rx)
  BY <1>1, <1>4, QueueCount DEF Owners
<1>7. {dev.armed[i] : i \in DOMAIN dev.armed} \subseteq dev.dma
  BY <1>1, <1>4 DEF Owners
<1>8. OneOwner
  BY <1>5, <1>6, <1>7 DEF OneOwner
<1> QED BY <1>2, <1>3, <1>8 DEF DriverInv

\* DriverInv: each block is in the slab, in a DMA slot, in the queue or with
\* the application, and the clock is held while the peripheral or DMA needs it
\* (slab, DMA and clock handling of aura_dmic_nrfx_pdm.c).
THEOREM DriverInvariant == Spec => []DriverInv
BY DriverInductive, InvariantShape, PTL

\* ImplementsDmic: the driver keeps the contract of aura_dmic_health.h through
\* every interrupt, refusal and call.
THEOREM DriverImplementsDmic == Spec => ImplementsDmic
<1>1. DriverIInv /\ [Next]_vars => [Contract!Next]_Contract!mic
  BY StepSafe
<1>2. Init => Contract!Init
  BY InitSafe
<1> QED BY <1>1, <1>2, DriverInductive, PTL DEF Spec, ImplementsDmic, Contract!Spec
===============================================================================
