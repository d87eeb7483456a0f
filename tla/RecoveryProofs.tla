---------------------------- MODULE RecoveryProofs ----------------------------
(***************************************************************************)
(* The recovery worker for every set of sources, chunk and transaction     *)
(* limit, and whatever drops, repeats and faults a pass meets: what is     *)
(* saved is whole and is never given up, what is claimed of it is true,    *)
(* no wake is lost, and the recorder delivers what the phone received.     *)
(***************************************************************************)
EXTENDS Recovery, SequenceTheorems, WellFoundedInduction, TLAPS

-----------------------------------------------------------------------------
(* The inductive invariant. *)

Places == Calls \cup {"idle", "connect", "next", "open", "store", "seal", "import"}

CommandType == [op : Calls \cup {"none"}, txn : Nat, capture : 0 .. Captures,
                handle : Nat, offset : Nat]
ReplyType == [op : Calls \cup {"none"}, txn : Nat, ok : BOOLEAN, handle : Nat,
              version : Versions \cup {0}, offset : Nat, count : Nat]
SelectionType == [capture : 0 .. Captures, handle : Nat, version : Versions \cup {0},
                  next : Nat, seeked : BOOLEAN, finished : BOOLEAN]
EngineType == [on : BOOLEAN, observed : Nat, last : Nat, command : CommandType,
               pending : BOOLEAN, sending : BOOLEAN, cache : ReplyType, handles : Nat,
               selected : SelectionType]
SourceType == [1 .. Captures -> [version : Versions, fault : BOOLEAN]]

RowType == [at : Nat, finished : BOOLEAN]
StatusType == [generation : Nat, phase : Phases, count : 0 .. Captures,
               key : Keys \cup {NoKey}]
LifeType == [foreground : BOOLEAN, closed : BOOLEAN, pending : BOOLEAN, running : BOOLEAN,
             generation : Nat, shown : StatusType]
RunType == [token : Nat, at : Places, goal : {"catalog", "source"},
            call : CommandType, tries : 0 .. 2, next : 1 .. TxnLimit + 1,
            c : 0 .. Captures, count : 0 .. Captures, usable : SUBSET (0 .. Captures),
            handle : Nat, key : Keys \cup {NoKey}, received : Nat, saved : Nat, data : Nat,
            preserved : SUBSET Keys, ready : SUBSET Keys, failed : SUBSET (0 .. Captures),
            pins : [1 .. Captures -> Versions \cup {0}], losses : 0 .. Retries,
            stalled : Nat, last : SUBSET Nat]

Typed ==
  /\ epoch \in Nat /\ catalog \in 1 .. Captures /\ source \in SourceType
  /\ engine \in EngineType /\ slot \in CommandType /\ replies \in Seq(ReplyType)
  /\ rows \in [Keys -> RowType] /\ library \in SUBSET Keys
  /\ life \in LifeType /\ run \in RunType
  /\ link \in {"none", "open", "shut"} /\ kills \in 0 .. MaxKills

Asking == run.call # NoCommand

\* The command that is waited for is the one the worker's place asks for.
Asked ==
  Asking => /\ run.at \in Calls /\ run.next > 1 /\ run.tries > 0
            /\ run.call = [Request EXCEPT !.txn = run.next - 1]

\* How many commands of a connection the catalog took; and which source a place is at.
Placed ==
  /\ run.at \in {"idle", "connect"} => link = "none"
  /\ run.at = "hello" => run.next = IF Asking THEN 2 ELSE 1
  /\ run.at = "list" => /\ run.goal = "catalog" /\ run.c \in 1 .. run.count
                        /\ run.next = run.c + (IF Asking THEN 2 ELSE 1)
  /\ run.at \in {"select", "open", "read", "store", "finish", "seal", "import"} =>
       run.goal = "source"
  /\ run.goal = "source" => run.c \in 1 .. run.count
  /\ run.at = "next" => run.c <= run.count

\* What of the source the phone holds, and how much of it is committed.
Held ==
  /\ run.at # "store" => run.data = 0
  /\ run.at \in {"open", "read", "store", "finish", "seal", "import"} =>
       run.pins[run.c] \in Versions
  /\ run.at \in {"read", "store", "finish", "seal", "import"} =>
       run.key = <<run.c, run.pins[run.c]>>
  /\ run.at \in {"read", "store", "finish", "seal"} =>
       /\ run.received + run.data <= Size(run.key[2])
       /\ rows[run.key].at = Whole(run.key[2], run.received)
  /\ run.at \in {"finish", "seal"} => run.received = Size(run.key[2])
  /\ run.at = "import" => run.key \in run.preserved

Whereabouts(c) == \E v \in Versions : rows[<<c, v>>].finished /\ <<c, v>> \in library

\* The pass is done with this source of the catalog.
Tried(c) == IF run.at = "next" THEN c <= run.c ELSE run.goal = "source" /\ c < run.c

\* What is committed is whole; what the pass counts is true of it, or it failed.
Kept ==
  /\ SavedIsWhole
  /\ \A k \in run.preserved : rows[k].finished /\ run.pins[k[1]] = k[2]
  /\ \A k \in run.ready : rows[k].finished /\ k \in library
  /\ \A c \in 1 .. Captures : Tried(c) => c \in run.failed \/ Whereabouts(c)

\* The worker is at its place only while it runs, and what is shown is true.
Shown == life.running = (run.at # "idle") /\ ClaimsHold

\* What an answer to the command that is waited for may say.
Proper(r) ==
  /\ r.op = run.call.op
  /\ r.op = "hello" => r.count <= Captures
  /\ r.op = "select" /\ r.ok => r.version \in Versions
  /\ r.op = "read" /\ r.ok => /\ run.received + r.count <= Size(run.key[2])
                              /\ (r.count = 0 <=> run.received = Size(run.key[2]))

\* What is on the wire, in either direction.
Wired ==
  /\ slot # NoCommand => slot.txn = run.next - 1 /\ run.next > 1 /\ (Asking => slot = run.call)
  /\ \A i \in 1 .. Len(replies) :
       /\ replies[i].txn \in 1 .. run.next - 1
       /\ Asking /\ replies[i].txn = run.call.txn => Proper(replies[i])

Due(b) == IF b THEN 1 ELSE 0

\* A command is written twice at most, so it is answered twice at most; of the
\* answers to earlier ones no more than the first is left.
Counted ==
  LET held == Len(replies) + Due(slot # NoCommand) + Due(engine.pending)
  IN  IF ~Asking THEN held <= 1
      ELSE /\ \A i \in 2 .. Len(replies) : replies[i].txn = run.call.txn
           /\ held <= run.tries + Due(replies # << >> /\ replies[1].txn # run.call.txn)

AnsweredLast == ~engine.pending /\ engine.last # 0

\* The engine is at the command that is waited for, or at the one before it.
Paced ==
  engine.on =>
    /\ engine.pending => Asking
    /\ \/ engine.last = run.next - 1 /\ (Asking => engine.command = run.call)
       \/ engine.last = run.next - 2 /\ ~engine.pending /\ Asking /\ slot = run.call
    /\ AnsweredLast => /\ engine.cache.txn = engine.last
                       /\ Asking /\ engine.last = run.call.txn => Proper(engine.cache)
    /\ \A i \in 1 .. Len(replies) :
         /\ replies[i].txn <= engine.last
         /\ replies[i].txn = engine.last => ~engine.pending /\ replies[i] = engine.cache

\* What the engine has selected is what the worker asked for.
Chosen ==
  LET s == engine.selected IN
  engine.on =>
    /\ s.handle = 0 => s = NoSelection
    /\ s.handle # 0 => s.capture \in 1 .. Captures /\ s.version \in Versions
    /\ run.at \in {"open", "read", "store", "finish"} /\ s.handle # 0 =>
         s.handle = run.handle /\ s.version = run.pins[run.c] /\ s.capture = run.c
    /\ run.at = "open" => ~s.seeked
    /\ run.at = "select" /\ Asking /\ engine.last = run.call.txn /\ ~engine.pending
         /\ engine.cache.ok =>
         /\ s.handle = engine.cache.handle /\ s.version = engine.cache.version
         /\ s.capture = run.c /\ ~s.seeked

\* A connection that is not open carries nothing, and no session; without one
\* there is no work.
Closed ==
  /\ link # "open" => slot = NoCommand /\ replies = << >> /\ ~engine.on
  /\ ~engine.on => ~engine.pending

Connected == link = "open" => Wired /\ Counted /\ Paced /\ Chosen

PassInv == Asked /\ Placed /\ Held /\ Kept /\ Shown
RecoveryIInv == Typed /\ PassInv /\ Closed /\ Connected /\ Lockstep

-----------------------------------------------------------------------------
(* Boundaries. *)

\* A set of numbers with a bound has a greatest.
LEMMA Greatest ==
  ASSUME NEW S \in SUBSET Nat, S # {}, NEW n \in Nat, \A s \in S : s <= n
  PROVE  \E g \in S : \A f \in S : f <= g
<1> DEFINE T == {k \in Nat : n - k \in S}
<1>1. T \subseteq Nat /\ T # {}
  <2>1. PICK s \in S : TRUE
    OBVIOUS
  <2>2. n - s \in Nat /\ n - (n - s) = s
    BY <2>1
  <2> QED BY <2>1, <2>2
<1> HIDE DEF T
<1>2. PICK x \in T : \A y \in T : ~(<<y, x>> \in OpToRel(<, Nat))
  BY <1>1, NatLessThanWellFounded, WFMin
<1>3. x \in Nat /\ n - x \in S
  BY <1>2 DEF T
<1>4. ASSUME NEW f \in S  PROVE  f <= n - x
  <2>1. f \in Nat /\ f <= n /\ n - f \in Nat /\ n - (n - f) = f
    BY <1>4
  <2>2. n - f \in T
    BY <1>4, <2>1 DEF T
  <2>3. ~(n - f < x)
    BY <1>2, <1>3, <2>1, <2>2 DEF OpToRel
  <2> QED BY <1>3, <2>1, <2>3
<1> QED BY <1>3, <1>4

\* The size of an export is its last boundary.
LEMMA SizeIsLast ==
  ASSUME NEW v \in Versions
  PROVE  /\ Size(v) \in Boundaries[v] /\ Size(v) \in Nat /\ Boundaries[v] \subseteq Nat
         /\ \A b \in Boundaries[v] : b <= Size(v)
<1>1. Boundaries[v] \subseteq Nat /\ \E n \in Boundaries[v] : \A m \in Boundaries[v] : m <= n
  BY TransferAssumption
<1> QED BY <1>1 DEF Size

\* What is whole is the last boundary that was reached.
LEMMA WholeIsLast ==
  ASSUME NEW v \in Versions, NEW n \in Nat
  PROVE  /\ Whole(v, n) \in Boundaries[v] /\ Whole(v, n) \in Nat /\ Whole(v, n) <= n
         /\ \A b \in Boundaries[v] : b <= n => b <= Whole(v, n)
<1> DEFINE S == {b \in Boundaries[v] : b <= n}
<1>1. S \in SUBSET Nat /\ 0 \in S /\ \A s \in S : s <= n
  BY TransferAssumption
<1>2. \E g \in S : \A f \in S : f <= g
  <2> HIDE DEF S
  <2> QED BY <1>1, Greatest
<1>3. \E b \in Boundaries[v] : b <= n /\ \A d \in Boundaries[v] : d <= n => d <= b
  BY <1>2
<1>4. Whole(v, n) \in Boundaries[v] /\ Whole(v, n) <= n
        /\ \A d \in Boundaries[v] : d <= n => d <= Whole(v, n)
  BY <1>3 DEF Whole
<1> QED BY <1>4, SizeIsLast

\* More received is no less whole, and a boundary is whole.
LEMMA WholeGrows ==
  ASSUME NEW v \in Versions, NEW m \in Nat, NEW n \in Nat, m <= n
  PROVE  Whole(v, m) <= Whole(v, n)
<1>1. Whole(v, m) \in Boundaries[v] /\ Whole(v, m) \in Nat /\ Whole(v, m) <= m
  BY WholeIsLast
<1>2. Whole(v, m) <= n
  BY <1>1
<1> QED BY <1>1, <1>2, WholeIsLast

\* A boundary is its own whole-chunk prefix: what is committed there is kept.
LEMMA WholeAtBoundary ==
  ASSUME NEW v \in Versions, NEW b \in Boundaries[v]
  PROVE  Whole(v, b) = b
<1>1. b \in Nat
  BY SizeIsLast
<1> QED BY <1>1, WholeIsLast

-----------------------------------------------------------------------------
(* Connections that end. *)

\* The constants have the types of the fields they are put in.
LEMMA Constants ==
  /\ NoCommand \in CommandType /\ NoReply \in ReplyType /\ NoSelection \in SelectionType
  /\ NoEngine \in EngineType /\ NoStatus \in StatusType /\ NoLife \in LifeType
  /\ NoRun \in RunType
<1>1. Captures \in Nat /\ Captures > 0 /\ Retries \in Nat /\ TxnLimit \in Nat /\ TxnLimit > 0
  BY TransferAssumption, RecoveryAssumption
<1>2. NoCommand \in CommandType /\ NoReply \in ReplyType /\ NoSelection \in SelectionType
  BY <1>1 DEF NoCommand, NoReply, NoSelection, CommandType, ReplyType, SelectionType
<1>3. NoEngine \in EngineType
  BY <1>2 DEF NoEngine, EngineType
<1>4. NoStatus \in StatusType
  BY <1>1 DEF NoStatus, StatusType, Phases
<1>5. NoLife \in LifeType
  BY <1>4 DEF NoLife, LifeType
<1>6. NoRun \in RunType
  BY <1>1, <1>2 DEF NoRun, RunType, Places, Calls
<1> QED BY <1>2, <1>3, <1>4, <1>5, <1>6

\* A session that is over, or begins.
LEMMA Sessions ==
  ASSUME NEW e \in EngineType, epoch \in Nat
  PROVE  /\ SessionEnd(e) \in EngineType /\ SessionBegin(e) \in EngineType
         /\ ~SessionEnd(e).on /\ ~SessionEnd(e).pending
         /\ ~SessionBegin(e).pending /\ SessionBegin(e).last = 0
         /\ SessionBegin(e).selected = NoSelection
BY Constants DEF SessionEnd, SessionBegin, EngineType, NoEngine

\* What a step leaves of a connection that it closes.
Hung == /\ link' # "open" /\ slot' = NoCommand /\ replies' = << >>
        /\ ~engine'.on /\ ~engine'.pending

\* A connection that is hung up satisfies all that is said of connections.
LEMMA HungIsClosed ==
  ASSUME Hung
  PROVE  Closed' /\ Connected' /\ Lockstep'
BY DEF Hung, Closed, Connected, Lockstep

\* The worker hanging up ends the session and loses what was on the wire.
LEMMA DisconnectHangs ==
  ASSUME Typed, Disconnect
  PROVE  /\ Hung /\ link' = "none" /\ engine' \in EngineType
         /\ slot' \in CommandType /\ replies' \in Seq(ReplyType)
BY Sessions, Constants DEF Typed, Disconnect, Hung

\* A connection that is shut is held until the worker finds out.
LEMMA ShutHangs ==
  ASSUME Typed, Closed, Shut
  PROVE  /\ IF link = "open" THEN Hung /\ link' = "shut" ELSE Silence /\ Hung
         /\ engine' \in EngineType /\ slot' \in CommandType /\ replies' \in Seq(ReplyType)
<1>1. CASE link = "open"
  BY <1>1, Sessions, Constants DEF Typed, Shut, Hung
<1>2. CASE link # "open"
  BY <1>2 DEF Typed, Closed, Shut, Silence, Hung
<1> QED BY <1>1, <1>2

-----------------------------------------------------------------------------
(* Steps that leave the worker where it is. *)

\* Where the worker is depends on nothing the other threads change.
LEMMA SamePlace ==
  ASSUME PassInv, UNCHANGED <<run, rows, library>>, link = "none" => link' = "none"
  PROVE  Asked' /\ Placed' /\ Held' /\ Kept'
<1>1. Asked'
  BY DEF PassInv, Asked, Asking, Request
<1>2. Placed'
  BY DEF PassInv, Placed, Asking
<1>3. Held'
  BY DEF PassInv, Held
<1>4. Kept'
  BY DEF PassInv, Kept, SavedIsWhole, Tried, Whereabouts
<1> QED BY <1>1, <1>2, <1>3, <1>4

\* A connection that a step leaves alone is as it was.
LEMMA SameConnection ==
  ASSUME Closed, Connected, Lockstep, UNCHANGED <<engine, slot, replies, link, run>>
  PROVE  Closed' /\ Connected' /\ Lockstep'
<1>1. Closed'
  BY DEF Closed
<1>2. Wired' <=> Wired
  BY DEF Wired, Asking, Proper
<1>3. Counted' <=> Counted
  BY DEF Counted, Asking, Due
<1>4. Paced' <=> Paced
  BY DEF Paced, Asking, AnsweredLast, Proper
<1>5. Chosen' <=> Chosen
  BY DEF Chosen, Asking
<1>6. Lockstep'
  BY DEF Lockstep
<1> QED BY <1>1, <1>2, <1>3, <1>4, <1>5, <1>6 DEF Connected

\* The user's calls change what is shown and may close the connection, no more.
LEMMA LifecycleKeeps ==
  ASSUME RecoveryIInv, Shut \/ Silence, Journal, UNCHANGED <<rows, library, run, kills>>,
         life' \in LifeType, Shown'
  PROVE  RecoveryIInv'
<1>1. Typed /\ PassInv /\ Closed /\ Connected /\ Lockstep
  BY DEF RecoveryIInv
<1>2. CASE Silence
  <2>1. Typed'
    BY <1>1, <1>2 DEF Typed, Silence, Journal
  <2>2. Closed' /\ Connected' /\ Lockstep'
    BY <1>1, <1>2, SameConnection DEF Silence
  <2>3. Asked' /\ Placed' /\ Held' /\ Kept'
    BY <1>1, <1>2, SamePlace DEF Silence
  <2> QED BY <2>1, <2>2, <2>3 DEF RecoveryIInv, PassInv
<1>3. CASE Shut
  <2>1. /\ IF link = "open" THEN Hung /\ link' = "shut" ELSE Silence /\ Hung
        /\ engine' \in EngineType /\ slot' \in CommandType /\ replies' \in Seq(ReplyType)
    BY <1>1, <1>3, ShutHangs
  <2>2. link' \in {"none", "open", "shut"} /\ (link = "none" => link' = "none") /\ Hung
    BY <1>1, <2>1 DEF Typed, Silence
  <2>3. Typed'
    BY <1>1, <2>1, <2>2 DEF Typed, Journal
  <2>4. Closed' /\ Connected' /\ Lockstep'
    BY <2>2, HungIsClosed
  <2>5. Asked' /\ Placed' /\ Held' /\ Kept'
    BY <1>1, <2>2, SamePlace
  <2> QED BY <2>3, <2>4, <2>5 DEF RecoveryIInv, PassInv
<1> QED BY <1>2, <1>3

\* What is shown stays true while it is shown.
LEMMA SameClaims ==
  ASSUME ClaimsHold, life'.shown = life.shown, UNCHANGED <<rows, library>>
  PROVE  ClaimsHold'
<1> DEFINE s == life.shown
<1>1. s.phase = "COMPLETE" => \A c \in 1 .. s.count : \E v \in Versions :
          rows'[<<c, v>>].finished /\ <<c, v>> \in library'
  BY DEF ClaimsHold
<1>2. /\ s.phase \in {"SOURCE_PRESERVED", "READY"} /\ s.key # NoKey => rows'[s.key].finished
      /\ s.phase = "READY" => s.key \in library'
  BY DEF ClaimsHold
<1> QED BY <1>1, <1>2 DEF ClaimsHold

\* The phases that claim nothing of what is saved.
LEMMA NoClaim ==
  ASSUME life'.shown.phase \notin {"COMPLETE", "SOURCE_PRESERVED", "READY"}
  PROVE  ClaimsHold'
BY DEF ClaimsHold

\* The app comes to the foreground, or goes: only what is shown changes.
LEMMA SetForegroundKeeps ==
  ASSUME RecoveryIInv, NEW value \in BOOLEAN, SetForeground(value)
  PROVE  RecoveryIInv'
<1> DEFINE st == Status(life.generation + 1, IF value THEN "SCHEDULED" ELSE "BACKGROUND")
<1>1. life \in LifeType /\ life.running = (run.at # "idle") /\ run' = run
  BY DEF RecoveryIInv, Typed, PassInv, Shown, SetForeground
<1>2. life.generation + 1 \in Nat
  BY <1>1 DEF LifeType
<1>3. st \in StatusType /\ st.phase \in {"SCHEDULED", "BACKGROUND"}
  BY <1>2, Constants DEF Status, NoStatus, StatusType, Phases
<1> HIDE DEF st
<1>4. life' = [life EXCEPT !.foreground = value, !.pending = value,
                           !.generation = life.generation + 1, !.shown = st]
  BY DEF SetForeground, st
<1>5. life' \in LifeType /\ life'.running = life.running /\ life'.shown = st
  BY <1>1, <1>2, <1>3, <1>4 DEF LifeType
<1>6. Shown'
  BY <1>1, <1>3, <1>5, NoClaim DEF Shown
<1> QED BY <1>5, <1>6, LifecycleKeeps DEF SetForeground

\* The user asks again: a wake is left, and nothing is claimed.
LEMMA RetryKeeps ==
  ASSUME RecoveryIInv, Retry
  PROVE  RecoveryIInv'
<1>1. /\ life \in LifeType /\ life.running = (run.at # "idle") /\ ClaimsHold
      /\ UNCHANGED <<run, rows, library>>
  BY DEF RecoveryIInv, Typed, PassInv, Shown, Retry
<1>2. life' = [life EXCEPT !.pending = TRUE,
                 !.shown = [life.shown EXCEPT !.phase = IF life.running THEN @ ELSE "SCHEDULED"]]
  BY <1>1 DEF Retry, LifeType
<1>3. [life.shown EXCEPT !.phase = IF life.running THEN @ ELSE "SCHEDULED"] \in StatusType
  BY <1>1 DEF LifeType, StatusType, Phases
<1>4. life' \in LifeType
  BY <1>1, <1>2, <1>3 DEF LifeType
<1>5. /\ life'.running = life.running
      /\ life'.shown = [life.shown EXCEPT !.phase = IF life.running THEN @ ELSE "SCHEDULED"]
  BY <1>1, <1>2 DEF LifeType
<1>6. life'.shown = life.shown \/ life'.shown.phase = "SCHEDULED"
  BY <1>1, <1>5 DEF LifeType, StatusType
<1>7. ClaimsHold'
  BY <1>1, <1>6, NoClaim DEF ClaimsHold
<1>8. Shown'
  BY <1>1, <1>5, <1>7 DEF Shown
<1> QED BY <1>4, <1>8, LifecycleKeeps DEF Retry

\* The user cancels, or the view model is cleared: nothing saved is touched.
LEMMA StopKeeps ==
  ASSUME RecoveryIInv, NEW permanent \in BOOLEAN, Stop(permanent)
  PROVE  RecoveryIInv'
<1> DEFINE st == Status(life.generation + 1, IF permanent THEN "CLOSED" ELSE "CANCELLED")
<1>1. life \in LifeType /\ life.running = (run.at # "idle") /\ run' = run
  BY DEF RecoveryIInv, Typed, PassInv, Shown, Stop
<1>2. life.generation + 1 \in Nat
  BY <1>1 DEF LifeType
<1>3. st \in StatusType /\ st.phase \in {"CLOSED", "CANCELLED"}
  BY <1>2, Constants DEF Status, NoStatus, StatusType, Phases
<1> HIDE DEF st
<1>4. life' = [life EXCEPT !.closed = permanent, !.pending = FALSE,
                           !.generation = life.generation + 1,
                           !.foreground = @ /\ ~permanent, !.shown = st]
  BY DEF Stop, st
<1>5. life' \in LifeType /\ life'.running = life.running /\ life'.shown = st
  BY <1>1, <1>2, <1>3, <1>4 DEF LifeType
<1>6. Shown'
  BY <1>1, <1>3, <1>5, NoClaim DEF Shown
<1> QED BY <1>5, <1>6, LifecycleKeeps DEF Stop

\* A worker that is idle holds no source.
LEMMA IdleHolds ==
  ASSUME Kept, UNCHANGED <<rows, library>>,
         \/ run' = NoRun
         \/ \E g \in Nat : run' = [NoRun EXCEPT !.token = g, !.at = "connect"],
         link' = "none"
  PROVE  Asked' /\ Placed' /\ Held' /\ Kept'
<1>1. /\ run'.at \in {"idle", "connect"} /\ run'.call = NoCommand /\ run'.goal = "catalog"
      /\ run'.data = 0 /\ run'.preserved = {} /\ run'.ready = {}
  <2>1. CASE run' = NoRun
    BY <2>1 DEF NoRun
  <2>2. ASSUME NEW g \in Nat, run' = [NoRun EXCEPT !.token = g, !.at = "connect"]
        PROVE  /\ run'.at \in {"idle", "connect"} /\ run'.call = NoCommand
               /\ run'.goal = "catalog" /\ run'.data = 0
               /\ run'.preserved = {} /\ run'.ready = {}
    BY <2>2 DEF NoRun
  <2> QED BY <2>1, <2>2
<1>2. Asked' /\ Held'
  BY <1>1 DEF Asked, Asking, Held, Calls
<1>3. Placed'
  BY <1>1 DEF Placed
<1>4. SavedIsWhole' /\ \A c : ~Tried(c)'
  BY <1>1 DEF Kept, SavedIsWhole, Tried
<1>5. Kept'
  BY <1>1, <1>4 DEF Kept
<1> QED BY <1>2, <1>3, <1>5

\* The process dies at any place: the committed rows are all that survives.
LEMMA KillKeeps ==
  ASSUME RecoveryIInv, Kill
  PROVE  RecoveryIInv'
<1>1. Typed /\ Kept /\ run' = NoRun /\ life' = NoLife /\ Disconnect
        /\ UNCHANGED <<rows, library>>
  BY DEF RecoveryIInv, PassInv, Kill
<1>2. /\ Hung /\ link' = "none" /\ engine' \in EngineType
      /\ slot' \in CommandType /\ replies' \in Seq(ReplyType)
  BY <1>1, DisconnectHangs
<1>3. kills' \in 0 .. MaxKills
  BY RecoveryAssumption DEF RecoveryIInv, Typed, Kill
<1>4. Typed'
  BY <1>1, <1>2, <1>3, Constants DEF Typed, Kill, Journal
<1>5. Closed' /\ Connected' /\ Lockstep'
  BY <1>2, HungIsClosed
<1>6. Asked' /\ Placed' /\ Held' /\ Kept'
  BY <1>1, <1>2, IdleHolds
<1>7. Shown'
  BY <1>1, NoClaim DEF Shown, NoLife, NoRun, NoStatus
<1> QED BY <1>4, <1>5, <1>6, <1>7 DEF RecoveryIInv, PassInv

\* A pass starts, and starts with nothing counted.
LEMMA BeginKeeps ==
  ASSUME RecoveryIInv, Begin
  PROVE  RecoveryIInv'
<1> DEFINE g == life.generation + 1
<1>1. /\ Typed /\ Kept /\ ClaimsHold /\ Closed /\ link = "none" /\ link' = "none"
      /\ UNCHANGED <<engine, slot, replies, rows, library, kills>> /\ Journal
      /\ life' = [life EXCEPT !.pending = FALSE, !.running = TRUE, !.generation = g]
      /\ run' = [NoRun EXCEPT !.token = g, !.at = "connect"]
  BY DEF RecoveryIInv, PassInv, Shown, Placed, Begin, Silence
<1>2. life \in LifeType /\ g \in Nat
  BY <1>1 DEF Typed, LifeType
<1> HIDE DEF g
<1>3. life' \in LifeType /\ life'.running = TRUE /\ life'.shown = life.shown
  BY <1>1, <1>2 DEF LifeType
<1>4. run' \in RunType /\ run'.at = "connect"
  BY <1>1, <1>2, Constants DEF NoRun, RunType, Places
<1>5. Typed'
  BY <1>1, <1>3, <1>4 DEF Typed, Journal
<1>6. Closed' /\ Connected' /\ Lockstep'
  BY <1>1 DEF Closed, Connected, Lockstep
<1>7. Asked' /\ Placed' /\ Held' /\ Kept'
  BY <1>1, <1>2, IdleHolds
<1>8. Shown'
  BY <1>1, <1>3, <1>4, SameClaims DEF Shown
<1> QED BY <1>5, <1>6, <1>7, <1>8 DEF RecoveryIInv, PassInv

\* A pass that was taken back hangs up and forgets what it counted.
LEMMA UnwindKeeps ==
  ASSUME RecoveryIInv, Unwind
  PROVE  RecoveryIInv'
<1>1. /\ Typed /\ Kept /\ ClaimsHold /\ run' = NoRun /\ Disconnect
      /\ life' = [life EXCEPT !.running = FALSE] /\ UNCHANGED <<rows, library, kills>>
  BY DEF RecoveryIInv, PassInv, Shown, Unwind
<1>2. /\ Hung /\ link' = "none" /\ engine' \in EngineType
      /\ slot' \in CommandType /\ replies' \in Seq(ReplyType)
  BY <1>1, DisconnectHangs
<1>3. life' \in LifeType /\ life'.running = FALSE /\ life'.shown = life.shown
  BY <1>1 DEF Typed, LifeType
<1>4. Typed'
  BY <1>1, <1>2, <1>3, Constants DEF Typed, Unwind, Journal
<1>5. Closed' /\ Connected' /\ Lockstep'
  BY <1>2, HungIsClosed
<1>6. Asked' /\ Placed' /\ Held' /\ Kept'
  BY <1>1, <1>2, IdleHolds
<1>7. Shown'
  BY <1>1, <1>3, SameClaims DEF Shown, NoRun
<1> QED BY <1>4, <1>5, <1>6, <1>7 DEF RecoveryIInv, PassInv

-----------------------------------------------------------------------------
(* Steps of the worker that end its connection, or begin one. *)

\* What a report shows, if it is still the worker's to show.
LEMMA Reported ==
  ASSUME Typed, NEW r \in RunType, NEW phase \in Phases, Reports(r, phase)
  PROVE  /\ life' \in LifeType /\ life'.running = life.running
         /\ \/ life'.shown = life.shown
            \/ life'.shown = [generation |-> r.token, phase |-> phase,
                              count |-> r.count, key |-> r.key]
<1> DEFINE st == [generation |-> r.token, phase |-> phase, count |-> r.count, key |-> r.key]
<1>1. st \in StatusType
  BY DEF RunType, StatusType
<1> HIDE DEF st
<1>2. life \in LifeType
  BY DEF Typed
<1>3. life' = life \/ life' = [life EXCEPT !.shown = st]
  BY DEF Reports, st
<1>4. life' \in LifeType /\ life'.running = life.running
        /\ (life'.shown = life.shown \/ life'.shown = st)
  BY <1>1, <1>2, <1>3 DEF LifeType
<1> QED BY <1>4 DEF st

\* A report that claims nothing.
LEMMA ReportKeeps ==
  ASSUME RecoveryIInv, NEW r \in RunType,
         NEW phase \in Phases \ {"COMPLETE", "SOURCE_PRESERVED", "READY"},
         Reports(r, phase), UNCHANGED <<rows, library>>, run.at # "idle", run'.at # "idle"
  PROVE  life' \in LifeType /\ Shown'
<1>1. Typed /\ life.running = (run.at # "idle") /\ ClaimsHold
  BY DEF RecoveryIInv, PassInv, Shown
<1>2. /\ life' \in LifeType /\ life'.running = life.running
      /\ \/ life'.shown = life.shown
         \/ life'.shown = [generation |-> r.token, phase |-> phase,
                           count |-> r.count, key |-> r.key]
  BY <1>1, Reported
<1>3. life'.shown = life.shown \/ life'.shown.phase = phase
  BY <1>2
<1>4. ClaimsHold'
  BY <1>1, <1>3, SameClaims, NoClaim
<1> QED BY <1>1, <1>2, <1>4 DEF Shown

\* What is saved is as it was, and no source is passed over that did not fail.
LEMMA SameKept ==
  ASSUME Kept, UNCHANGED <<rows, library>>, run'.preserved = run.preserved,
         run'.ready = run.ready, run'.pins = run.pins, run.failed \subseteq run'.failed,
         \A c \in 1 .. Captures : Tried(c)' => c \in run'.failed \/ Tried(c)
  PROVE  Kept'
<1>1. SavedIsWhole'
  BY DEF Kept, SavedIsWhole
<1>2. \A c : Whereabouts(c)' <=> Whereabouts(c)
  BY DEF Whereabouts
<1>3. \A c \in 1 .. Captures : Tried(c)' => c \in run'.failed \/ Whereabouts(c)'
  BY <1>2 DEF Kept
<1> QED BY <1>1, <1>3 DEF Kept

SourcePlaces == {"select", "open", "read", "store", "finish", "seal", "import"}

\* A failure of the source: it is skipped, and the connection is given up.
LEMMA SourceFailsKeeps ==
  ASSUME RecoveryIInv, SourceFails, run.at \in SourcePlaces, Journal,
         UNCHANGED <<rows, library, kills>>
  PROVE  RecoveryIInv'
<1>1. /\ Typed /\ Kept /\ Placed /\ Disconnect /\ Reports(run, "SOURCE_SKIPPED")
      /\ run \in RunType /\ run.goal = "source" /\ run.c \in 1 .. run.count
  BY DEF RecoveryIInv, Typed, PassInv, Placed, SourceFails, SourcePlaces
<1>2. /\ Hung /\ link' = "none" /\ engine' \in EngineType
      /\ slot' \in CommandType /\ replies' \in Seq(ReplyType)
  BY <1>1, DisconnectHangs
<1> DEFINE s == [run EXCEPT !.failed = @ \cup {run.c}, !.at = "next"]
<1>3. /\ s \in RunType /\ s.at = "next" /\ s.goal = run.goal /\ s.c = run.c
      /\ s.count = run.count /\ s.preserved = run.preserved /\ s.ready = run.ready
      /\ s.pins = run.pins /\ s.failed = run.failed \cup {run.c}
  BY <1>1 DEF RunType, Places
<1>4. run' = [s EXCEPT !.call = NoCommand, !.tries = 0, !.handle = 0, !.data = 0]
  BY DEF SourceFails, Skips
<1> HIDE DEF s
<1>5. run' \in RunType
  <2>1. NoCommand \in CommandType /\ 0 \in Nat /\ 0 \in 0 .. 2
    BY Constants
  <2> QED BY <1>3, <1>4, <2>1 DEF RunType
<1>6. /\ run'.at = "next" /\ run'.goal = "source" /\ run'.c = run.c /\ run'.count = run.count
      /\ run'.preserved = run.preserved /\ run'.ready = run.ready /\ run'.pins = run.pins
      /\ run'.failed = run.failed \cup {run.c} /\ run'.call = NoCommand /\ run'.data = 0
  BY <1>1, <1>3, <1>4 DEF RunType
<1>7. life' \in LifeType /\ Shown'
  BY <1>1, <1>6, ReportKeeps DEF Phases, SourcePlaces
<1>8. Typed'
  BY <1>1, <1>2, <1>5, <1>7 DEF Typed, Journal
<1>9. Closed' /\ Connected' /\ Lockstep'
  BY <1>2, HungIsClosed
<1>10. Asked' /\ Held' /\ Placed'
  <2>1. run.c <= run.count
    BY <1>1 DEF RunType
  <2> QED BY <1>1, <1>6, <2>1 DEF Asked, Asking, Held, Placed
<1>11. Kept'
  <2>1. ASSUME NEW c \in 1 .. Captures, Tried(c)'  PROVE  c \in run'.failed \/ Tried(c)
    <3>1. c <= run.c /\ c \in Nat /\ run.c \in Nat
      BY <1>1, <1>6, <2>1 DEF Tried, RunType
    <3>2. CASE c = run.c
      BY <1>6, <3>2
    <3>3. CASE c < run.c
      BY <1>1, <3>3 DEF Tried, SourcePlaces
    <3> QED BY <3>1, <3>2, <3>3
  <2> QED BY <1>1, <1>6, <2>1, SameKept
<1> QED BY <1>7, <1>8, <1>9, <1>10, <1>11 DEF RecoveryIInv, PassInv

\* A new connection is a new session, with no command sent and none answered.
LEMMA ConnectKeeps ==
  ASSUME RecoveryIInv, Connect
  PROVE  RecoveryIInv'
<1>1. /\ Typed /\ Asked /\ Kept /\ Placed /\ Held /\ Closed /\ run.at = "connect" /\ link' = "open"
      /\ run \in RunType /\ engine' = SessionBegin(engine) /\ Reports(run, "CONNECTING")
      /\ run' = [run EXCEPT !.at = "hello", !.next = 1, !.handle = 0]
      /\ UNCHANGED <<slot, replies, rows, library, kills>> /\ link = "none"
  BY DEF RecoveryIInv, Typed, PassInv, Connect, Stored
<1>2. run' \in RunType
  <2>1. "hello" \in Places /\ 1 \in 1 .. TxnLimit + 1 /\ 0 \in Nat
    BY RecoveryAssumption DEF Places, Calls
  <2> QED BY <1>1, <2>1 DEF RunType
<1>3. /\ run'.at = "hello" /\ run'.next = 1 /\ run'.goal = run.goal /\ run'.c = run.c
      /\ run'.count = run.count /\ run'.preserved = run.preserved /\ run'.ready = run.ready
      /\ run'.pins = run.pins /\ run'.failed = run.failed /\ run'.call = run.call
      /\ run'.data = run.data
  BY <1>1 DEF RunType
<1>4. run.call = NoCommand
  BY <1>1 DEF Asked, Asking, Calls
<1>5. /\ engine' \in EngineType /\ ~engine'.pending /\ engine'.last = 0
      /\ engine'.selected = NoSelection
  BY <1>1, Sessions DEF Typed
<1>6. slot' = NoCommand /\ replies' = << >>
  BY <1>1 DEF Closed
<1>7. life' \in LifeType /\ Shown'
  BY <1>1, <1>3, ReportKeeps DEF Phases
<1>8. Typed'
  BY <1>1, <1>2, <1>5, <1>7 DEF Typed, Connect, Journal
<1>9. Asked' /\ Placed' /\ Held'
  <2>1. Asked' /\ ~Asking'
    BY <1>3, <1>4 DEF Asked, Asking
  <2>2. Placed'
    BY <1>1, <1>3, <2>1 DEF Placed
  <2>3. Held'
    BY <1>1, <1>3 DEF Held
  <2> QED BY <2>1, <2>2, <2>3
<1>10. Kept'
  BY <1>1, <1>3, SameKept DEF Tried
<1>11. Connected'
  <2>1. Wired' /\ Counted'
    BY <1>3, <1>4, <1>5, <1>6 DEF Wired, Counted, Asking, Due
  <2>2. Paced'
    BY <1>3, <1>4, <1>5, <1>6 DEF Paced, Asking, AnsweredLast
  <2>3. Chosen'
    BY <1>3, <1>4, <1>5 DEF Chosen, Asking, NoSelection
  <2> QED BY <2>1, <2>2, <2>3 DEF Connected
<1>12. Lockstep'
  BY <1>5 DEF Lockstep, NoSelection
<1> QED BY <1>1, <1>5, <1>7, <1>8, <1>9, <1>10, <1>11, <1>12 DEF RecoveryIInv, PassInv, Closed

\* A lost connection is hung up: the pass goes on from what is committed, or ends.
LEMMA ConnectionLostKeeps ==
  ASSUME RecoveryIInv, ConnectionLost
  PROVE  RecoveryIInv'
<1>1. /\ Typed /\ Kept /\ Held /\ Placed /\ run \in RunType /\ run.at \in Calls /\ Disconnect
      /\ UNCHANGED <<rows, library, kills>> /\ Journal /\ ClaimsHold
  BY DEF RecoveryIInv, Typed, PassInv, Shown, ConnectionLost, Stored, Ends
<1>2. /\ Hung /\ link' = "none" /\ engine' \in EngineType
      /\ slot' \in CommandType /\ replies' \in Seq(ReplyType)
  BY <1>1, DisconnectHangs
<1>3. Closed' /\ Connected' /\ Lockstep'
  BY <1>2, HungIsClosed
<1>4. CASE run.losses >= Retries
  <2>1. run' = NoRun
    BY <1>4 DEF ConnectionLost, Ends
  <2>2. life' \in LifeType /\ Shown'
    <3> DEFINE st == [generation |-> run.token, phase |-> "ATTENTION",
                      count |-> run.count, key |-> run.key]
    <3>1. life' = [life EXCEPT !.running = FALSE, !.shown = st] /\ life \in LifeType
      BY <1>1, <1>4 DEF ConnectionLost, Ends, Typed
    <3>2. st \in StatusType /\ st.phase = "ATTENTION"
      BY <1>1 DEF RunType, StatusType, Phases
    <3> HIDE DEF st
    <3>3. life' \in LifeType /\ life'.running = FALSE /\ life'.shown = st
      BY <3>1, <3>2 DEF LifeType
    <3> QED BY <2>1, <3>2, <3>3, NoClaim DEF Shown, NoRun
  <2>3. Typed'
    BY <1>1, <1>2, <2>1, <2>2, Constants DEF Typed, Journal
  <2>4. Asked' /\ Placed' /\ Held' /\ Kept'
    BY <1>1, <1>2, <2>1, IdleHolds
  <2> QED BY <1>3, <2>2, <2>3, <2>4 DEF RecoveryIInv, PassInv
<1>5. CASE ~(run.losses >= Retries)
  <2>1. /\ run' = [run EXCEPT !.losses = @ + 1, !.at = "connect", !.goal = "catalog",
             !.call = NoCommand, !.tries = 0, !.handle = 0, !.key = NoKey, !.saved = 0,
             !.received = 0]
        /\ Reports(run, "RETRY_WAIT")
    BY <1>5 DEF ConnectionLost, Lost
  <2>2. run.losses + 1 \in 0 .. Retries
    BY <1>1, <1>5, RecoveryAssumption DEF RunType
  <2>3. run' \in RunType
    <3>1. NoCommand \in CommandType /\ "connect" \in Places /\ NoKey \in Keys \cup {NoKey}
            /\ 0 \in Nat /\ 0 \in 0 .. 2
      BY Constants DEF Places
    <3> QED BY <1>1, <2>1, <2>2, <3>1 DEF RunType
  <2>4. /\ run'.at = "connect" /\ run'.goal = "catalog" /\ run'.call = NoCommand
        /\ run'.data = run.data /\ run'.preserved = run.preserved /\ run'.ready = run.ready
        /\ run'.pins = run.pins /\ run'.failed = run.failed
    BY <1>1, <2>1 DEF RunType
  <2>5. life' \in LifeType /\ Shown'
    BY <1>1, <2>1, <2>4, ReportKeeps DEF Phases, Calls
  <2>6. Typed'
    BY <1>1, <1>2, <2>3, <2>5 DEF Typed, Journal
  <2>7. Asked' /\ Placed' /\ Held'
    <3>1. run.data = 0
      BY <1>1 DEF Held, Calls
    <3> QED BY <1>2, <2>4, <3>1 DEF Asked, Asking, Placed, Held
  <2>8. Kept'
    BY <1>1, <2>4, SameKept DEF Tried
  <2> QED BY <1>3, <2>5, <2>6, <2>7, <2>8 DEF RecoveryIInv, PassInv
<1> QED BY <1>4, <1>5

\* A connection carries HELLO and the catalog, so it is used up at a source.
LEMMA RolloverAtSource ==
  ASSUME RecoveryIInv, run.at \in Calls, ~Asking, run.next > TxnLimit
  PROVE  run.at \in {"select", "read", "finish"}
<1>1. /\ run \in RunType /\ Placed /\ TxnLimit \in Nat /\ Captures \in Nat /\ Captures > 0
      /\ TxnLimit >= 1 + Captures
  BY RecoveryAssumption, TransferAssumption DEF RecoveryIInv, Typed, PassInv
<1>2. run.at # "hello"
  BY <1>1 DEF Placed
<1>3. ASSUME run.at = "list"  PROVE  FALSE
  <2>1. run.next = run.c + 1 /\ run.c <= run.count /\ run.count <= Captures
          /\ run.c \in Nat /\ run.count \in Nat
    BY <1>1, <1>3 DEF Placed, RunType
  <2> QED BY <1>1, <2>1
<1> QED BY <1>2, <1>3 DEF Calls

\* A connection at its transaction limit is hung up before the next command.
LEMMA RolloverKeeps ==
  ASSUME RecoveryIInv, Rollover
  PROVE  RecoveryIInv'
<1>1. /\ Typed /\ Kept /\ Held /\ Placed /\ run \in RunType /\ run.at \in Calls
      /\ UNCHANGED <<rows, library, kills>> /\ Journal /\ run.call = NoCommand /\ Shown
  BY DEF RecoveryIInv, Typed, PassInv, Rollover, Stored
<1>2. run.at \in {"select", "read", "finish"}
  BY RolloverAtSource DEF Rollover, Asking
<1>3. CASE SourceFails
  BY <1>1, <1>2, <1>3, SourceFailsKeeps DEF SourcePlaces
<1>4. CASE ~(Stalls(run) >= 2)
  <2>1. /\ run' = [run EXCEPT !.at = "connect", !.stalled = Stalls(run),
                              !.last = {run.saved}, !.handle = 0]
        /\ Disconnect /\ life' = life
    BY <1>4 DEF Rollover
  <2>2. Stalls(run) \in Nat
    BY <1>1 DEF Stalls, RunType
  <2>3. run' \in RunType
    BY <1>1, <2>1, <2>2 DEF RunType, Places
  <2>4. /\ run'.at = "connect" /\ run'.goal = run.goal /\ run'.c = run.c
        /\ run'.count = run.count /\ run'.preserved = run.preserved /\ run'.ready = run.ready
        /\ run'.pins = run.pins /\ run'.failed = run.failed /\ run'.call = run.call
        /\ run'.data = run.data
    BY <1>1, <2>1 DEF RunType
  <2>5. /\ Hung /\ link' = "none" /\ engine' \in EngineType
        /\ slot' \in CommandType /\ replies' \in Seq(ReplyType)
    BY <1>1, <2>1, DisconnectHangs
  <2>6. Typed'
    BY <1>1, <2>1, <2>3, <2>5 DEF Typed, Journal
  <2>7. Closed' /\ Connected' /\ Lockstep'
    BY <2>5, HungIsClosed
  <2>8. Asked' /\ Placed' /\ Held'
    <3>1. run.data = 0
      BY <1>1, <1>2 DEF Held
    <3> QED BY <1>1, <2>4, <2>5, <3>1 DEF Asked, Asking, Placed, Held
  <2>9. Kept'
    BY <1>1, <1>2, <2>4, SameKept DEF Tried
  <2>10. Shown'
    BY <1>1, <1>2, <2>1, <2>4, SameClaims DEF Shown
  <2> QED BY <2>6, <2>7, <2>8, <2>9, <2>10 DEF RecoveryIInv, PassInv
<1> QED BY <1>3, <1>4 DEF Rollover

\* COMPLETE is shown of a pass in which no source failed.
LEMMA PassDoneKeeps ==
  ASSUME RecoveryIInv, PassDone
  PROVE  RecoveryIInv'
<1>1. /\ Typed /\ Kept /\ run \in RunType /\ run.at = "next" /\ run.c = run.count
      /\ UNCHANGED <<rows, library, kills>> /\ Journal /\ run' = NoRun /\ Disconnect
  BY DEF RecoveryIInv, Typed, PassInv, PassDone, Stored, Ends
<1>2. /\ Hung /\ link' = "none" /\ engine' \in EngineType
      /\ slot' \in CommandType /\ replies' \in Seq(ReplyType)
  BY <1>1, DisconnectHangs
<1> DEFINE phase == IF run.failed = {} THEN "COMPLETE" ELSE "ATTENTION"
           st == [generation |-> run.token, phase |-> phase,
                  count |-> run.count, key |-> run.key]
<1>3. life' = [life EXCEPT !.running = FALSE, !.shown = st] /\ life \in LifeType
  BY <1>1 DEF PassDone, Ends, Typed
<1>4. /\ st \in StatusType /\ st.phase \in {"COMPLETE", "ATTENTION"} /\ st.count = run.count
      /\ st.phase = "COMPLETE" => run.failed = {}
  BY <1>1 DEF RunType, StatusType, Phases
<1> HIDE DEF st, phase
<1>5. life' \in LifeType /\ life'.running = FALSE /\ life'.shown = st
  BY <1>3, <1>4 DEF LifeType
<1>6. ASSUME st.phase = "COMPLETE", NEW c \in 1 .. st.count  PROVE  Whereabouts(c)
  <2>1. c \in 1 .. Captures /\ c <= run.c
    <3>1. run.count \in 0 .. Captures /\ Captures \in Nat /\ c \in 1 .. run.count
      BY <1>1, <1>4, TransferAssumption DEF RunType
    <3> QED BY <1>1, <3>1
  <2>2. c \notin run.failed /\ Tried(c)
    BY <1>1, <1>4, <1>6, <2>1 DEF Tried
  <2> QED BY <1>1, <2>1, <2>2 DEF Kept
<1>7. ClaimsHold'
  <2>1. ASSUME st.phase = "COMPLETE", NEW c \in 1 .. st.count
        PROVE  \E v \in Versions : rows'[<<c, v>>].finished /\ <<c, v>> \in library'
    BY <1>1, <1>6, <2>1 DEF Whereabouts
  <2>2. st.phase \notin {"SOURCE_PRESERVED", "READY"}
    BY <1>4
  <2> QED BY <1>5, <2>1, <2>2 DEF ClaimsHold
<1>8. Shown'
  BY <1>1, <1>5, <1>7 DEF Shown, NoRun
<1>9. Typed'
  BY <1>1, <1>2, <1>5, Constants DEF Typed, Journal
<1>10. Closed' /\ Connected' /\ Lockstep'
  BY <1>2, HungIsClosed
<1>11. Asked' /\ Placed' /\ Held' /\ Kept'
  BY <1>1, <1>2, IdleHolds
<1> QED BY <1>8, <1>9, <1>10, <1>11 DEF RecoveryIInv, PassInv

-----------------------------------------------------------------------------
(* Steps of the worker between two commands. *)

\* While no command is waited for, the wire holds what it held.
LEMMA QuietWire ==
  ASSUME Closed, Connected, UNCHANGED <<engine, slot, replies, link>>,
         run.call = NoCommand, run'.call = NoCommand, run'.next = run.next,
         link = "open" /\ Chosen => Chosen'
  PROVE  Closed' /\ Connected'
<1>1. Closed'
  BY DEF Closed
<1>2. ~Asking /\ ~Asking'
  BY DEF Asking
<1>3. Wired => Wired'
  BY <1>2 DEF Wired
<1>4. Counted => Counted'
  BY <1>2 DEF Counted, Due
<1>5. Paced => Paced'
  BY <1>2 DEF Paced, AnsweredLast
<1> QED BY <1>1, <1>3, <1>4, <1>5 DEF Connected

\* The selection matters to the worker from the open of a source to its FINISH.
LEMMA QuietChoice ==
  ASSUME Chosen, engine' = engine, run'.call = NoCommand, run'.at # "open",
         run'.at \in {"read", "store", "finish"} =>
           /\ run.at \in {"open", "read", "store", "finish"}
           /\ run'.handle = run.handle /\ run'.pins = run.pins /\ run'.c = run.c
  PROVE  Chosen'
<1>1. ~Asking'
  BY DEF Asking
<1> QED BY <1>1 DEF Chosen

\* Unless a READ is waited for, nothing that was delivered is still on its way.
LEMMA OtherDelivery ==
  ASSUME Typed, UNCHANGED <<engine, link>>, run' \in RunType, Lockstep,
         run.call.op # "read", run'.call.op # "read",
         link = "open" /\ engine.on /\ engine.selected.seeked
           /\ engine.selected.handle = run'.handle
           /\ engine.selected.capture = run'.key[1]
           => /\ run'.handle = run.handle /\ run'.key = run.key
              /\ run'.received + run'.data = run.received + run.data
  PROVE  Lockstep'
<1> DEFINE s == engine.selected
<1>1. /\ run.received + run.data \in Nat /\ run'.received + run'.data \in Nat
      /\ s.next \in Nat
  <2>1. s \in SelectionType /\ run \in RunType
    BY DEF Typed, EngineType
  <2>2. s.next \in Nat
    BY <2>1 DEF SelectionType
  <2>3. run.received \in Nat /\ run.data \in Nat /\ run'.received \in Nat /\ run'.data \in Nat
    BY <2>1 DEF RunType
  <2> QED BY <2>2, <2>3
<1>2. link = "open" /\ engine.on /\ s.seeked /\ s.handle = run.handle
        /\ s.capture = run.key[1] => s.next = run.received + run.data
  BY <1>1 DEF Lockstep
<1>3. link' = "open" /\ engine'.on /\ s.seeked /\ s.handle = run'.handle
        /\ s.capture = run'.key[1] => s.next = run'.received + run'.data
  BY <1>1, <1>2
<1>4. run'.received + run'.data + 0 = run'.received + run'.data
  BY <1>1
<1> QED BY <1>3, <1>4 DEF Lockstep

\* So it is between two commands.
LEMMA QuietDelivery ==
  ASSUME Typed, UNCHANGED <<engine, link>>, run' \in RunType, Lockstep,
         run.call = NoCommand, run'.call = NoCommand,
         link = "open" /\ engine.on /\ engine.selected.seeked
           /\ engine.selected.handle = run'.handle
           /\ engine.selected.capture = run'.key[1]
           => /\ run'.handle = run.handle /\ run'.key = run.key
              /\ run'.received + run'.data = run.received + run.data
  PROVE  Lockstep'
<1>1. run.call.op # "read" /\ run'.call.op # "read"
  BY DEF NoCommand
<1> QED BY <1>1, OtherDelivery

\* A selection that is read from is of one of the captures.
LEMMA SeekedIsChosen ==
  ASSUME Typed, Chosen, engine.on, engine.selected.seeked
  PROVE  engine.selected.handle # 0 /\ engine.selected.capture # 0
<1>1. engine.selected # NoSelection
  BY DEF NoSelection
<1> QED BY <1>1, TransferAssumption DEF Chosen

\* Commands are written only at the places that ask.
LEMMA NotAsking ==
  ASSUME RecoveryIInv, run.at \notin Calls
  PROVE  run.call = NoCommand
BY DEF RecoveryIInv, PassInv, Asked, Asking

\* The step from one catalog entry to the next.
LEMMA EntryKeeps ==
  ASSUME RecoveryIInv, run.at = "next", run.c < run.count, NEW at \in {"next", "connect", "select"},
         at = "connect" => link = "none",
         NEW f \in SUBSET (0 .. Captures), run.failed \subseteq f,
         at = "next" => run.c + 1 \in f,
         run' \in RunType, run'.at = at, run'.c = run.c + 1, run'.key = NoKey,
         run'.goal = IF at = "next" THEN run.goal ELSE "source", run'.failed = f,
         run'.call = run.call, run'.next = run.next, run'.count = run.count,
         run'.preserved = run.preserved, run'.ready = run.ready, run'.pins = run.pins,
         run'.data = run.data,
         UNCHANGED <<engine, slot, replies, link, rows, library, kills>>, Journal,
         life' \in LifeType, Shown'
  PROVE  RecoveryIInv'
<1>1. /\ Typed /\ Kept /\ Placed /\ Held /\ Closed /\ Connected /\ Lockstep /\ run \in RunType
      /\ run.call = NoCommand
  BY NotAsking DEF RecoveryIInv, Typed, PassInv, Calls
<1>2. Typed'
  BY <1>1 DEF Typed, Journal
<1>3. run.c \in Nat /\ run.count \in Nat /\ run.c + 1 \in 1 .. run.count /\ run.data = 0
  BY <1>1 DEF RunType, Held
<1>4. Asked' /\ ~Asking'
  BY <1>1 DEF Asked, Asking
<1>5. Placed'
  <2>1. run'.c \in 1 .. run'.count /\ run'.c <= run'.count
    BY <1>3
  <2> QED BY <1>4, <2>1 DEF Placed
<1>6. Held'
  BY <1>3 DEF Held
<1>7. Kept'
  <2>1. ASSUME NEW c \in 1 .. Captures, Tried(c)'  PROVE  c \in run'.failed \/ Tried(c)
    <3>1. c \in Nat /\ c <= run.c + 1 /\ (c = run.c + 1 => c \in run'.failed)
      BY <1>3, <2>1 DEF Tried
    <3>2. c <= run.c => Tried(c)
      BY DEF Tried
    <3> QED BY <1>3, <3>1, <3>2
  <2> QED BY <1>1, <2>1, SameKept
<1>8. Chosen => Chosen'
  BY <1>1, QuietChoice
<1>9. Closed' /\ Connected'
  BY <1>1, <1>8, QuietWire
<1>10. Lockstep'
  <2>1. ~(link = "open" /\ engine.on /\ engine.selected.seeked /\ engine.selected.capture = 0)
    BY <1>1, SeekedIsChosen DEF Connected
  <2>2. run'.key[1] = 0
    BY DEF NoKey
  <2> QED BY <1>1, <2>1, <2>2, QuietDelivery
<1> QED BY <1>2, <1>4, <1>5, <1>6, <1>7, <1>9, <1>10 DEF RecoveryIInv, PassInv

\* What the worker knows of a source before it opens it.
LEMMA Entered ==
  ASSUME RecoveryIInv, run.at = "next", run.c < run.count
  PROVE  /\ Entry \in RunType /\ Entry.c = run.c + 1 /\ Entry.key = NoKey
         /\ Entry.at = run.at /\ Entry.goal = run.goal /\ Entry.failed = run.failed
         /\ Entry.call = run.call /\ Entry.next = run.next /\ Entry.count = run.count
         /\ Entry.preserved = run.preserved /\ Entry.ready = run.ready
         /\ Entry.pins = run.pins /\ Entry.data = run.data
<1>1. run \in RunType
  BY DEF RecoveryIInv, Typed
<1>2. run.c + 1 \in 0 .. Captures
  BY <1>1, TransferAssumption DEF RunType
<1>3. NoKey \in Keys \cup {NoKey} /\ 0 \in Nat /\ {} \in SUBSET Nat
  OBVIOUS
<1>4. Entry \in RunType
  BY <1>1, <1>2, <1>3 DEF Entry, RunType
<1> QED BY <1>1, <1>4 DEF Entry, RunType

\* A source that the catalog did not describe counts as failed.
LEMMA SkipUnusableKeeps ==
  ASSUME RecoveryIInv, SkipUnusable
  PROVE  RecoveryIInv'
<1>1. /\ run.at = "next" /\ run.c < run.count /\ run \in RunType
      /\ run' = [Entry EXCEPT !.failed = @ \cup {run.c + 1}, !.at = "next"]
      /\ Reports(Entry, "SOURCE_SKIPPED")
      /\ UNCHANGED <<engine, slot, replies, link, rows, library, kills>> /\ Journal
  BY DEF RecoveryIInv, Typed, SkipUnusable, Skips, Silence, Stored
<1>2. /\ Entry \in RunType /\ Entry.c = run.c + 1 /\ Entry.key = NoKey
      /\ Entry.at = run.at /\ Entry.goal = run.goal /\ Entry.failed = run.failed
      /\ Entry.call = run.call /\ Entry.next = run.next /\ Entry.count = run.count
      /\ Entry.preserved = run.preserved /\ Entry.ready = run.ready
      /\ Entry.pins = run.pins /\ Entry.data = run.data
  BY <1>1, Entered
<1>3. run.failed \cup {run.c + 1} \in SUBSET (0 .. Captures)
  BY <1>2 DEF RunType
<1>4. run' \in RunType
  BY <1>1, <1>2, <1>3 DEF RunType, Places
<1>5. /\ run'.at = "next" /\ run'.c = run.c + 1 /\ run'.key = NoKey /\ run'.goal = run.goal
      /\ run'.failed = run.failed \cup {run.c + 1}
      /\ run'.call = run.call /\ run'.next = run.next /\ run'.count = run.count
      /\ run'.preserved = run.preserved /\ run'.ready = run.ready
      /\ run'.pins = run.pins /\ run'.data = run.data
  BY <1>1, <1>2 DEF RunType
<1>6. life' \in LifeType /\ Shown'
  BY <1>1, <1>2, <1>5, ReportKeeps DEF Phases
<1> QED BY <1>1, <1>3, <1>4, <1>5, <1>6, EntryKeeps

\* The next source of the catalog is asked for.
LEMMA NextSourceKeeps ==
  ASSUME RecoveryIInv, NextSource
  PROVE  RecoveryIInv'
<1> DEFINE at == IF link = "none" THEN "connect" ELSE "select"
<1>1. /\ run.at = "next" /\ run.c < run.count /\ run \in RunType
      /\ run' = [Entry EXCEPT !.goal = "source", !.at = at]
      /\ UNCHANGED <<engine, slot, replies, link, rows, library, life, kills>> /\ Journal
      /\ Typed /\ Shown
  BY DEF RecoveryIInv, Typed, PassInv, NextSource, Silence, Stored
<1>2. /\ Entry \in RunType /\ Entry.c = run.c + 1 /\ Entry.key = NoKey
      /\ Entry.at = run.at /\ Entry.goal = run.goal /\ Entry.failed = run.failed
      /\ Entry.call = run.call /\ Entry.next = run.next /\ Entry.count = run.count
      /\ Entry.preserved = run.preserved /\ Entry.ready = run.ready
      /\ Entry.pins = run.pins /\ Entry.data = run.data
  BY <1>1, Entered
<1>3. at \in {"connect", "select"} /\ at \in Places /\ (at = "connect" => link = "none")
  BY DEF Places, Calls
<1> HIDE DEF at
<1>4. run' \in RunType
  BY <1>1, <1>2, <1>3 DEF RunType
<1>5. /\ run'.at = at /\ run'.c = run.c + 1 /\ run'.key = NoKey /\ run'.goal = "source"
      /\ run'.failed = run.failed
      /\ run'.call = run.call /\ run'.next = run.next /\ run'.count = run.count
      /\ run'.preserved = run.preserved /\ run'.ready = run.ready
      /\ run'.pins = run.pins /\ run'.data = run.data
  BY <1>1, <1>2 DEF RunType
<1>6. life' \in LifeType /\ Shown'
  <2>1. run'.at # "idle"
    BY <1>3, <1>5
  <2> QED BY <1>1, <2>1, SameClaims DEF Shown, Typed
<1>7. run.failed \in SUBSET (0 .. Captures) /\ at # "next"
  BY <1>1, <1>3 DEF RunType
<1> QED BY <1>1, <1>3, <1>4, <1>5, <1>6, <1>7, EntryKeeps

-----------------------------------------------------------------------------
(* One source: what is saved of it. *)

\* The source that is worked on, and its size.
LEMMA AtSource ==
  ASSUME RecoveryIInv, run.at \in SourcePlaces
  PROVE  /\ run.goal = "source" /\ run.c \in 1 .. run.count /\ run.c \in 1 .. Captures
         /\ run.at \notin {"select", "open"} =>
              /\ run.key \in Keys /\ run.key[1] = run.c /\ run.key[2] = run.pins[run.c]
              /\ run.key[2] \in Versions /\ run.key # NoKey
<1>1. run \in RunType /\ Placed /\ Held
  BY DEF RecoveryIInv, Typed, PassInv
<1>2. run.goal = "source" /\ run.c \in 1 .. run.count /\ run.c \in 1 .. Captures
  <2>1. run.goal = "source" /\ run.c \in 1 .. run.count
    BY <1>1 DEF Placed, SourcePlaces
  <2>2. run.count \in 0 .. Captures /\ Captures \in Nat
    BY <1>1, TransferAssumption DEF RunType
  <2> QED BY <2>1, <2>2
<1>3. ASSUME run.at \notin {"select", "open"}
      PROVE  /\ run.key \in Keys /\ run.key[1] = run.c /\ run.key[2] = run.pins[run.c]
             /\ run.key[2] \in Versions /\ run.key # NoKey
  <2>1. run.key = <<run.c, run.pins[run.c]>> /\ run.pins[run.c] \in Versions
    BY <1>1, <1>3 DEF Held, SourcePlaces
  <2>2. run.c # 0
    BY <1>2, TransferAssumption
  <2> QED BY <1>2, <2>1, <2>2 DEF Keys, NoKey
<1> QED BY <1>2, <1>3

\* The source is done with: it failed before, or is saved and in the library.
LEMMA SourceDone ==
  ASSUME RecoveryIInv, run.at \in SourcePlaces, run'.at = "next", run'.goal = run.goal,
         run'.c = run.c, run'.count = run.count, run'.call = NoCommand, run'.data = 0,
         run'.failed = run.failed \ {run.c}, run'.pins = run.pins,
         Whereabouts(run.c)', \A c : Whereabouts(c) => Whereabouts(c)',
         SavedIsWhole', \A k \in run'.preserved : rows'[k].finished /\ run.pins[k[1]] = k[2],
         \A k \in run'.ready : rows'[k].finished /\ k \in library'
  PROVE  Asked' /\ Placed' /\ Held' /\ Kept'
<1>1. run \in RunType /\ Kept /\ run.goal = "source" /\ run.c \in 1 .. run.count
  BY AtSource DEF RecoveryIInv, Typed, PassInv
<1>2. run.c \in Nat /\ run.count \in Nat /\ run.c <= run.count
  BY <1>1 DEF RunType
<1>3. Asked' /\ Placed' /\ Held'
  BY <1>1, <1>2 DEF Asked, Asking, Placed, Held
<1>4. ASSUME NEW c \in 1 .. Captures, Tried(c)'  PROVE  c \in run'.failed \/ Whereabouts(c)'
  <2>1. CASE c = run.c
    BY <2>1
  <2>2. CASE c # run.c
    <3>1. c < run.c
      BY <1>2, <1>4, <2>2 DEF Tried
    <3>2. Tried(c)
      BY <1>1, <3>1 DEF Tried, SourcePlaces
    <3> QED BY <1>1, <2>2, <3>2 DEF Kept
  <2> QED BY <2>1, <2>2
<1>5. Kept'
  BY <1>4 DEF Kept
<1> QED BY <1>3, <1>5

\* A reopened source: imported already, or to be read on from what is committed.
LEMMA OpenKeeps ==
  ASSUME RecoveryIInv, Open
  PROVE  RecoveryIInv'
<1> DEFINE k == <<run.c, run.pins[run.c]>>
           r == [run EXCEPT !.key = k, !.saved = rows[k].at, !.received = rows[k].at]
<1>1. /\ Typed /\ Kept /\ Held /\ Closed /\ Connected /\ Lockstep /\ Shown /\ run \in RunType
      /\ run.at = "open" /\ run.call = NoCommand
      /\ UNCHANGED <<rows, library, kills>> /\ Journal
  BY NotAsking DEF RecoveryIInv, Typed, PassInv, Open, Stored, Calls
<1>2. run.goal = "source" /\ run.c \in 1 .. run.count /\ run.c \in 1 .. Captures
  BY <1>1, AtSource DEF SourcePlaces
<1>3. k \in Keys /\ k[1] = run.c /\ k[2] = run.pins[run.c] /\ k[2] \in Versions
  BY <1>1, <1>2 DEF Held, Keys
<1>4. rows[k].at \in Nat /\ rows[k].at \in Boundaries[k[2]]
  BY <1>1, <1>3 DEF Typed, RowType, Kept, SavedIsWhole
<1> HIDE DEF k
<1>5. /\ r \in RunType /\ r.at = "open" /\ r.goal = run.goal /\ r.c = run.c /\ r.count = run.count
      /\ r.call = run.call /\ r.next = run.next /\ r.data = run.data /\ r.key = k
      /\ r.received = rows[k].at /\ r.handle = run.handle /\ r.pins = run.pins
      /\ r.preserved = run.preserved /\ r.ready = run.ready /\ r.failed = run.failed
  BY <1>1, <1>3, <1>4 DEF RunType
<1> HIDE DEF r
<1>6. ~(link = "open" /\ engine.on /\ engine.selected.seeked)
  BY <1>1 DEF Connected, Chosen
<1>7. run.data = 0
  BY <1>1 DEF Held
<1>8. CASE /\ k \in run.ready /\ run' = [r EXCEPT !.failed = @ \ {run.c}, !.at = "next"]
           /\ UNCHANGED life /\ Silence
  <2>1. run' \in RunType
    BY <1>5, <1>8 DEF RunType, Places
  <2>2. /\ run'.at = "next" /\ run'.goal = run.goal /\ run'.c = run.c /\ run'.count = run.count
        /\ run'.call = NoCommand /\ run'.next = run.next /\ run'.data = 0
        /\ run'.failed = run.failed \ {run.c} /\ run'.pins = run.pins
        /\ run'.preserved = run.preserved /\ run'.ready = run.ready
    BY <1>1, <1>5, <1>7, <1>8 DEF RunType
  <2>3. Typed'
    BY <1>1, <1>8, <2>1 DEF Typed, Silence, Journal
  <2>4. Asked' /\ Placed' /\ Held' /\ Kept'
    <3>1. SavedIsWhole'
      BY <1>1 DEF Kept, SavedIsWhole
    <3>2. \A c : Whereabouts(c)' <=> Whereabouts(c)
      BY <1>1 DEF Whereabouts
    <3>3. Whereabouts(run.c)
      <4>1. rows[k].finished /\ k \in library
        BY <1>1, <1>8 DEF Kept
      <4>2. k = <<run.c, k[2]>>
        BY DEF k
      <4> QED BY <1>3, <4>1, <4>2 DEF Whereabouts
    <3>4. \A j \in run'.preserved : rows'[j].finished /\ run.pins[j[1]] = j[2]
      BY <1>1, <2>2 DEF Kept
    <3>5. \A j \in run'.ready : rows'[j].finished /\ j \in library'
      BY <1>1, <2>2 DEF Kept
    <3>6. run.at \in SourcePlaces
      BY <1>1 DEF SourcePlaces
    <3>7. Whereabouts(run.c)'
      BY <2>2, <3>2, <3>3
    <3> QED BY <2>2, <3>1, <3>2, <3>4, <3>5, <3>6, <3>7, SourceDone
  <2>5. Shown'
    BY <1>1, <1>8, <2>2, SameClaims DEF Shown
  <2>6. Chosen => Chosen'
    BY <1>8, <2>2, QuietChoice DEF Silence
  <2>7. Closed' /\ Connected'
    BY <1>1, <1>8, <2>2, <2>6, QuietWire DEF Silence
  <2>8. Lockstep'
    BY <1>6, <1>8 DEF Lockstep, Silence
  <2> QED BY <2>3, <2>4, <2>5, <2>7, <2>8 DEF RecoveryIInv, PassInv
<1>9. CASE /\ run' = [r EXCEPT !.at = "read"] /\ Reports(r, "DOWNLOADING") /\ Silence
  <2>1. run' \in RunType
    BY <1>5, <1>9 DEF RunType, Places, Calls
  <2>2. /\ run'.at = "read" /\ run'.goal = run.goal /\ run'.c = run.c /\ run'.count = run.count
        /\ run'.call = NoCommand /\ run'.next = run.next /\ run'.data = 0 /\ run'.key = k
        /\ run'.received = rows[k].at /\ run'.handle = run.handle
        /\ run'.failed = run.failed /\ run'.pins = run.pins
        /\ run'.preserved = run.preserved /\ run'.ready = run.ready
    BY <1>1, <1>5, <1>7, <1>9 DEF RunType
  <2>3. life' \in LifeType /\ Shown'
    BY <1>1, <1>5, <1>9, <2>2, ReportKeeps DEF Phases
  <2>4. Typed'
    BY <1>1, <1>9, <2>1, <2>3 DEF Typed, Silence, Journal
  <2>5. Asked' /\ Placed'
    BY <1>2, <2>2 DEF Asked, Asking, Placed
  <2>6. Held'
    <3>1. rows[k].at + 0 <= Size(k[2]) /\ rows[k].at = Whole(k[2], rows[k].at)
      BY <1>3, <1>4, SizeIsLast, WholeAtBoundary
    <3>2. k = <<run'.c, run'.pins[run'.c]>> /\ run'.pins[run'.c] \in Versions
      BY <1>3, <2>2 DEF k
    <3> QED BY <1>1, <2>2, <3>1, <3>2 DEF Held
  <2>7. Kept'
    BY <1>1, <2>2, SameKept DEF Tried
  <2>8. Chosen => Chosen'
    BY <1>1, <1>9, <2>2, QuietChoice DEF Silence
  <2>9. Closed' /\ Connected'
    BY <1>1, <1>9, <2>2, <2>8, QuietWire DEF Silence
  <2>10. Lockstep'
    BY <1>6, <1>9 DEF Lockstep, Silence
  <2> QED BY <2>3, <2>4, <2>5, <2>6, <2>7, <2>9, <2>10 DEF RecoveryIInv, PassInv
<1>10. CASE SourceFails
  BY <1>1, <1>10, SourceFailsKeeps DEF SourcePlaces
<1> QED BY <1>8, <1>9, <1>10 DEF Open, Resumes, k, r

\* What is shown stays true as more is saved.
LEMMA ClaimsGrow ==
  ASSUME Typed, ClaimsHold, life'.shown = life.shown, library \subseteq library',
         \A k \in Keys : rows[k].finished => rows'[k].finished
  PROVE  ClaimsHold'
<1>1. life.shown \in StatusType /\ Captures \in Nat
  BY TransferAssumption DEF Typed, LifeType
<1>2. \A c \in 1 .. life.shown.count : \A v \in Versions : <<c, v>> \in Keys
  <2>1. life.shown.count \in 0 .. Captures
    BY <1>1 DEF StatusType
  <2> QED BY <1>1, <2>1 DEF Keys
<1>3. life.shown.key # NoKey => life.shown.key \in Keys
  BY <1>1 DEF StatusType
<1> QED BY <1>2, <1>3 DEF ClaimsHold

\* A source whose every byte is committed has nothing left to store.
LEMMA StoreMoves ==
  ASSUME RecoveryIInv, run.at = "store"
  PROVE  LET n == run.received + run.data
             w == Whole(run.key[2], n)
         IN  /\ n \in Nat /\ n <= Size(run.key[2]) /\ w \in Boundaries[run.key[2]] /\ w \in Nat
             /\ w >= rows[run.key].at
             /\ rows[run.key].at = Size(run.key[2]) => w = Size(run.key[2])
<1>1. run \in RunType /\ Held
  BY DEF RecoveryIInv, Typed, PassInv
<1>2. run.key[2] \in Versions
  BY AtSource DEF SourcePlaces
<1> DEFINE v == run.key[2]
           n == run.received + run.data
           w == Whole(v, n)
<1>3. /\ run.received \in Nat /\ n \in Nat /\ run.received <= n /\ n <= Size(v)
      /\ rows[run.key].at = Whole(v, run.received)
  BY <1>1 DEF RunType, Held
<1> HIDE DEF n
<1>4. w \in Boundaries[v] /\ w \in Nat /\ w >= rows[run.key].at
  <2>1. w \in Boundaries[v] /\ w \in Nat
    BY <1>2, <1>3, WholeIsLast
  <2>2. Whole(v, run.received) <= w /\ Whole(v, run.received) \in Nat
    BY <1>2, <1>3, WholeGrows, WholeIsLast
  <2> QED BY <1>3, <2>1, <2>2
<1>5. w <= Size(v) /\ Size(v) \in Nat
  BY <1>2, <1>4, SizeIsLast
<1> QED BY <1>3, <1>4, <1>5 DEF n

\* What was received is committed up to the last whole chunk of it.
LEMMA AppendKeeps ==
  ASSUME RecoveryIInv, Append_
  PROVE  RecoveryIInv'
<1> DEFINE n == run.received + run.data
           w == Whole(run.key[2], n)
           r == [run EXCEPT !.received = n, !.saved = w, !.data = 0, !.at = "read"]
<1>1. /\ Typed /\ Kept /\ Held /\ Closed /\ Connected /\ Lockstep /\ Shown /\ run \in RunType
      /\ run.at = "store" /\ run.call = NoCommand
      /\ UNCHANGED <<library, kills>> /\ Journal
  BY NotAsking DEF RecoveryIInv, Typed, PassInv, Append_, Calls
<1>2. /\ run.goal = "source" /\ run.c \in 1 .. run.count /\ run.key \in Keys
      /\ run.key[2] \in Versions
  BY <1>1, AtSource DEF SourcePlaces
<1>3. /\ n \in Nat /\ n <= Size(run.key[2]) /\ w \in Boundaries[run.key[2]] /\ w \in Nat
      /\ w >= rows[run.key].at /\ (rows[run.key].at = Size(run.key[2]) => w = Size(run.key[2]))
  BY <1>1, StoreMoves
<1>4. CASE SourceFails /\ UNCHANGED rows
  BY <1>1, <1>4, SourceFailsKeeps DEF SourcePlaces
<1>5. CASE /\ rows' = [rows EXCEPT ![run.key].at = r.saved]
           /\ run' = r /\ Reports(r, "DOWNLOADING") /\ Silence
  <2> HIDE DEF n, w
  <2>1. r \in RunType /\ r.saved = w
    BY <1>1, <1>3 DEF RunType, Places, Calls
  <2>2. /\ run'.at = "read" /\ run'.goal = run.goal /\ run'.c = run.c /\ run'.count = run.count
        /\ run'.call = NoCommand /\ run'.next = run.next /\ run'.data = 0
        /\ run'.key = run.key /\ run'.received = n /\ run'.handle = run.handle
        /\ run'.failed = run.failed /\ run'.pins = run.pins
        /\ run'.preserved = run.preserved /\ run'.ready = run.ready
    BY <1>1, <1>5 DEF RunType
  <2>3. rows' = [rows EXCEPT ![run.key] = [rows[run.key] EXCEPT !.at = w]]
    BY <1>1, <1>2, <1>5, <2>1 DEF Typed, RowType
  <2>4. [rows[run.key] EXCEPT !.at = w] \in RowType
    BY <1>1, <1>2, <1>3 DEF Typed, RowType
  <2>5. /\ rows' \in [Keys -> RowType] /\ rows'[run.key].at = w
        /\ rows'[run.key].finished = rows[run.key].finished
        /\ \A j \in Keys : j # run.key => rows'[j] = rows[j]
    <3>1. rows' \in [Keys -> RowType] /\ rows'[run.key] = [rows[run.key] EXCEPT !.at = w]
            /\ \A j \in Keys : j # run.key => rows'[j] = rows[j]
      BY <1>1, <1>2, <2>3, <2>4 DEF Typed
    <3>2. rows[run.key] \in RowType
      BY <1>1, <1>2 DEF Typed
    <3> QED BY <3>1, <3>2 DEF RowType
  <2>6. \A j \in Keys : rows'[j].finished = rows[j].finished
    BY <2>5
  <2>7. life' \in LifeType /\ Shown'
    <3>1. /\ life' \in LifeType /\ life'.running = life.running
          /\ \/ life'.shown = life.shown
             \/ life'.shown = [generation |-> r.token, phase |-> "DOWNLOADING",
                               count |-> r.count, key |-> r.key]
      BY <1>1, <1>5, <2>1, Reported DEF Phases
    <3>2. life'.shown = life.shown \/ life'.shown.phase = "DOWNLOADING"
      BY <3>1
    <3>3. ClaimsHold'
      BY <1>1, <2>6, <3>2, ClaimsGrow, NoClaim DEF Shown
    <3> QED BY <1>1, <2>2, <3>1, <3>3 DEF Shown
  <2>8. Typed'
    BY <1>1, <1>5, <2>1, <2>5, <2>7 DEF Typed, Silence, Journal
  <2>9. Asked' /\ Placed'
    BY <1>2, <2>2 DEF Asked, Asking, Placed
  <2>10. Held'
    <3>1. n + 0 = n
      BY <1>3
    <3>2. run.key = <<run.c, run.pins[run.c]>> /\ run.pins[run.c] \in Versions
      BY <1>1 DEF Held
    <3> QED BY <1>3, <2>2, <2>5, <3>1, <3>2 DEF Held, w
  <2>11. Kept'
    <3>1. SavedIsWhole'
      <4>1. ASSUME NEW j \in Keys
            PROVE  rows'[j].at \in Boundaries[j[2]] /\ (rows'[j].finished => rows'[j].at = Size(j[2]))
        <5>1. CASE j = run.key
          BY <1>1, <1>3, <2>5, <5>1 DEF Kept, SavedIsWhole
        <5>2. CASE j # run.key
          BY <1>1, <2>5, <5>2 DEF Kept, SavedIsWhole
        <5> QED BY <5>1, <5>2
      <4> QED BY <4>1 DEF SavedIsWhole
    <3>2. run.preserved \subseteq Keys /\ run.ready \subseteq Keys
      BY <1>1 DEF RunType
    <3>3. \A c \in 1 .. Captures : Whereabouts(c) => Whereabouts(c)'
      BY <1>1, <2>6 DEF Whereabouts, Keys
    <3>4. \A c : Tried(c)' => Tried(c)
      BY <1>1, <2>2 DEF Tried
    <3> QED BY <1>1, <2>2, <2>6, <3>1, <3>2, <3>3, <3>4 DEF Kept
  <2>12. Chosen => Chosen'
    BY <1>1, <1>5, <2>2, QuietChoice DEF Silence
  <2>13. Closed' /\ Connected'
    BY <1>1, <1>5, <2>2, <2>12, QuietWire DEF Silence
  <2>14. Lockstep'
    <3>1. run'.received + run'.data = run.received + run.data
      BY <1>3, <2>2 DEF n
    <3> QED BY <1>1, <1>5, <2>1, <2>2, <3>1, QuietDelivery DEF Silence
  <2> QED BY <2>7, <2>8, <2>9, <2>10, <2>11, <2>13, <2>14 DEF RecoveryIInv, PassInv
<1> QED BY <1>4, <1>5 DEF Append_

\* Completion is committed: then the source counts as preserved.
LEMMA SealKeeps ==
  ASSUME RecoveryIInv, Seal
  PROVE  RecoveryIInv'
<1> DEFINE r == [run EXCEPT !.preserved = @ \cup {run.key}, !.at = "import"]
<1>1. /\ Typed /\ Kept /\ Held /\ Closed /\ Connected /\ Lockstep /\ Shown /\ run \in RunType
      /\ run.at = "seal" /\ run.call = NoCommand
      /\ UNCHANGED <<library, kills>> /\ Journal
  BY NotAsking DEF RecoveryIInv, Typed, PassInv, Seal, Calls
<1>2. /\ run.goal = "source" /\ run.c \in 1 .. run.count /\ run.key \in Keys
      /\ run.key[1] = run.c /\ run.key[2] = run.pins[run.c] /\ run.key[2] \in Versions
  BY <1>1, AtSource DEF SourcePlaces
<1>3. rows[run.key].at = Size(run.key[2])
  <2>1. Size(run.key[2]) \in Boundaries[run.key[2]]
    BY <1>2, SizeIsLast
  <2> QED BY <1>1, <1>2, <2>1, WholeAtBoundary DEF Held
<1>4. CASE SourceFails /\ UNCHANGED rows
  BY <1>1, <1>4, SourceFailsKeeps DEF SourcePlaces
<1>5. CASE /\ rows' = Completes(run.key)
           /\ run' = r /\ Reports(r, "SOURCE_PRESERVED") /\ Silence
  <2>1. r \in RunType
    BY <1>1, <1>2 DEF RunType, Places
  <2>2. /\ run'.at = "import" /\ run'.goal = run.goal /\ run'.c = run.c /\ run'.count = run.count
        /\ run'.call = NoCommand /\ run'.next = run.next /\ run'.data = run.data
        /\ run'.received = run.received /\ run'.key = run.key /\ run'.handle = run.handle
        /\ run'.failed = run.failed /\ run'.pins = run.pins
        /\ run'.preserved = run.preserved \cup {run.key} /\ run'.ready = run.ready
    BY <1>1, <1>5 DEF RunType
  <2>3. rows' = [rows EXCEPT ![run.key] = [rows[run.key] EXCEPT !.finished = TRUE]]
    BY <1>1, <1>2, <1>5 DEF Typed, RowType, Completes
  <2>4. [rows[run.key] EXCEPT !.finished = TRUE] \in RowType
    BY <1>1, <1>2 DEF Typed, RowType
  <2>5. /\ rows' \in [Keys -> RowType] /\ rows'[run.key].at = rows[run.key].at
        /\ rows'[run.key].finished /\ \A j \in Keys : j # run.key => rows'[j] = rows[j]
    <3>1. rows' \in [Keys -> RowType]
            /\ rows'[run.key] = [rows[run.key] EXCEPT !.finished = TRUE]
            /\ \A j \in Keys : j # run.key => rows'[j] = rows[j]
      BY <1>1, <1>2, <2>3, <2>4 DEF Typed
    <3>2. rows[run.key] \in RowType
      BY <1>1, <1>2 DEF Typed
    <3> QED BY <3>1, <3>2 DEF RowType
  <2>6. \A j \in Keys : rows[j].finished => rows'[j].finished
    BY <2>5
  <2>7. life' \in LifeType /\ Shown'
    <3>1. /\ life' \in LifeType /\ life'.running = life.running
          /\ \/ life'.shown = life.shown
             \/ life'.shown = [generation |-> r.token, phase |-> "SOURCE_PRESERVED",
                               count |-> r.count, key |-> r.key]
      BY <1>1, <1>5, <2>1, Reported DEF Phases
    <3>2. \/ life'.shown = life.shown
          \/ life'.shown.phase = "SOURCE_PRESERVED" /\ life'.shown.key = run.key
      BY <1>5, <2>2, <3>1
    <3>3. ClaimsHold'
      BY <1>1, <1>2, <2>5, <2>6, <3>2, ClaimsGrow DEF Shown, ClaimsHold
    <3> QED BY <1>1, <2>2, <3>1, <3>3 DEF Shown
  <2>8. Typed'
    BY <1>1, <1>5, <2>1, <2>5, <2>7 DEF Typed, Silence, Journal
  <2>9. Asked' /\ Placed'
    BY <1>2, <2>2 DEF Asked, Asking, Placed
  <2>10. Held'
    <3>1. run.key = <<run.c, run.pins[run.c]>> /\ run.pins[run.c] \in Versions /\ run.data = 0
      BY <1>1 DEF Held
    <3> QED BY <2>2, <3>1 DEF Held
  <2>11. Kept'
    <3>1. SavedIsWhole'
      <4>1. ASSUME NEW j \in Keys
            PROVE  rows'[j].at \in Boundaries[j[2]] /\ (rows'[j].finished => rows'[j].at = Size(j[2]))
        <5>1. CASE j = run.key
          BY <1>1, <1>3, <2>5, <5>1 DEF Kept, SavedIsWhole
        <5>2. CASE j # run.key
          BY <1>1, <2>5, <5>2 DEF Kept, SavedIsWhole
        <5> QED BY <5>1, <5>2
      <4> QED BY <4>1 DEF SavedIsWhole
    <3>2. run.preserved \subseteq Keys /\ run.ready \subseteq Keys
      BY <1>1 DEF RunType
    <3>3. \A c \in 1 .. Captures : Whereabouts(c) => Whereabouts(c)'
      BY <1>1, <2>6 DEF Whereabouts, Keys
    <3>4. \A c : Tried(c)' => Tried(c)
      BY <1>1, <2>2 DEF Tried
    <3>5. \A j \in run'.preserved : rows'[j].finished /\ run'.pins[j[1]] = j[2]
      BY <1>1, <1>2, <2>2, <2>5, <2>6, <3>2 DEF Kept
    <3>6. \A j \in run'.ready : rows'[j].finished /\ j \in library'
      BY <1>1, <2>2, <2>6, <3>2 DEF Kept
    <3>7. \A c \in 1 .. Captures : Tried(c)' => c \in run'.failed \/ Whereabouts(c)'
      BY <1>1, <2>2, <3>3, <3>4 DEF Kept
    <3> QED BY <3>1, <3>5, <3>6, <3>7 DEF Kept
  <2>12. Chosen => Chosen'
    BY <1>1, <1>5, <2>2, QuietChoice DEF Silence
  <2>13. Closed' /\ Connected'
    BY <1>1, <1>5, <2>2, <2>12, QuietWire DEF Silence
  <2>14. Lockstep'
    BY <1>1, <1>5, <2>1, <2>2, QuietDelivery DEF Silence
  <2> QED BY <2>7, <2>8, <2>9, <2>10, <2>11, <2>13, <2>14 DEF RecoveryIInv, PassInv
<1> QED BY <1>4, <1>5 DEF Seal

\* The capture is in the library; a source that plays is not fetched again.
LEMMA ImportKeeps ==
  ASSUME RecoveryIInv, Import
  PROVE  RecoveryIInv'
<1> DEFINE plays == run.key[2] \notin Silent
           phase == IF plays THEN "READY" ELSE "SOURCE_PRESERVED"
           r == [run EXCEPT !.failed = @ \ {run.c}, !.at = "next",
                            !.ready = IF plays THEN @ \cup {run.key} ELSE @]
<1>1. /\ Typed /\ Kept /\ Held /\ Closed /\ Connected /\ Lockstep /\ Shown /\ run \in RunType
      /\ run.at = "import" /\ run.call = NoCommand
      /\ UNCHANGED <<rows, kills>> /\ Journal
  BY NotAsking DEF RecoveryIInv, Typed, PassInv, Import, Calls
<1>2. /\ run.goal = "source" /\ run.c \in 1 .. run.count /\ run.key \in Keys
      /\ run.key[1] = run.c /\ run.key[2] = run.pins[run.c] /\ run.key[2] \in Versions
  BY <1>1, AtSource DEF SourcePlaces
<1>3. run.key \in run.preserved /\ rows[run.key].finished /\ run.data = 0
        /\ run.key = <<run.c, run.pins[run.c]>>
  BY <1>1 DEF Held, Kept
<1>4. CASE SourceFails /\ UNCHANGED library
  BY <1>1, <1>4, SourceFailsKeeps DEF SourcePlaces
<1>5. CASE /\ library' = library \cup {run.key}
           /\ run' = r /\ Reports(r, phase) /\ Silence
  <2>1. r \in RunType
    <3>1. (IF plays THEN run.ready \cup {run.key} ELSE run.ready) \in SUBSET Keys
      BY <1>1, <1>2 DEF RunType
    <3> HIDE DEF plays
    <3> QED BY <1>1, <3>1 DEF RunType, Places
  <2>2. /\ run'.at = "next" /\ run'.goal = run.goal /\ run'.c = run.c /\ run'.count = run.count
        /\ run'.call = NoCommand /\ run'.next = run.next /\ run'.data = run.data
        /\ run'.received = run.received /\ run'.key = run.key /\ run'.handle = run.handle
        /\ run'.failed = run.failed \ {run.c} /\ run'.pins = run.pins
        /\ run'.preserved = run.preserved /\ run'.ready \subseteq run.ready \cup {run.key}
    <3> HIDE DEF plays
    <3> QED BY <1>1, <1>5 DEF RunType
  <2>3. life' \in LifeType /\ Shown'
    <3>1. phase \in Phases
      BY DEF Phases
    <3>2. /\ life' \in LifeType /\ life'.running = life.running
          /\ \/ life'.shown = life.shown
             \/ life'.shown = [generation |-> r.token, phase |-> phase,
                               count |-> r.count, key |-> r.key]
      <4> HIDE DEF r, phase
      <4> QED BY <1>1, <1>5, <2>1, <3>1, Reported
    <3>3. \/ life'.shown = life.shown
          \/ life'.shown.phase \in {"READY", "SOURCE_PRESERVED"} /\ life'.shown.key = run.key
      BY <1>5, <2>2, <3>2
    <3>4. ClaimsHold'
      BY <1>1, <1>2, <1>3, <1>5, <3>3, ClaimsGrow DEF Shown, ClaimsHold
    <3> QED BY <1>1, <2>2, <3>2, <3>4 DEF Shown
  <2>4. Typed'
    <3>1. library' \in SUBSET Keys
      BY <1>1, <1>2, <1>5 DEF Typed
    <3> QED BY <1>1, <1>5, <2>1, <2>3, <3>1 DEF Typed, Silence, Journal
  <2>5. Asked' /\ Placed' /\ Held' /\ Kept'
    <3>1. SavedIsWhole'
      BY <1>1 DEF Kept, SavedIsWhole
    <3>2. \A c : Whereabouts(c) => Whereabouts(c)'
      BY <1>1, <1>5 DEF Whereabouts
    <3>3. Whereabouts(run.c)'
      BY <1>1, <1>2, <1>3, <1>5, <2>2 DEF Whereabouts
    <3>4. \A j \in run'.preserved : rows'[j].finished /\ run.pins[j[1]] = j[2]
      BY <1>1, <2>2 DEF Kept
    <3>5. \A j \in run'.ready : rows'[j].finished /\ j \in library'
      BY <1>1, <1>3, <1>5, <2>2 DEF Kept
    <3>6. run.at \in SourcePlaces /\ run'.data = 0
      BY <1>1, <1>3, <2>2 DEF SourcePlaces
    <3> QED BY <2>2, <3>1, <3>2, <3>3, <3>4, <3>5, <3>6, SourceDone
  <2>6. Chosen => Chosen'
    BY <1>1, <1>5, <2>2, QuietChoice DEF Silence
  <2>7. Closed' /\ Connected'
    BY <1>1, <1>5, <2>2, <2>6, QuietWire DEF Silence
  <2>8. Lockstep'
    BY <1>1, <1>5, <2>1, <2>2, QuietDelivery DEF Silence
  <2> QED BY <2>3, <2>4, <2>5, <2>7, <2>8 DEF RecoveryIInv, PassInv
<1> QED BY <1>4, <1>5 DEF Import

-----------------------------------------------------------------------------
(* Commands on their way, and answers on theirs. *)

\* The command a place asks for.
LEMMA Requested ==
  ASSUME Typed, Held, run.at \in Calls
  PROVE  /\ Request \in CommandType /\ Request.op = run.at /\ Request.txn = run.next
         /\ Request # NoCommand
<1>1. run \in RunType
  BY DEF Typed
<1>2. /\ run.next \in Nat /\ run.c \in 0 .. Captures /\ 0 \in 0 .. Captures
      /\ run.handle \in Nat /\ run.received \in Nat
  BY <1>1, RecoveryAssumption, TransferAssumption DEF RunType
<1>3. ASSUME run.at = "finish"  PROVE  Size(run.key[2]) \in Nat
  <2>1. run.key[2] \in Versions
    BY <1>3 DEF Held
  <2> QED BY <2>1, SizeIsLast
<1>4. Request \in CommandType
  BY <1>2, <1>3 DEF Request, CommandType
<1> QED BY <1>4 DEF Request, NoCommand, Calls

\* What is waited for, field by field.
LEMMA AskedFor ==
  ASSUME RecoveryIInv, Asking
  PROVE  /\ run.at \in Calls /\ run.call.op = run.at /\ run.call.txn = run.next - 1
         /\ run.next \in Nat /\ run.next > 1 /\ run.tries \in 1 .. 2
         /\ run.call.txn \in Nat /\ run.call.txn > 0 /\ run.call.capture = Request.capture
         /\ run.call.handle = Request.handle /\ run.call.offset = Request.offset
<1>1. /\ run \in RunType /\ run.at \in Calls /\ run.next > 1 /\ run.tries > 0
      /\ run.call = [Request EXCEPT !.txn = run.next - 1] /\ TxnLimit \in Nat
  BY RecoveryAssumption DEF RecoveryIInv, Typed, PassInv, Asked
<1>2. run.next \in Nat /\ run.tries \in 1 .. 2
  BY <1>1 DEF RunType
<1>3. /\ run.call.op = run.at /\ run.call.txn = run.next - 1
      /\ run.call.capture = Request.capture
      /\ run.call.handle = Request.handle /\ run.call.offset = Request.offset
  BY <1>1 DEF Request
<1> QED BY <1>1, <1>2, <1>3

\* The command the phone waits for depends on its place alone.
LEMMA SameRequest ==
  ASSUME run'.at = run.at, run'.c = run.c, run'.handle = run.handle,
         run'.received = run.received, run'.key = run.key
  PROVE  [Request' EXCEPT !.txn = run'.next - 1] = [Request EXCEPT !.txn = run'.next - 1]
BY DEF Request

\* Writing a command changes nothing of the worker's place.
LEMMA WritingKeeps ==
  ASSUME RecoveryIInv, run.at \in Calls, run' \in RunType, run'.at = run.at, run'.c = run.c,
         run'.handle = run.handle, run'.received = run.received, run'.key = run.key,
         run'.goal = run.goal, run'.count = run.count, run'.data = run.data,
         run'.pins = run.pins, run'.preserved = run.preserved, run'.ready = run.ready,
         run'.failed = run.failed, Asking', run'.next = run.next + Due(~Asking),
         run'.tries > 0, run'.call = [Request EXCEPT !.txn = run'.next - 1],
         UNCHANGED <<rows, library, life>>
  PROVE  Asked' /\ Placed' /\ Held' /\ Kept' /\ Shown'
<1>1. Typed /\ Placed /\ Held /\ Kept /\ Shown /\ run \in RunType /\ run.next \in Nat
        /\ run.c \in Nat
  <2>1. Typed /\ Placed /\ Held /\ Kept /\ Shown /\ run \in RunType
    BY DEF RecoveryIInv, Typed, PassInv
  <2>2. run.next \in Nat /\ run.c \in Nat
    BY <2>1, RecoveryAssumption, TransferAssumption DEF RunType
  <2> QED BY <2>1, <2>2
<1>2. run.next + Due(~Asking) > 1
  <2>1. CASE Asking
    BY <1>1, <2>1, AskedFor DEF Due
  <2>2. CASE ~Asking
    <3>1. run.next > 0
      BY <1>1, RecoveryAssumption DEF RunType
    <3> QED BY <1>1, <2>2, <3>1 DEF Due
  <2> QED BY <2>1, <2>2
<1>3. Asked'
  BY <1>2, SameRequest DEF Asked
<1>4. Placed'
  <2>1. run.at = "hello" => run'.next = 2
    BY <1>1 DEF Placed, Due
  <2>2. run.at = "list" => run'.next = run.c + 2
    BY <1>1 DEF Placed, Due
  <2> QED BY <1>1, <2>1, <2>2 DEF Placed, Calls
<1>5. Held'
  BY <1>1 DEF Held
<1>6. Kept'
  BY <1>1, SameKept DEF Tried
<1>7. Shown'
  BY <1>1, SameClaims DEF Shown
<1> QED BY <1>3, <1>4, <1>5, <1>6, <1>7

\* The types of a step on the wire.
LEMMA WireTyped ==
  ASSUME Typed, run' \in RunType, engine' \in EngineType, slot' \in CommandType,
         replies' \in Seq(ReplyType), link' \in {"none", "open", "shut"}, life' \in LifeType,
         UNCHANGED <<rows, library, kills>>, Journal
  PROVE  Typed'
BY DEF Typed, Journal

\* The worker writes the command of its place, under the next transaction.
LEMMA ExchangeKeeps ==
  ASSUME RecoveryIInv, Exchange
  PROVE  RecoveryIInv'
<1>1. /\ Typed /\ Held /\ Closed /\ Connected /\ Lockstep /\ run \in RunType
      /\ run.at \in Calls /\ run.call = NoCommand /\ link = "open" /\ run.next <= TxnLimit
      /\ run' = [run EXCEPT !.call = Request, !.tries = 1, !.next = run.next + 1]
      /\ UNCHANGED <<rows, library, life, kills>> /\ Journal /\ Writes(Request)
  BY DEF RecoveryIInv, Typed, PassInv, Exchange, Stored
<1>2. /\ Request \in CommandType /\ Request.op = run.at /\ Request.txn = run.next
      /\ Request # NoCommand
  BY <1>1, Requested
<1>3. run.next \in Nat /\ run.next > 0 /\ run.next + 1 \in 1 .. TxnLimit + 1
  BY <1>1, RecoveryAssumption DEF RunType
<1>4. run' \in RunType
  <2>1. 1 \in 0 .. 2
    OBVIOUS
  <2> QED BY <1>1, <1>2, <1>3, <2>1 DEF RunType
<1>5. /\ run'.at = run.at /\ run'.c = run.c /\ run'.call = Request /\ run'.tries = 1
      /\ run'.next = run.next + 1
      /\ run'.handle = run.handle /\ run'.received = run.received /\ run'.key = run.key
      /\ run'.goal = run.goal /\ run'.count = run.count /\ run'.data = run.data
      /\ run'.pins = run.pins /\ run'.preserved = run.preserved /\ run'.ready = run.ready
      /\ run'.failed = run.failed
  BY <1>1 DEF RunType
<1>6. ~Asking /\ Asking'
  BY <1>1, <1>2, <1>5 DEF Asking
<1>7. Asked' /\ Placed' /\ Held' /\ Kept' /\ Shown'
  <2>1. Request = [Request EXCEPT !.txn = run'.next - 1]
    <3>1. run'.next - 1 = run.next
      BY <1>3, <1>5
    <3> QED BY <3>1 DEF Request
  <2>2. run'.next = run.next + Due(~Asking) /\ run'.tries > 0
    BY <1>5, <1>6 DEF Due
  <2> QED BY <1>1, <1>4, <1>5, <1>6, <2>1, <2>2, WritingKeeps
<1>8. CASE Shut
  <2>1. /\ Hung /\ link' = "shut" /\ engine' \in EngineType /\ slot' \in CommandType
        /\ replies' \in Seq(ReplyType)
    BY <1>1, <1>8, ShutHangs
  <2>2. Typed'
    BY <1>1, <1>4, <2>1, WireTyped DEF Typed
  <2> QED BY <1>7, <2>1, <2>2, HungIsClosed DEF RecoveryIInv, PassInv
<1>9. CASE slot \in {NoCommand, Request} /\ slot' = Request /\ UNCHANGED <<engine, replies, link>>
  <2>1. Typed'
    BY <1>1, <1>2, <1>4, <1>9, WireTyped DEF Typed
  <2>2. Wired /\ Counted /\ Paced /\ Chosen
    BY <1>1 DEF Connected
  <2>3. slot = NoCommand
    BY <1>2, <1>3, <1>9, <2>2 DEF Wired
  <2>4. Closed'
    BY <1>1, <1>9 DEF Closed
  <2>5. \A i \in 1 .. Len(replies) : replies[i].txn \in 1 .. run.next - 1
    BY <2>2 DEF Wired
  <2>6. Wired'
    <3>1. ASSUME NEW i \in 1 .. Len(replies)
          PROVE  replies[i].txn \in 1 .. run'.next - 1 /\ replies[i].txn # run'.call.txn
      BY <1>2, <1>3, <1>5, <2>5
    <3>2. slot'.txn = run'.next - 1 /\ run'.next > 1 /\ slot' = run'.call
      BY <1>2, <1>3, <1>5, <1>9
    <3> QED BY <1>9, <3>1, <3>2 DEF Wired
  <2>7. Len(replies) \in Nat /\ (replies # << >> <=> Len(replies) # 0)
    BY <1>1, EmptySeq DEF Typed
  <2>8. ~engine.pending
    BY <1>1, <1>6, <2>2 DEF Paced, Closed
  <2>9. Counted'
    <3>1. Len(replies) <= 1
      BY <1>6, <2>2, <2>3, <2>7, <2>8 DEF Counted, Due
    <3>2. \A i \in 2 .. Len(replies) : FALSE
      BY <2>7, <3>1
    <3>3. replies # << >> => replies[1].txn # run'.call.txn
      BY <1>2, <1>3, <1>5, <2>5, <2>7
    <3>4. Len(replies) + 1 + 0 <= 1 + Due(replies # << >> /\ replies[1].txn # run'.call.txn)
      BY <2>7, <3>1, <3>3 DEF Due
    <3>5. Due(slot' # NoCommand) = 1 /\ Due(engine'.pending) = 0
      BY <1>2, <1>9, <2>8 DEF Due
    <3> QED BY <1>5, <1>6, <1>9, <3>2, <3>4, <3>5 DEF Counted
  <2>10. Paced'
    <3>1. ASSUME engine.on
          PROVE  engine.last = run'.next - 2 /\ engine.last = run.next - 1
      BY <1>3, <1>5, <1>6, <2>2, <3>1 DEF Paced
    <3>2. engine.on => engine.last # run'.call.txn
      BY <1>2, <1>3, <1>5, <3>1
    <3> QED BY <1>5, <1>6, <1>9, <2>2, <2>8, <3>1, <3>2 DEF Paced, AnsweredLast
  <2>11. engine.on => engine.last # run'.call.txn
    BY <1>2, <1>3, <1>5, <1>6, <2>2 DEF Paced
  <2>12. Chosen'
    BY <1>5, <1>9, <2>2, <2>11 DEF Chosen, Calls
  <2>13. Lockstep'
    <3>1. run.call.op # "read"
      BY <1>1 DEF NoCommand
    <3> QED BY <1>1, <1>5, <1>9, <2>11, <3>1 DEF Lockstep
  <2> QED BY <1>7, <1>9, <2>1, <2>4, <2>6, <2>9, <2>10, <2>12, <2>13
          DEF RecoveryIInv, PassInv, Connected
<1> QED BY <1>1, <1>8, <1>9 DEF Writes

\* The same command once more joins what was written.
LEMMA ResendKeeps ==
  ASSUME RecoveryIInv, Resend
  PROVE  RecoveryIInv'
<1>1. /\ Typed /\ Held /\ Closed /\ Connected /\ Lockstep /\ run \in RunType /\ Asked
      /\ Asking /\ link = "open" /\ run.tries = 1
      /\ run' = [run EXCEPT !.tries = 2]
      /\ UNCHANGED <<rows, library, life, kills>> /\ Journal /\ Writes(run.call)
  BY DEF RecoveryIInv, Typed, PassInv, Resend, Stored, Asking
<1>2. /\ run.at \in Calls /\ run.call.txn = run.next - 1 /\ run.next \in Nat /\ run.next > 1
      /\ run.call \in CommandType
  BY <1>1, AskedFor DEF RunType
<1>3. run' \in RunType
  <2>1. 2 \in 0 .. 2
    OBVIOUS
  <2> QED BY <1>1, <2>1 DEF RunType
<1>4. /\ run'.at = run.at /\ run'.c = run.c /\ run'.call = run.call /\ run'.tries = 2
      /\ run'.next = run.next
      /\ run'.handle = run.handle /\ run'.received = run.received /\ run'.key = run.key
      /\ run'.goal = run.goal /\ run'.count = run.count /\ run'.data = run.data
      /\ run'.pins = run.pins /\ run'.preserved = run.preserved /\ run'.ready = run.ready
      /\ run'.failed = run.failed
  BY <1>1 DEF RunType
<1>5. Asking'
  BY <1>1, <1>4 DEF Asking
<1>6. Asked' /\ Placed' /\ Held' /\ Kept' /\ Shown'
  <2>1. run.call = [Request EXCEPT !.txn = run'.next - 1]
    BY <1>1, <1>4 DEF Asked
  <2>2. run'.next = run.next + Due(~Asking) /\ run'.tries > 0
    BY <1>1, <1>2, <1>4 DEF Due
  <2> QED BY <1>1, <1>2, <1>3, <1>4, <1>5, <2>1, <2>2, WritingKeeps
<1>7. CASE Shut
  <2>1. /\ Hung /\ link' = "shut" /\ engine' \in EngineType /\ slot' \in CommandType
        /\ replies' \in Seq(ReplyType)
    BY <1>1, <1>7, ShutHangs
  <2>2. Typed'
    BY <1>1, <1>3, <2>1, WireTyped DEF Typed
  <2> QED BY <1>6, <2>1, <2>2, HungIsClosed DEF RecoveryIInv, PassInv
<1>8. CASE slot \in {NoCommand, run.call} /\ slot' = run.call /\ UNCHANGED <<engine, replies, link>>
  <2>1. Typed'
    BY <1>1, <1>2, <1>3, <1>8, WireTyped DEF Typed
  <2>2. Wired /\ Counted /\ Paced /\ Chosen
    BY <1>1 DEF Connected
  <2>3. Closed'
    BY <1>1, <1>8 DEF Closed
  <2>4. \A r : Proper(r)' <=> Proper(r)
    BY <1>4 DEF Proper
  <2>5. Wired'
    BY <1>1, <1>2, <1>4, <1>5, <1>8, <2>2, <2>4 DEF Wired
  <2>6. Counted'
    <3> DEFINE len == Len(replies)
               stray == Due(replies # << >> /\ replies[1].txn # run.call.txn)
               p == Due(engine.pending)
    <3>1. len \in Nat /\ stray \in Nat /\ p \in Nat
      BY <1>1 DEF Typed, Due
    <3>2. len + Due(slot # NoCommand) + p <= 1 + stray /\ Due(slot # NoCommand) \in {0, 1}
      BY <1>1, <2>2 DEF Counted, Due
    <3>3. len + 1 + p <= 2 + stray
      <4> HIDE DEF len, stray, p
      <4> QED BY <3>1, <3>2
    <3>4. Due(slot' # NoCommand) = 1
      BY <1>1, <1>8 DEF Due, Asking
    <3>5. \A i \in 2 .. len : replies[i].txn = run.call.txn
      BY <1>1, <2>2 DEF Counted
    <3> QED BY <1>4, <1>5, <1>8, <3>3, <3>4, <3>5 DEF Counted
  <2>7. Paced'
    BY <1>1, <1>4, <1>5, <1>8, <2>2, <2>4 DEF Paced, AnsweredLast
  <2>8. Chosen'
    BY <1>1, <1>4, <1>5, <1>8, <2>2 DEF Chosen
  <2>9. Lockstep'
    BY <1>1, <1>4, <1>8 DEF Lockstep
  <2> QED BY <1>6, <1>8, <2>1, <2>3, <2>5, <2>6, <2>7, <2>8, <2>9
          DEF RecoveryIInv, PassInv, Connected
<1> QED BY <1>1, <1>7, <1>8 DEF Writes

\* The rest of a row of answers.
LEMMA TailOf ==
  ASSUME NEW T, NEW s \in Seq(T), s # << >>
  PROVE  /\ Tail(s) \in Seq(T) /\ Len(s) \in Nat /\ Len(s) >= 1
         /\ Len(Tail(s)) = Len(s) - 1
         /\ \A i \in 1 .. Len(Tail(s)) : Tail(s)[i] = s[i + 1] /\ i + 1 \in 1 .. Len(s)
         /\ Head(s) = s[1] /\ 1 \in 1 .. Len(s) /\ s[1] \in T
<1>1. Tail(s) \in Seq(T) /\ Len(s) \in Nat /\ Len(s) # 0 /\ Len(Tail(s)) = Len(s) - 1
        /\ \A i \in 1 .. Len(Tail(s)) : Tail(s)[i] = s[i + 1]
  BY HeadTailProperties, EmptySeq
<1>2. Len(s) >= 1 /\ 1 \in 1 .. Len(s) /\ \A i \in 1 .. Len(s) - 1 : i + 1 \in 1 .. Len(s)
  BY <1>1
<1>3. s[1] \in T
  BY <1>2, ElementOfSeq
<1>4. Head(s) = s[1]
  BY <1>1, HeadTailProperties
<1> QED BY <1>1, <1>2, <1>3, <1>4

\* An answer to an earlier command is dropped.
LEMMA StrayKeeps ==
  ASSUME RecoveryIInv, Stray
  PROVE  RecoveryIInv'
<1>1. /\ Typed /\ PassInv /\ Closed /\ Connected /\ Lockstep /\ link = "open" /\ replies # << >>
      /\ run.call = NoCommand \/ Head(replies).txn < run.call.txn
      /\ replies' = Tail(replies)
      /\ UNCHANGED <<engine, slot, link, run, rows, library, life, kills>> /\ Journal
      /\ run \in RunType /\ life \in LifeType
  BY DEF RecoveryIInv, Typed, Stray, Stored
<1>2. /\ Tail(replies) \in Seq(ReplyType) /\ Len(replies) \in Nat /\ Len(replies) >= 1
      /\ Len(Tail(replies)) = Len(replies) - 1
      /\ \A i \in 1 .. Len(Tail(replies)) :
           Tail(replies)[i] = replies[i + 1] /\ i + 1 \in 1 .. Len(replies)
      /\ Head(replies) = replies[1] /\ 1 \in 1 .. Len(replies) /\ replies[1] \in ReplyType
  BY <1>1, TailOf DEF Typed
<1>3. Wired /\ Counted /\ Paced /\ Chosen
  BY <1>1 DEF Connected
<1>4. Typed'
  BY <1>1, <1>2, WireTyped DEF Typed
<1>5. Asked' /\ Placed' /\ Held' /\ Kept' /\ Shown'
  BY <1>1, SamePlace, SameClaims DEF PassInv, Shown
<1>6. Closed' /\ Chosen' /\ Lockstep'
  BY <1>1, <1>3 DEF Closed, Chosen, Lockstep, Asking
<1>7. \A r : Proper(r)' <=> Proper(r)
  BY <1>1 DEF Proper
<1>8. Wired'
  BY <1>1, <1>2, <1>3, <1>7 DEF Wired, Asking
<1>9. Paced'
  BY <1>1, <1>2, <1>3, <1>7 DEF Paced, AnsweredLast, Asking
<1>10. Counted'
  <2> DEFINE len == Len(replies)
             w == Due(slot # NoCommand)
             p == Due(engine.pending)
  <2>1. len \in Nat /\ len >= 1 /\ w \in 0 .. 1 /\ p \in 0 .. 1 /\ Len(replies') = len - 1
    BY <1>1, <1>2 DEF Due
  <2>2. CASE run.call = NoCommand
    <3>1. len + w + p <= 1
      BY <1>3, <2>2 DEF Counted, Asking
    <3>2. len - 1 + w + p <= 1
      <4> HIDE DEF len, w, p
      <4> QED BY <2>1, <3>1
    <3> QED BY <1>1, <2>1, <2>2, <3>2 DEF Counted, Asking
  <2>3. CASE run.call # NoCommand
    <3>1. /\ len + w + p <= run.tries + Due(replies # << >> /\ replies[1].txn # run.call.txn)
          /\ \A i \in 2 .. len : replies[i].txn = run.call.txn
      BY <1>3, <2>3 DEF Counted, Asking
    <3>2. replies[1].txn # run.call.txn
      <4>1. replies[1].txn \in Nat /\ run.call.txn \in Nat
        BY <1>1, <1>2 DEF ReplyType, RunType, CommandType
      <4> QED BY <1>1, <1>2, <2>3, <4>1
    <3>3. len + w + p <= run.tries + 1 /\ run.tries \in Nat
      <4>1. run.tries \in Nat
        BY <1>1 DEF RunType
      <4>2. Due(replies # << >> /\ replies[1].txn # run.call.txn) = 1
        BY <1>1, <3>2 DEF Due
      <4> QED BY <3>1, <4>1, <4>2
    <3>4. len - 1 + w + p <= run.tries + 0
      <4> HIDE DEF len, w, p
      <4> QED BY <2>1, <3>3
    <3>5. \A i \in 1 .. len - 1 : replies'[i].txn = run.call.txn
      <4>1. \A i \in 1 .. len - 1 : i + 1 \in 2 .. len
        <5> HIDE DEF len
        <5> QED BY <2>1
      <4> QED BY <1>1, <1>2, <3>1, <4>1
    <3>6. Due(replies' # << >> /\ replies'[1].txn # run.call.txn) = 0
      <4>1. replies' # << >> => 1 \in 1 .. len - 1
        BY <1>1, <1>2, <2>1, EmptySeq
      <4> QED BY <3>5, <4>1 DEF Due
    <3>7. \A i \in 2 .. len - 1 : i \in 1 .. len - 1
      <4> HIDE DEF len
      <4> QED BY <2>1
    <3> QED BY <1>1, <2>1, <2>3, <3>4, <3>5, <3>6, <3>7 DEF Counted, Asking
  <2> QED BY <2>2, <2>3
<1> QED BY <1>4, <1>5, <1>6, <1>8, <1>9, <1>10 DEF RecoveryIInv, PassInv, Connected

\* The connection drops: the worker stays at its place until it finds out.
LEMMA LinkDropsKeeps ==
  ASSUME RecoveryIInv, LinkDrops
  PROVE  RecoveryIInv'
<1>1. /\ Shown /\ life \in LifeType /\ UNCHANGED <<rows, library, run, life, kills>> /\ Shut
      /\ Journal
  BY DEF RecoveryIInv, Typed, PassInv, LinkDrops, Stored
<1>2. Shown'
  BY <1>1, SameClaims DEF Shown
<1> QED BY <1>1, <1>2, LifecycleKeeps

-----------------------------------------------------------------------------
(* The answers the worker takes. *)

\* The answer that is taken is to the last command, and the engine is done with it.
LEMMA AnswerIsLast ==
  ASSUME RecoveryIInv, NEW op \in Calls, Answers(op)
  PROVE  /\ Asking /\ run.at = op /\ run.call.op = op /\ link = "open"
         /\ Answer \in ReplyType /\ Answer = replies[1] /\ Proper(Answer)
         /\ Answer.txn = run.call.txn
         /\ engine.on => /\ engine.last = run.call.txn /\ ~engine.pending
                         /\ Answer = engine.cache
<1>1. /\ Typed /\ Connected /\ link = "open" /\ replies # << >> /\ Asking /\ run.at = op
      /\ Head(replies).txn = run.call.txn
  BY DEF RecoveryIInv, Answers, Asking
<1>2. Wired /\ Paced
  BY <1>1 DEF Connected
<1>3. 1 \in 1 .. Len(replies) /\ Answer = replies[1] /\ Answer \in ReplyType
  BY <1>1, TailOf DEF Typed, Answer
<1>4. /\ run.call.op = op /\ run.call.txn = run.next - 1 /\ run.next \in Nat
      /\ run.call.txn > 0 /\ run.call.txn \in Nat
  BY <1>1, AskedFor
<1>5. Answer.txn = run.call.txn
  BY <1>1 DEF Answer
<1>6. Proper(Answer)
  BY <1>1, <1>2, <1>3, <1>5 DEF Wired
<1>7. ASSUME engine.on
      PROVE  engine.last = run.call.txn /\ ~engine.pending /\ Answer = engine.cache
  <2>1. Answer.txn <= engine.last /\ engine.last \in Nat
    BY <1>1, <1>2, <1>3, <1>7 DEF Paced, Typed, EngineType
  <2>2. engine.last = run.next - 1 \/ engine.last = run.next - 2
    BY <1>2, <1>7 DEF Paced
  <2>3. engine.last = run.call.txn
    BY <1>4, <1>5, <2>1, <2>2
  <2> QED BY <1>2, <1>3, <1>5, <1>7, <2>3 DEF Paced
<1> QED BY <1>1, <1>3, <1>4, <1>5, <1>6, <1>7

\* Taking an answer leaves at most one more on its way.
LEMMA AnswerTaken ==
  ASSUME RecoveryIInv, NEW op \in Calls, Answers(op), replies' = Tail(replies),
         UNCHANGED <<engine, slot, link>>, run'.call = NoCommand, run'.next = run.next,
         Chosen => Chosen'
  PROVE  Closed' /\ Connected' /\ replies' \in Seq(ReplyType)
<1>1. /\ Typed /\ Connected /\ Closed /\ link = "open" /\ replies # << >> /\ run \in RunType
      /\ Head(replies).txn = run.call.txn
  BY DEF RecoveryIInv, Typed, Answers
<1>2. /\ Tail(replies) \in Seq(ReplyType) /\ Len(replies) \in Nat /\ Len(replies) >= 1
      /\ Len(Tail(replies)) = Len(replies) - 1
      /\ \A i \in 1 .. Len(Tail(replies)) :
           Tail(replies)[i] = replies[i + 1] /\ i + 1 \in 1 .. Len(replies)
      /\ Head(replies) = replies[1] /\ 1 \in 1 .. Len(replies)
  BY <1>1, TailOf DEF Typed
<1>3. Wired /\ Counted /\ Paced /\ Chosen
  BY <1>1 DEF Connected
<1>4. Asking /\ (engine.on => engine.last = run.call.txn /\ ~engine.pending)
  BY AnswerIsLast
<1>5. ~Asking'
  BY DEF Asking
<1>6. /\ run.call.txn = run.next - 1 /\ run.next \in Nat /\ run.tries \in 1 .. 2
  BY <1>4, AskedFor
<1>7. Closed' /\ Chosen'
  BY <1>1, <1>3 DEF Closed
<1>8. Wired'
  BY <1>2, <1>3, <1>5 DEF Wired
<1>9. Paced'
  BY <1>2, <1>3, <1>4, <1>5, <1>6 DEF Paced, AnsweredLast
<1>10. Counted'
  <2> DEFINE len == Len(replies)
             w == Due(slot # NoCommand)
             p == Due(engine.pending)
  <2>1. len \in Nat /\ w \in 0 .. 1 /\ p \in 0 .. 1 /\ Len(replies') = len - 1
    BY <1>2 DEF Due
  <2>2. len + w + p <= run.tries + Due(replies # << >> /\ replies[1].txn # run.call.txn)
    BY <1>3, <1>4 DEF Counted
  <2>3. Due(replies # << >> /\ replies[1].txn # run.call.txn) = 0
    BY <1>1, <1>2 DEF Due
  <2>4. len + w + p <= 2
    <3>1. len + w + p <= run.tries + 0
      BY <2>2, <2>3
    <3> HIDE DEF len, w, p
    <3> QED BY <1>6, <2>1, <3>1
  <2>5. len - 1 + w + p <= 1
    <3> HIDE DEF len, w, p
    <3> QED BY <2>1, <2>4
  <2> QED BY <1>5, <2>1, <2>5 DEF Counted
<1> QED BY <1>2, <1>7, <1>8, <1>9, <1>10 DEF Connected

\* What taking an answer leaves of the worker that goes on with r.
LEMMA Gone ==
  ASSUME RecoveryIInv, NEW r \in RunType, Goes(r)
  PROVE  /\ run' \in RunType /\ run' = [r EXCEPT !.call = NoCommand, !.tries = 0]
         /\ run'.at = r.at /\ run'.goal = r.goal /\ run'.c = r.c /\ run'.count = r.count
         /\ run'.call = NoCommand /\ run'.next = r.next /\ run'.key = r.key
         /\ run'.handle = r.handle /\ run'.received = r.received /\ run'.data = r.data
         /\ run'.failed = r.failed /\ run'.pins = r.pins
         /\ run'.preserved = r.preserved /\ run'.ready = r.ready
         /\ replies' = Tail(replies) /\ UNCHANGED <<engine, slot, link>>
<1>1. run' = [r EXCEPT !.call = NoCommand, !.tries = 0]
        /\ replies' = Tail(replies) /\ UNCHANGED <<engine, slot, link>>
  BY DEF Goes
<1>2. NoCommand \in CommandType /\ 0 \in 0 .. 2
  BY Constants
<1> QED BY <1>1, <1>2 DEF RunType

\* The worker's state and the types of a step that takes an answer.
LEMMA TakingKeeps ==
  ASSUME RecoveryIInv, NEW op \in Calls, Answers(op), replies' = Tail(replies),
         UNCHANGED <<engine, slot, link, rows, library, kills>>, Journal,
         run' \in RunType, run'.call = NoCommand, run'.next = run.next,
         Chosen => Chosen', life' \in LifeType, Shown', Placed', Held', Kept', Lockstep'
  PROVE  RecoveryIInv'
<1>1. Closed' /\ Connected' /\ replies' \in Seq(ReplyType)
  BY AnswerTaken
<1>2. Typed'
  BY <1>1 DEF RecoveryIInv, Typed, Journal
<1>3. Asked'
  BY DEF Asked, Asking
<1> QED BY <1>1, <1>2, <1>3 DEF RecoveryIInv, PassInv

\* The size of the catalog is learned, or the connection already knew it.
LEMMA HelloAnsweredKeeps ==
  ASSUME RecoveryIInv, HelloAnswered
  PROVE  RecoveryIInv'
<1>1. /\ Typed /\ Placed /\ Held /\ Kept /\ Shown /\ Lockstep /\ run \in RunType
      /\ Answers("hello") /\ "hello" \in Calls /\ run.at = "hello"
      /\ UNCHANGED <<rows, library, kills>> /\ Journal
  BY DEF RecoveryIInv, Typed, PassInv, HelloAnswered, Stored, Answers, Calls
<1>2. Asking /\ run.call.op = "hello" /\ Answer \in ReplyType /\ Proper(Answer)
  BY <1>1, AnswerIsLast
<1>3. Answer.count \in 0 .. Captures /\ run.data = 0
  BY <1>1, <1>2 DEF Proper, ReplyType, Held
<1>4. run.call.op # "read" /\ NoCommand.op # "read"
  BY <1>2 DEF NoCommand
<1>5. CASE run.goal = "source"
  <2> DEFINE r == [run EXCEPT !.at = "select"]
  <2>1. /\ r \in RunType /\ r.at = "select" /\ r.goal = run.goal /\ r.c = run.c
        /\ r.count = run.count /\ r.next = run.next /\ r.key = run.key /\ r.handle = run.handle
        /\ r.received = run.received /\ r.data = run.data /\ r.failed = run.failed
        /\ r.pins = run.pins /\ r.preserved = run.preserved /\ r.ready = run.ready
    BY <1>1 DEF RunType, Places, Calls
  <2>2. Goes(r) /\ life' = life
    BY <1>5 DEF HelloAnswered
  <2> HIDE DEF r
  <2>3. /\ run' \in RunType
        /\ run'.at = r.at /\ run'.goal = r.goal /\ run'.c = r.c /\ run'.count = r.count
        /\ run'.call = NoCommand /\ run'.next = r.next /\ run'.key = r.key
        /\ run'.handle = r.handle /\ run'.received = r.received /\ run'.data = r.data
        /\ run'.failed = r.failed /\ run'.pins = r.pins
        /\ run'.preserved = r.preserved /\ run'.ready = r.ready
        /\ replies' = Tail(replies) /\ UNCHANGED <<engine, slot, link>>
    BY <2>1, <2>2, Gone
  <2>4. Placed' /\ Held'
    BY <1>1, <1>3, <1>5, <2>1, <2>3 DEF Placed, Held
  <2>5. Kept'
    BY <1>1, <2>1, <2>3, SameKept DEF Tried
  <2>6. life' \in LifeType /\ Shown'
    BY <1>1, <2>1, <2>2, <2>3, SameClaims DEF Shown, Typed
  <2>7. Chosen => Chosen'
    BY <2>1, <2>3, QuietChoice
  <2>8. Lockstep'
    BY <1>1, <1>4, <2>1, <2>3, OtherDelivery
  <2> QED BY <1>1, <2>1, <2>3, <2>4, <2>5, <2>6, <2>7, <2>8, TakingKeeps
<1>6. CASE run.goal # "source"
  <2> DEFINE a == IF Answer.count = 0 THEN "next" ELSE "list"
             c == IF Answer.count = 0 THEN 0 ELSE 1
             r == [run EXCEPT !.count = Answer.count, !.usable = {}, !.c = c, !.at = a]
  <2>1. /\ a \in {"next", "list"} /\ c \in 0 .. Captures /\ c \in 0 .. 1 /\ c <= Answer.count
        /\ a = "list" => c = 1 /\ Answer.count > 0
        /\ a = "next" => c = 0
    BY <1>3, TransferAssumption
  <2> HIDE DEF a, c
  <2>2. /\ r \in RunType /\ r.at = a /\ r.goal = run.goal /\ r.c = c
        /\ r.count = Answer.count /\ r.next = run.next /\ r.key = run.key
        /\ r.handle = run.handle /\ r.received = run.received /\ r.data = run.data
        /\ r.failed = run.failed
        /\ r.pins = run.pins /\ r.preserved = run.preserved /\ r.ready = run.ready
    <3>1. a \in Places /\ {} \in SUBSET (0 .. Captures)
      BY <2>1 DEF Places, Calls
    <3>2. r \in RunType
      <4>1. run \in RunType /\ Answer.count \in 0 .. Captures /\ c \in 0 .. Captures
        BY <1>1, <1>3, <2>1
      <4> QED BY <3>1, <4>1 DEF RunType
    <3> QED BY <1>1, <3>2 DEF RunType
  <2>3. Goes(r) /\ Reports(r, "CATALOG")
    BY <1>6 DEF HelloAnswered, a, c
  <2> HIDE DEF r
  <2>4. /\ run' \in RunType
        /\ run'.at = r.at /\ run'.goal = r.goal /\ run'.c = r.c /\ run'.count = r.count
        /\ run'.call = NoCommand /\ run'.next = r.next /\ run'.key = r.key
        /\ run'.handle = r.handle /\ run'.received = r.received /\ run'.data = r.data
        /\ run'.failed = r.failed /\ run'.pins = r.pins
        /\ run'.preserved = r.preserved /\ run'.ready = r.ready
        /\ replies' = Tail(replies) /\ UNCHANGED <<engine, slot, link>>
    BY <2>2, <2>3, Gone
  <2>5. run'.goal = "catalog"
    BY <1>1, <1>6, <2>2, <2>4 DEF RunType
  <2>6. Placed'
    <3>1. run.next = 2
      BY <1>1, <1>2 DEF Placed
    <3>2. ~Asking'
      BY <2>4 DEF Asking
    <3>3. run'.at = "list" => run'.c \in 1 .. run'.count /\ run'.next = run'.c + 1
      BY <1>3, <2>1, <2>2, <2>4, <3>1
    <3> QED BY <2>1, <2>2, <2>4, <2>5, <3>2, <3>3 DEF Placed
  <2>7. Held'
    BY <1>3, <2>1, <2>2, <2>4 DEF Held
  <2>8. Kept'
    <3>1. ASSUME NEW j \in 1 .. Captures, Tried(j)'  PROVE  FALSE
      BY <2>1, <2>2, <2>4, <2>5, <3>1 DEF Tried
    <3> QED BY <1>1, <2>2, <2>4, <3>1, SameKept
  <2>9. life' \in LifeType /\ Shown'
    <3>1. run.at # "idle" /\ run'.at # "idle"
      BY <1>1, <2>1, <2>2, <2>4
    <3> QED BY <1>1, <2>2, <2>3, <3>1, ReportKeeps DEF Phases
  <2>10. Chosen => Chosen'
    <3>1. run'.at \notin {"open", "read", "store", "finish"}
      BY <2>1, <2>2, <2>4
    <3> QED BY <2>4, <3>1, QuietChoice
  <2>11. Lockstep'
    BY <1>1, <1>4, <2>2, <2>4, OtherDelivery
  <2> QED BY <1>1, <2>2, <2>4, <2>6, <2>7, <2>8, <2>9, <2>10, <2>11, TakingKeeps
<1> QED BY <1>5, <1>6

\* One source of the catalog is learned; after the last, the pass goes on.
LEMMA ListAnsweredKeeps ==
  ASSUME RecoveryIInv, ListAnswered
  PROVE  RecoveryIInv'
<1>1. /\ Typed /\ Placed /\ Held /\ Kept /\ Shown /\ Lockstep /\ run \in RunType
      /\ Answers("list") /\ "list" \in Calls /\ run.at = "list"
      /\ UNCHANGED <<rows, library, life, kills>> /\ Journal
  BY DEF RecoveryIInv, Typed, PassInv, ListAnswered, Stored, Answers, Calls
<1>2. Asking /\ run.call.op = "list" /\ NoCommand.op # "read"
  BY <1>1, AnswerIsLast DEF NoCommand
<1>3. /\ run.goal = "catalog" /\ run.c \in 1 .. run.count /\ run.next = run.c + 2
      /\ run.c \in Nat /\ run.count \in 0 .. Captures /\ Captures \in Nat /\ run.data = 0
  BY <1>1, <1>2, TransferAssumption DEF Placed, Held, RunType
<1> DEFINE more == run.c < run.count
           u == IF Answer.count = 1 THEN run.usable \cup {run.c} ELSE run.usable
           c == IF more THEN run.c + 1 ELSE 0
           a == IF more THEN "list" ELSE "next"
           r == [run EXCEPT !.usable = u, !.c = c, !.at = a]
<1>4. /\ a \in {"next", "list"} /\ c \in 0 .. Captures
      /\ a = "list" => c \in 1 .. run.count /\ run.next = c + 1
      /\ a = "next" => c = 0
  BY <1>3
<1>5. u \in SUBSET (0 .. Captures)
  BY <1>1 DEF RunType
<1>6. Goes(r)
  BY DEF ListAnswered
<1> HIDE DEF a, c, u
<1>7. /\ r \in RunType /\ r.at = a /\ r.goal = run.goal /\ r.c = c
      /\ r.count = run.count /\ r.next = run.next /\ r.key = run.key
      /\ r.handle = run.handle /\ r.received = run.received /\ r.data = run.data
      /\ r.failed = run.failed
      /\ r.pins = run.pins /\ r.preserved = run.preserved /\ r.ready = run.ready
  <2>1. a \in Places
    BY <1>4 DEF Places, Calls
  <2> QED BY <1>1, <1>4, <1>5, <2>1 DEF RunType
<1> HIDE DEF r
<1>8. /\ run' \in RunType
      /\ run'.at = r.at /\ run'.goal = r.goal /\ run'.c = r.c /\ run'.count = r.count
      /\ run'.call = NoCommand /\ run'.next = r.next /\ run'.key = r.key
      /\ run'.handle = r.handle /\ run'.received = r.received /\ run'.data = r.data
      /\ run'.failed = r.failed /\ run'.pins = r.pins
      /\ run'.preserved = r.preserved /\ run'.ready = r.ready
      /\ replies' = Tail(replies) /\ UNCHANGED <<engine, slot, link>>
  BY <1>6, <1>7, Gone
<1>9. Placed'
  <2>1. ~Asking' /\ run'.goal = "catalog"
    BY <1>3, <1>7, <1>8 DEF Asking
  <2>2. run'.at = "next" => run'.c <= run'.count
    BY <1>3, <1>4, <1>7, <1>8
  <2> QED BY <1>4, <1>7, <1>8, <2>1, <2>2 DEF Placed
<1>10. Held'
  BY <1>3, <1>4, <1>7, <1>8 DEF Held
<1>11. Kept'
  <2>1. ASSUME NEW j \in 1 .. Captures, Tried(j)'  PROVE  FALSE
    BY <1>3, <1>4, <1>7, <1>8, <2>1 DEF Tried
  <2> QED BY <1>1, <1>7, <1>8, <2>1, SameKept
<1>12. life' \in LifeType /\ Shown'
  <2>1. run'.at # "idle"
    BY <1>4, <1>7, <1>8
  <2> QED BY <1>1, <2>1, SameClaims DEF Shown, Typed
<1>13. Chosen => Chosen'
  <2>1. run'.at \notin {"open", "read", "store", "finish"}
    BY <1>4, <1>7, <1>8
  <2> QED BY <1>8, <2>1, QuietChoice
<1>14. Lockstep'
  BY <1>1, <1>2, <1>7, <1>8, OtherDelivery
<1> QED BY <1>1, <1>7, <1>8, <1>9, <1>10, <1>11, <1>12, <1>13, <1>14, TakingKeeps

\* SELECT: the version is pinned for the pass, and nothing of it is read yet.
LEMMA SelectAnsweredKeeps ==
  ASSUME RecoveryIInv, SelectAnswered
  PROVE  RecoveryIInv'
<1>1. /\ Typed /\ Placed /\ Held /\ Kept /\ Shown /\ Lockstep /\ run \in RunType
      /\ Answers("select") /\ "select" \in Calls /\ run.at = "select"
      /\ UNCHANGED <<rows, library, kills>> /\ Journal
  BY DEF RecoveryIInv, Typed, PassInv, SelectAnswered, Stored, Answers, Calls
<1>2. /\ Asking /\ run.call.op = "select" /\ Answer \in ReplyType /\ Proper(Answer)
      /\ link = "open"
      /\ engine.on => engine.last = run.call.txn /\ ~engine.pending /\ Answer = engine.cache
  BY <1>1, AnswerIsLast
<1>3. CASE SourceFails
  BY <1>1, <1>3, SourceFailsKeeps DEF SourcePlaces
<1>4. CASE Answer.ok /\ Pinned(Answer.version)
  <2> DEFINE v == Answer.version
             p == [run.pins EXCEPT ![run.c] = v]
             r == [run EXCEPT !.pins[run.c] = v, !.handle = Answer.handle, !.at = "open"]
  <2>1. Goes(r) /\ life' = life
    BY <1>4 DEF SelectAnswered
  <2>2. v \in Versions /\ v # 0 /\ Answer.handle \in Nat
    <3>1. v \in Versions
      BY <1>2, <1>4 DEF Proper
    <3>2. v # 0
      BY <3>1, TransferAssumption
    <3> QED BY <1>2, <3>1, <3>2 DEF ReplyType
  <2>3. run.goal = "source" /\ run.c \in 1 .. run.count /\ run.c \in 1 .. Captures
    BY <1>1, AtSource DEF SourcePlaces
  <2> HIDE DEF v
  <2>4. /\ p \in [1 .. Captures -> Versions \cup {0}] /\ p[run.c] = v
        /\ \A c \in 1 .. Captures : c # run.c => p[c] = run.pins[c]
    BY <1>1, <2>2, <2>3 DEF RunType
  <2>5. r = [run EXCEPT !.pins = p, !.handle = Answer.handle, !.at = "open"]
    BY <1>1 DEF RunType
  <2> HIDE DEF p, r
  <2>6. /\ r \in RunType /\ r.at = "open" /\ r.goal = run.goal /\ r.c = run.c
        /\ r.count = run.count /\ r.next = run.next /\ r.key = run.key
        /\ r.handle = Answer.handle /\ r.received = run.received /\ r.data = run.data
        /\ r.failed = run.failed
        /\ r.pins = p /\ r.preserved = run.preserved /\ r.ready = run.ready
    <3>1. r \in RunType
      BY <1>1, <2>2, <2>4, <2>5 DEF RunType, Places
    <3> QED BY <1>1, <2>5, <3>1 DEF RunType
  <2>7. /\ run' \in RunType
        /\ run'.at = r.at /\ run'.goal = r.goal /\ run'.c = r.c /\ run'.count = r.count
        /\ run'.call = NoCommand /\ run'.next = r.next /\ run'.key = r.key
        /\ run'.handle = r.handle /\ run'.received = r.received /\ run'.data = r.data
        /\ run'.failed = r.failed /\ run'.pins = r.pins
        /\ run'.preserved = r.preserved /\ run'.ready = r.ready
        /\ replies' = Tail(replies) /\ UNCHANGED <<engine, slot, link>>
    BY <2>1, <2>6, Gone
  <2>8. Placed'
    BY <1>1, <2>3, <2>6, <2>7 DEF Placed
  <2>9. Held'
    <3>1. run.data = 0
      BY <1>1 DEF Held
    <3> QED BY <2>2, <2>4, <2>6, <2>7, <3>1 DEF Held
  <2>10. Kept'
    <3>1. SavedIsWhole'
      BY <1>1 DEF Kept, SavedIsWhole
    <3>2. \A c : Whereabouts(c)' <=> Whereabouts(c)
      BY <1>1 DEF Whereabouts
    <3>3. ASSUME NEW k \in run'.preserved
          PROVE  rows'[k].finished /\ run'.pins[k[1]] = k[2]
      <4>1. k \in run.preserved /\ k \in Keys
        BY <1>1, <2>6, <2>7 DEF RunType
      <4>2. rows[k].finished /\ run.pins[k[1]] = k[2]
        BY <1>1, <4>1 DEF Kept
      <4>3. k[1] \in 1 .. Captures /\ k[2] # 0
        BY <4>1, TransferAssumption DEF Keys
      <4>4. k[1] = run.c => k[2] = v
        BY <1>4, <4>2, <4>3 DEF Pinned, v
      <4> QED BY <1>1, <2>4, <2>6, <2>7, <4>2, <4>3, <4>4
    <3>4. \A k \in run'.ready : rows'[k].finished /\ k \in library'
      BY <1>1, <2>6, <2>7 DEF Kept
    <3>5. \A c \in 1 .. Captures : Tried(c)' => Tried(c)
      BY <1>1, <2>3, <2>6, <2>7 DEF Tried
    <3>6. \A c \in 1 .. Captures : Tried(c)' => c \in run'.failed \/ Whereabouts(c)'
      BY <1>1, <2>6, <2>7, <3>2, <3>5 DEF Kept
    <3> QED BY <3>1, <3>3, <3>4, <3>6 DEF Kept
  <2>11. life' \in LifeType /\ Shown'
    BY <1>1, <2>1, <2>6, <2>7, SameClaims DEF Shown, Typed
  <2>12. ASSUME Chosen, engine.on
         PROVE  /\ ~engine.selected.seeked /\ engine.selected.handle = Answer.handle
                /\ engine.selected.version = v /\ engine.selected.capture = run.c
    BY <1>1, <1>2, <1>4, <2>12 DEF Chosen, v
  <2>13. Chosen => Chosen'
    <3>1. ~Asking'
      BY <2>7 DEF Asking
    <3> QED BY <2>4, <2>6, <2>7, <2>12, <3>1 DEF Chosen
  <2>14. Lockstep'
    <3>1. Chosen
      BY <1>2 DEF RecoveryIInv, Connected
    <3>2. ~(engine'.on /\ engine'.selected.seeked)
      BY <2>7, <2>12, <3>1
    <3> QED BY <3>2 DEF Lockstep
  <2> QED BY <1>1, <2>6, <2>7, <2>8, <2>9, <2>10, <2>11, <2>13, <2>14, TakingKeeps
<1> QED BY <1>3, <1>4 DEF SelectAnswered

\* READ: what was delivered is now the worker's to store.
LEMMA ReadAnsweredKeeps ==
  ASSUME RecoveryIInv, ReadAnswered
  PROVE  RecoveryIInv'
<1>1. /\ Typed /\ Placed /\ Held /\ Kept /\ Shown /\ Lockstep /\ run \in RunType
      /\ Answers("read") /\ "read" \in Calls /\ run.at = "read"
      /\ UNCHANGED <<rows, library, kills>> /\ Journal
  BY DEF RecoveryIInv, Typed, PassInv, ReadAnswered, Stored, Answers, Calls
<1>2. /\ Asking /\ run.call.op = "read" /\ Answer \in ReplyType /\ Proper(Answer)
      /\ link = "open"
      /\ engine.on => engine.last = run.call.txn /\ ~engine.pending /\ Answer = engine.cache
  BY <1>1, AnswerIsLast
<1>3. CASE SourceFails
  BY <1>1, <1>3, SourceFailsKeeps DEF SourcePlaces
<1>4. CASE Answer.ok
  <2> DEFINE n == Answer.count
             a == IF run.received = Size(run.key[2]) THEN "finish" ELSE "store"
             r == [run EXCEPT !.data = n, !.at = a]
  <2>1. Goes(r) /\ life' = life
    BY <1>4 DEF ReadAnswered
  <2>2. run.received \in Nat /\ run.data = 0 /\ n \in Nat
    BY <1>1, <1>2 DEF Held, RunType, ReplyType
  <2>3. /\ run.received + n <= Size(run.key[2])
        /\ n = 0 <=> run.received = Size(run.key[2])
    BY <1>2, <1>4 DEF Proper
  <2>4. /\ a \in {"finish", "store"} /\ (a = "finish" => n = 0)
        /\ a = "finish" => run.received = Size(run.key[2])
    BY <2>3
  <2>5. run.goal = "source" /\ run.c \in 1 .. run.count
    BY <1>1, AtSource DEF SourcePlaces
  <2> HIDE DEF a, n
  <2>6. /\ r \in RunType /\ r.at = a /\ r.goal = run.goal /\ r.c = run.c
        /\ r.count = run.count /\ r.next = run.next /\ r.key = run.key
        /\ r.handle = run.handle /\ r.received = run.received /\ r.data = n
        /\ r.failed = run.failed
        /\ r.pins = run.pins /\ r.preserved = run.preserved /\ r.ready = run.ready
    <3>1. a \in Places
      BY <2>4 DEF Places, Calls
    <3>2. r \in RunType
      <4>1. run \in RunType /\ n \in Nat
        BY <1>1, <2>2
      <4> QED BY <3>1, <4>1 DEF RunType
    <3> QED BY <1>1, <3>2 DEF RunType
  <2> HIDE DEF r
  <2>7. /\ run' \in RunType
        /\ run'.at = r.at /\ run'.goal = r.goal /\ run'.c = r.c /\ run'.count = r.count
        /\ run'.call = NoCommand /\ run'.next = r.next /\ run'.key = r.key
        /\ run'.handle = r.handle /\ run'.received = r.received /\ run'.data = r.data
        /\ run'.failed = r.failed /\ run'.pins = r.pins
        /\ run'.preserved = r.preserved /\ run'.ready = r.ready
        /\ replies' = Tail(replies) /\ UNCHANGED <<engine, slot, link>>
    BY <2>1, <2>6, Gone
  <2>8. Placed'
    BY <2>4, <2>5, <2>6, <2>7 DEF Placed
  <2>9. Held'
    <3>1. /\ run.pins[run.c] \in Versions /\ run.key = <<run.c, run.pins[run.c]>>
          /\ rows[run.key].at = Whole(run.key[2], run.received)
      BY <1>1 DEF Held
    <3> QED BY <1>1, <2>3, <2>4, <2>6, <2>7, <3>1 DEF Held
  <2>10. Kept'
    BY <1>1, <2>4, <2>6, <2>7, SameKept DEF Tried
  <2>11. life' \in LifeType /\ Shown'
    <3>1. run'.at # "idle"
      BY <2>4, <2>6, <2>7
    <3> QED BY <1>1, <2>1, <3>1, SameClaims DEF Shown, Typed
  <2>12. Chosen => Chosen'
    <3>1. run'.at \in {"finish", "store"}
      BY <2>4, <2>6, <2>7
    <3> QED BY <1>1, <2>6, <2>7, <3>1, QuietChoice
  <2>13. Lockstep'
    <3> DEFINE s == engine.selected
    <3>1. ASSUME link = "open", engine.on, s.seeked, s.handle = run.handle,
                 s.capture = run.key[1]
          PROVE  s.next = run.received + n
      <4>1. engine.cache.ok /\ engine.cache.count = n /\ ~engine.pending
              /\ engine.last = run.call.txn
        BY <1>2, <1>4, <3>1 DEF n
      <4>2. s.next = run.received + run.data + n
        BY <1>1, <1>2, <3>1, <4>1 DEF Lockstep
      <4> QED BY <2>2, <4>2
    <3>2. run'.call.op # "read"
      BY <2>7 DEF NoCommand
    <3>3. run.received + n + 0 = run.received + n
      BY <2>2
    <3> QED BY <2>6, <2>7, <3>1, <3>2, <3>3 DEF Lockstep
  <2> QED BY <1>1, <2>6, <2>7, <2>8, <2>9, <2>10, <2>11, <2>12, <2>13, TakingKeeps
<1> QED BY <1>3, <1>4 DEF ReadAnswered

\* The recorder finished the source: it can be sealed; or it refused, and the source failed.
LEMMA FinishAnsweredKeeps ==
  ASSUME RecoveryIInv, FinishAnswered
  PROVE  RecoveryIInv'
<1>1. /\ Typed /\ Placed /\ Held /\ Kept /\ Shown /\ Lockstep /\ run \in RunType
      /\ Answers("finish") /\ "finish" \in Calls /\ run.at = "finish"
      /\ UNCHANGED <<rows, library, kills>> /\ Journal
  BY DEF RecoveryIInv, Typed, PassInv, FinishAnswered, Stored, Answers, Calls
<1>2. Asking /\ run.call.op = "finish" /\ NoCommand.op # "read"
  BY <1>1, AnswerIsLast DEF NoCommand
<1>3. CASE SourceFails
  BY <1>1, <1>3, SourceFailsKeeps DEF SourcePlaces
<1>4. CASE Goes([run EXCEPT !.at = "seal"]) /\ life' = life
  <2> DEFINE r == [run EXCEPT !.at = "seal"]
  <2>1. /\ r \in RunType /\ r.at = "seal" /\ r.goal = run.goal /\ r.c = run.c
        /\ r.count = run.count /\ r.next = run.next /\ r.key = run.key
        /\ r.handle = run.handle /\ r.received = run.received /\ r.data = run.data
        /\ r.failed = run.failed
        /\ r.pins = run.pins /\ r.preserved = run.preserved /\ r.ready = run.ready
    BY <1>1 DEF RunType, Places
  <2>2. Goes(r) /\ life' = life
    BY <1>4
  <2> HIDE DEF r
  <2>3. /\ run' \in RunType
        /\ run'.at = r.at /\ run'.goal = r.goal /\ run'.c = r.c /\ run'.count = r.count
        /\ run'.call = NoCommand /\ run'.next = r.next /\ run'.key = r.key
        /\ run'.handle = r.handle /\ run'.received = r.received /\ run'.data = r.data
        /\ run'.failed = r.failed /\ run'.pins = r.pins
        /\ run'.preserved = r.preserved /\ run'.ready = r.ready
        /\ replies' = Tail(replies) /\ UNCHANGED <<engine, slot, link>>
    BY <2>1, <2>2, Gone
  <2>4. Placed' /\ Held'
    BY <1>1, <2>1, <2>3 DEF Placed, Held
  <2>5. Kept'
    BY <1>1, <2>1, <2>3, SameKept DEF Tried
  <2>6. life' \in LifeType /\ Shown'
    BY <1>1, <2>1, <2>2, <2>3, SameClaims DEF Shown, Typed
  <2>7. Chosen => Chosen'
    BY <2>1, <2>3, QuietChoice
  <2>8. Lockstep'
    BY <1>1, <1>2, <2>1, <2>3, OtherDelivery
  <2> QED BY <1>1, <2>1, <2>3, <2>4, <2>5, <2>6, <2>7, <2>8, TakingKeeps
<1> QED BY <1>3, <1>4 DEF FinishAnswered

-----------------------------------------------------------------------------
(* The recorder's end. *)

\* A step of the recorder leaves the phone as it is.
LEMMA RecorderFrame ==
  ASSUME RecoveryIInv, engine.on, UNCHANGED <<rows, library, life, run, link, kills>>,
         Journal, engine' \in EngineType, slot' \in CommandType, replies' \in Seq(ReplyType),
         ~engine'.on => ~engine'.pending,
         link = "open" => Wired' /\ Counted' /\ Paced' /\ Chosen' /\ Lockstep'
  PROVE  RecoveryIInv'
<1>1. Typed /\ PassInv /\ Closed /\ run \in RunType /\ life \in LifeType
  BY DEF RecoveryIInv, Typed
<1>2. link = "open"
  BY <1>1 DEF Closed
<1>3. Typed'
  BY <1>1, WireTyped DEF Typed
<1>4. Asked' /\ Placed' /\ Held' /\ Kept' /\ Shown'
  BY <1>1, SamePlace, SameClaims DEF PassInv, Shown
<1>5. Closed'
  BY <1>2 DEF Closed
<1> QED BY <1>2, <1>3, <1>4, <1>5 DEF RecoveryIInv, PassInv, Connected

\* A command is written once or twice.
LEMMA Tries ==
  ASSUME NEW r \in RunType
  PROVE  r.tries \in 0 .. 2 /\ r.tries \in Nat
<1>1. r.tries \in 0 .. 2
  BY DEF RunType
<1> QED BY <1>1

\* The number of answers on their way, or to come, when none is added.
LEMMA NoMore ==
  ASSUME Typed, Counted, UNCHANGED <<run, replies>>,
         NEW w \in 0 .. 1, w = Due(slot # NoCommand),
         NEW p \in 0 .. 1, p = Due(engine.pending),
         NEW w1 \in 0 .. 1, w1 = Due(slot' # NoCommand),
         NEW p1 \in 0 .. 1, p1 = Due(engine'.pending), w1 + p1 <= w + p
  PROVE  Counted'
<1> DEFINE len == Len(replies)
           t == run.tries + Due(replies # << >> /\ replies[1].txn # run.call.txn)
<1>1. len \in Nat
  BY DEF Typed
<1>2. t \in Nat
  <2>1. run \in RunType
    BY DEF Typed
  <2>2. run.tries \in Nat
    BY <2>1, Tries
  <2> QED BY <2>2 DEF Due
<1>3. len + w + p <= 1 => len + w1 + p1 <= 1
  <2> HIDE DEF len
  <2> QED BY <1>1
<1>4. len + w + p <= t => len + w1 + p1 <= t
  <2> HIDE DEF len, t
  <2> QED BY <1>1, <1>2
<1> QED BY <1>3, <1>4 DEF Counted, Asking

\* A session that ends leaves the answers that are on their way.
LEMMA SessionEndKeeps ==
  ASSUME RecoveryIInv, engine.on, UNCHANGED <<rows, library, life, run, link, kills, replies>>,
         Journal, engine' = SessionEnd(engine), slot' \in {slot, NoCommand}
  PROVE  RecoveryIInv'
<1>1. /\ Typed /\ Closed /\ Connected /\ run \in RunType /\ engine \in EngineType
      /\ slot \in CommandType
  BY DEF RecoveryIInv, Typed
<1>2. engine' \in EngineType /\ ~engine'.on /\ ~engine'.pending
  BY <1>1, Sessions DEF Typed
<1>3. slot' \in CommandType /\ replies' \in Seq(ReplyType)
  BY <1>1, Constants DEF Typed
<1>4. ASSUME link = "open"  PROVE  Wired' /\ Counted' /\ Paced' /\ Chosen' /\ Lockstep'
  <2>1. Wired /\ Counted
    BY <1>1, <1>4 DEF Connected
  <2>2. Wired'
    BY <2>1 DEF Wired, Asking, Proper
  <2>3. Counted'
    <3>1. /\ Due(slot # NoCommand) \in 0 .. 1 /\ Due(engine.pending) \in 0 .. 1
          /\ Due(slot' # NoCommand) \in 0 .. 1 /\ Due(engine'.pending) \in 0 .. 1
          /\ Due(slot' # NoCommand) + Due(engine'.pending)
               <= Due(slot # NoCommand) + Due(engine.pending)
      BY <1>2 DEF Due
    <3> QED BY <1>1, <2>1, <3>1, NoMore
  <2> QED BY <1>2, <2>2, <2>3 DEF Paced, Chosen, Lockstep
<1> QED BY <1>2, <1>3, <1>4, RecorderFrame

\* The recorder finds that the source changed, and ends the session.
LEMMA SourceChangedKeeps ==
  ASSUME RecoveryIInv, SourceChanged, UNCHANGED <<rows, library, life, run, link, kills>>
  PROVE  RecoveryIInv'
BY SessionEndKeeps DEF SourceChanged, Journal

\* The phone confirms an answer: the engine may answer again.
LEMMA ConfirmKeeps ==
  ASSUME RecoveryIInv, Confirm, UNCHANGED <<rows, library, life, run, link, kills>>
  PROVE  RecoveryIInv'
<1>1. /\ Typed /\ Closed /\ Connected /\ Lockstep /\ engine \in EngineType /\ engine.on
      /\ engine' = [engine EXCEPT !.sending = FALSE]
      /\ UNCHANGED <<slot, replies>> /\ Journal
  BY DEF RecoveryIInv, Typed, Confirm, Journal
<1>2. engine' \in EngineType
  BY <1>1 DEF EngineType
<1>3. /\ engine'.on = engine.on /\ engine'.last = engine.last
      /\ engine'.command = engine.command /\ engine'.pending = engine.pending
      /\ engine'.cache = engine.cache /\ engine'.selected = engine.selected
  BY <1>1 DEF EngineType
<1>4. ASSUME link = "open"  PROVE  Wired' /\ Counted' /\ Paced' /\ Chosen' /\ Lockstep'
  <2>1. Wired /\ Counted /\ Paced /\ Chosen
    BY <1>1, <1>4 DEF Connected
  <2>2. Wired' /\ Counted'
    BY <1>1, <1>3, <2>1 DEF Wired, Counted, Asking, Proper
  <2>3. Paced'
    BY <1>1, <1>3, <2>1 DEF Paced, AnsweredLast, Asking, Proper
  <2>4. Chosen'
    BY <1>3, <2>1 DEF Chosen, Asking
  <2>5. Lockstep'
    BY <1>1, <1>3 DEF Lockstep
  <2> QED BY <2>2, <2>3, <2>4, <2>5
<1> QED BY <1>1, <1>2, <1>3, <1>4, RecorderFrame DEF Typed, Closed

\* One more answer in the row.
LEMMA AppendOf ==
  ASSUME NEW T, NEW s \in Seq(T), NEW x \in T
  PROVE  /\ Append(s, x) \in Seq(T) /\ Len(s) \in Nat /\ Len(Append(s, x)) = Len(s) + 1
         /\ \A i \in 1 .. Len(s) : Append(s, x)[i] = s[i]
         /\ Append(s, x)[Len(s) + 1] = x /\ Append(s, x) # << >>
         /\ \A i \in 1 .. Len(s) + 1 : i \in 1 .. Len(s) \/ i = Len(s) + 1
<1>1. /\ Append(s, x) \in Seq(T) /\ Len(s) \in Nat /\ Len(Append(s, x)) = Len(s) + 1
      /\ \A i \in 1 .. Len(s) : Append(s, x)[i] = s[i]
      /\ Append(s, x)[Len(s) + 1] = x
  BY AppendProperties
<1>2. Append(s, x) # << >>
  BY <1>1, EmptySeq
<1>3. \A i \in 1 .. Len(s) + 1 : i \in 1 .. Len(s) \/ i = Len(s) + 1
  BY <1>1
<1> QED BY <1>1, <1>2, <1>3

\* The number of answers on their way, one more of them.
LEMMA OneMore ==
  ASSUME Typed, Counted, Wired, NEW r \in ReplyType, replies' = Append(replies, r),
         UNCHANGED run, Asking => r.txn = run.call.txn,
         NEW w \in 0 .. 1, w = Due(slot # NoCommand),
         NEW p \in 0 .. 1, p = Due(engine.pending),
         NEW w1 \in 0 .. 1, w1 = Due(slot' # NoCommand),
         NEW p1 \in 0 .. 1, p1 = Due(engine'.pending), w1 + p1 + 1 = w + p
  PROVE  Counted'
<1> DEFINE len == Len(replies)
           t == run.tries + Due(replies # << >> /\ replies[1].txn # run.call.txn)
<1>1. /\ len \in Nat /\ Len(replies') = len + 1 /\ replies'[len + 1] = r /\ replies' # << >>
      /\ \A i \in 1 .. len : replies'[i] = replies[i]
      /\ \A i \in 1 .. len + 1 : i \in 1 .. len \/ i = len + 1
  <2>1. replies \in Seq(ReplyType)
    BY DEF Typed
  <2> QED BY <2>1, AppendOf
<1>2. t \in Nat
  <2>1. run \in RunType
    BY DEF Typed
  <2>2. run.tries \in Nat
    BY <2>1, Tries
  <2> QED BY <2>2 DEF Due
<1>3. len + w + p <= 1 => len + 1 + w1 + p1 <= 1
  <2> HIDE DEF len
  <2> QED BY <1>1
<1>4. len + w + p <= t => len + 1 + w1 + p1 <= t
  <2> HIDE DEF len, t
  <2> QED BY <1>1, <1>2
<1>5. CASE ~Asking
  BY <1>1, <1>3, <1>5 DEF Counted, Asking
<1>6. CASE Asking
  <2>1. /\ \A i \in 2 .. len : replies[i].txn = run.call.txn
        /\ len + 1 + w1 + p1 <= t
    BY <1>4, <1>6 DEF Counted
  <2>2. \A i \in 2 .. len + 1 : replies'[i].txn = run.call.txn
    <3>1. ASSUME NEW i \in 2 .. len + 1  PROVE  replies'[i].txn = run.call.txn
      <4>1. i \in 1 .. len + 1 /\ (i \in 1 .. len => i \in 2 .. len)
        <5> HIDE DEF len
        <5> QED BY <1>1
      <4> QED BY <1>1, <1>6, <2>1, <4>1
    <3> QED BY <3>1
  <2>3. Due(replies' # << >> /\ replies'[1].txn # run.call.txn)
          = Due(replies # << >> /\ replies[1].txn # run.call.txn)
    <3>1. CASE replies = << >>
      <4>1. len = 0
        BY <3>1, EmptySeq
      <4>2. replies'[1] = r
        BY <1>1, <4>1
      <4> QED BY <1>6, <3>1, <4>2 DEF Due
    <3>2. CASE replies # << >>
      <4>1. 1 \in 1 .. len
        BY <3>2, TailOf DEF Typed
      <4> QED BY <1>1, <3>2, <4>1
    <3> QED BY <3>1, <3>2
  <2>4. len + 1 + w1 + p1
          <= run.tries + Due(replies' # << >> /\ replies'[1].txn # run.call.txn)
    BY <2>1, <2>3
  <2> HIDE DEF t
  <2> QED BY <1>1, <1>6, <2>2, <2>4 DEF Counted, Asking
<1> QED BY <1>5, <1>6

-----------------------------------------------------------------------------
(* Commands at the recorder. *)

\* A command that is answered for the first time. The engine's selection may move.
LEMMA Answering ==
  ASSUME RecoveryIInv, engine.on, engine.pending, NEW e \in EngineType, NEW r \in ReplyType,
         e.on = engine.on, e.last = engine.last, e.command = engine.command,
         r.txn = engine.last, Proper(r), Answered(e, r),
         UNCHANGED <<epoch, catalog, source, slot, rows, library, life, run, link, kills>>,
         Chosen /\ engine'.cache = r /\ ~engine'.pending /\ engine'.selected = e.selected
           /\ engine'.last = engine.last => Chosen' /\ Lockstep'
  PROVE  RecoveryIInv'
<1>1. /\ Typed /\ Closed /\ Connected /\ Lockstep /\ run \in RunType /\ slot \in CommandType
      /\ replies \in Seq(ReplyType) /\ link = "open"
  BY DEF RecoveryIInv, Typed, Closed
<1>2. Wired /\ Counted /\ Paced /\ Chosen
  BY <1>1 DEF Connected
<1>3. /\ engine' = [e EXCEPT !.pending = FALSE, !.sending = TRUE, !.cache = r]
      /\ replies' = Append(replies, r)
  BY DEF Answered
<1>4. /\ engine' \in EngineType /\ engine'.on /\ engine'.last = engine.last
      /\ engine'.command = engine.command /\ ~engine'.pending /\ engine'.cache = r
      /\ engine'.selected = e.selected
  BY <1>3 DEF EngineType
<1>5. /\ replies' \in Seq(ReplyType) /\ Len(replies) \in Nat
      /\ Len(replies') = Len(replies) + 1 /\ replies'[Len(replies) + 1] = r
      /\ \A i \in 1 .. Len(replies) : replies'[i] = replies[i]
      /\ \A i \in 1 .. Len(replies) + 1 : i \in 1 .. Len(replies) \/ i = Len(replies) + 1
  BY <1>1, <1>3, AppendOf
<1>6. /\ Asking /\ engine.command = run.call /\ engine.last = run.next - 1
      /\ run.call.txn = run.next - 1 /\ run.next \in Nat /\ run.call.txn > 0
      /\ run.call.txn \in Nat
  BY <1>2, AskedFor DEF Paced
<1>7. \A i \in 1 .. Len(replies) : replies[i].txn # engine.last
  BY <1>2 DEF Paced
<1>8. Wired'
  <2>1. ASSUME NEW i \in 1 .. Len(replies')
        PROVE  /\ replies'[i].txn \in 1 .. run.next - 1
               /\ replies'[i].txn = run.call.txn => Proper(replies'[i])
    <3>1. CASE i \in 1 .. Len(replies)
      BY <1>2, <1>5, <1>6, <3>1 DEF Wired
    <3>2. CASE i = Len(replies) + 1
      <4>1. r.txn \in 1 .. run.next - 1
        BY <1>6
      <4> QED BY <1>5, <3>2, <4>1
    <3> QED BY <1>5, <2>1, <3>1, <3>2
  <2> QED BY <1>2, <2>1 DEF Wired, Asking, Proper
<1>9. Counted'
  <2>1. /\ Due(slot # NoCommand) \in 0 .. 1 /\ Due(engine.pending) \in 0 .. 1
        /\ Due(slot' # NoCommand) \in 0 .. 1 /\ Due(engine'.pending) \in 0 .. 1
        /\ Due(slot' # NoCommand) + Due(engine'.pending) + 1
             = Due(slot # NoCommand) + Due(engine.pending)
    BY <1>4 DEF Due
  <2> QED BY <1>1, <1>2, <1>3, <1>6, <2>1, OneMore
<1>10. Paced'
  <2>1. ASSUME NEW i \in 1 .. Len(replies')
        PROVE  /\ replies'[i].txn <= engine.last
               /\ replies'[i].txn = engine.last => replies'[i] = r
    <3>1. CASE i \in 1 .. Len(replies)
      BY <1>2, <1>5, <1>7, <3>1 DEF Paced
    <3>2. CASE i = Len(replies) + 1
      BY <1>5, <1>6, <3>2
    <3> QED BY <1>5, <2>1, <3>1, <3>2
  <2> QED BY <1>4, <1>6, <2>1 DEF Paced, AnsweredLast, Asking, Proper
<1>11. Chosen' /\ Lockstep'
  BY <1>2, <1>4
<1> QED BY <1>1, <1>4, <1>5, <1>8, <1>9, <1>10, <1>11, RecorderFrame DEF Journal

\* What is being worked on is what the worker waits for.
LEMMA AtWork ==
  ASSUME RecoveryIInv, NEW op \in Calls, Working(op)
  PROVE  /\ engine.on /\ engine.pending /\ Asking /\ run.at = op /\ run.call.op = op
         /\ engine.command = run.call /\ engine.last = run.call.txn /\ engine \in EngineType
         /\ run.call.capture = Request.capture /\ run.call.handle = Request.handle
         /\ run.call.offset = Request.offset /\ Paced /\ Chosen
         /\ Reply \in ReplyType /\ Reply.op = op /\ Reply.txn = engine.last /\ ~Reply.ok
         /\ Ok \in ReplyType /\ Ok.op = op /\ Ok.txn = engine.last /\ Ok.ok
<1>1. /\ engine.on /\ engine.pending /\ engine.command.op = op /\ engine \in EngineType
      /\ Closed /\ Connected /\ Typed
  BY DEF RecoveryIInv, Typed, Working
<1>2. Paced /\ Chosen
  BY <1>1 DEF Closed, Connected
<1>3. Asking /\ engine.command = run.call /\ engine.last = run.next - 1
  BY <1>1, <1>2 DEF Paced
<1>4. /\ run.call.op = run.at /\ run.call.txn = run.next - 1
      /\ run.call.capture = Request.capture /\ run.call.handle = Request.handle
      /\ run.call.offset = Request.offset
  BY <1>3, AskedFor
<1>5. /\ Reply \in ReplyType /\ Reply.op = op /\ Reply.txn = engine.last /\ ~Reply.ok
      /\ Ok \in ReplyType /\ Ok.op = op /\ Ok.txn = engine.last /\ Ok.ok
  <2>1. NoReply \in ReplyType /\ engine.last \in Nat /\ ~NoReply.ok
    BY <1>1, Constants DEF EngineType, NoReply
  <2>2. Reply \in ReplyType /\ Reply.op = op /\ Reply.txn = engine.last /\ ~Reply.ok
    BY <1>1, <2>1 DEF Reply, ReplyType
  <2>3. Ok \in ReplyType /\ Ok.op = op /\ Ok.txn = engine.last /\ Ok.ok
    BY <2>2 DEF Ok, ReplyType
  <2> QED BY <2>2, <2>3
<1> QED BY <1>1, <1>2, <1>3, <1>4, <1>5

\* A refusal is an answer of no consequence.
LEMMA RefusalIsProper ==
  ASSUME RecoveryIInv, NEW op \in Calls \ {"hello"}, Working(op)
  PROVE  Proper(Reply)
<1>1. run.call.op = op /\ Reply.op = op /\ ~Reply.ok
  BY AtWork
<1> QED BY <1>1 DEF Proper

\* Other answers than those of SELECT and READ leave the selection.
LEMMA SameChoice ==
  ASSUME Chosen, Lockstep, run.at \in Calls \ {"select", "read"}, run.call.op = run.at,
         UNCHANGED <<run, link>>, engine.on, engine'.on, engine'.last = engine.last,
         \/ engine'.selected = engine.selected
         \/ /\ engine'.selected = [engine.selected EXCEPT !.finished = TRUE]
            /\ engine.selected.handle # 0
         \/ engine'.selected = NoSelection,
         engine.selected \in SelectionType
  PROVE  Chosen' /\ Lockstep'
<1> DEFINE s == engine.selected
           t == engine'.selected
<1>1. CASE t = NoSelection
  BY <1>1 DEF Chosen, Lockstep, NoSelection, Calls
<1>2. CASE t = s \/ (t = [s EXCEPT !.finished = TRUE] /\ s.handle # 0)
  <2>1. /\ t.handle = s.handle /\ t.capture = s.capture /\ t.version = s.version
        /\ t.next = s.next /\ t.seeked = s.seeked
    BY <1>2 DEF SelectionType
  <2>2. s.handle # 0 \/ t = s
    BY <1>2
  <2>3. Chosen'
    BY <2>1, <2>2 DEF Chosen, Asking, Calls
  <2>4. Lockstep'
    BY <2>1 DEF Lockstep
  <2> QED BY <2>3, <2>4
<1> QED BY <1>1, <1>2

\* The engine answers hello with the size of the catalog.
LEMMA HelloKeeps ==
  ASSUME RecoveryIInv, Hello, UNCHANGED <<rows, library, life, run, link, kills>>
  PROVE  RecoveryIInv'
<1> DEFINE r == [Ok EXCEPT !.count = catalog]
<1>1. /\ Typed /\ Lockstep /\ Working("hello") /\ "hello" \in Calls /\ Answered(engine, r)
      /\ UNCHANGED <<epoch, catalog, source, slot>>
  BY DEF RecoveryIInv, Hello, Calls
<1>2. /\ engine.on /\ engine.pending /\ run.at = "hello" /\ run.call.op = "hello"
      /\ engine \in EngineType /\ Ok \in ReplyType /\ Ok.op = "hello" /\ Ok.txn = engine.last
  BY <1>1, AtWork
<1>3. catalog \in Nat /\ catalog <= Captures
  BY <1>1, TransferAssumption DEF Typed
<1>4. r \in ReplyType /\ r.op = "hello" /\ r.txn = engine.last /\ r.count = catalog
  BY <1>2, <1>3 DEF ReplyType
<1> HIDE DEF r
<1>5. Proper(r)
  BY <1>2, <1>3, <1>4 DEF Proper
<1>6. engine.selected \in SelectionType
  BY <1>2 DEF EngineType
<1>7. ASSUME Chosen, ~engine'.pending, engine'.on, engine'.selected = engine.selected,
             engine'.last = engine.last
      PROVE  Chosen' /\ Lockstep'
  BY <1>1, <1>2, <1>6, <1>7, SameChoice
<1>8. engine'.on
  BY <1>1, <1>2 DEF Answered, EngineType
<1> QED BY <1>1, <1>2, <1>4, <1>5, <1>7, <1>8, Answering

\* The engine answers list with the row, or with none for a source that is at fault.
LEMMA ListKeeps ==
  ASSUME RecoveryIInv, List, UNCHANGED <<rows, library, life, run, link, kills>>
  PROVE  RecoveryIInv'
<1> DEFINE n == IF source[engine.command.capture].fault THEN 0 ELSE 1
           r == [Ok EXCEPT !.count = n]
<1>1. /\ Typed /\ Lockstep /\ Working("list") /\ "list" \in Calls /\ Answered(engine, r)
      /\ UNCHANGED <<epoch, catalog, source, slot>>
  BY DEF RecoveryIInv, List, Calls
<1>2. /\ engine.on /\ engine.pending /\ run.at = "list" /\ run.call.op = "list"
      /\ engine \in EngineType /\ Ok \in ReplyType /\ Ok.op = "list" /\ Ok.txn = engine.last
  BY <1>1, AtWork
<1>3. n \in Nat
  OBVIOUS
<1> HIDE DEF n
<1>4. r \in ReplyType /\ r.op = "list" /\ r.txn = engine.last
  BY <1>2, <1>3 DEF ReplyType
<1> HIDE DEF r
<1>5. Proper(r)
  BY <1>2, <1>4 DEF Proper
<1>6. engine.selected \in SelectionType
  BY <1>2 DEF EngineType
<1>7. ASSUME Chosen, ~engine'.pending, engine'.on, engine'.selected = engine.selected,
             engine'.last = engine.last
      PROVE  Chosen' /\ Lockstep'
  BY <1>1, <1>2, <1>6, <1>7, SameChoice
<1>8. engine'.on
  BY <1>1, <1>2 DEF Answered, EngineType
<1> QED BY <1>1, <1>2, <1>4, <1>5, <1>7, <1>8, Answering

\* The engine selects a source under a new handle, or refuses.
LEMMA SelectKeeps ==
  ASSUME RecoveryIInv, Select, UNCHANGED <<rows, library, life, run, link, kills>>
  PROVE  RecoveryIInv'
<1> DEFINE c == engine.command.capture
           v == source[c].version
           h == engine.handles + 1
           t == [NoSelection EXCEPT !.capture = c, !.handle = h, !.version = v]
           e == [engine EXCEPT !.handles = h, !.selected = t]
           r == [Ok EXCEPT !.handle = h, !.version = v]
<1>1. /\ Typed /\ Placed /\ Lockstep /\ Working("select") /\ "select" \in Calls
      /\ UNCHANGED <<epoch, catalog, source, slot>>
      /\ Answered(Unselected(engine), Reply) \/ Answered(e, r)
  BY DEF RecoveryIInv, PassInv, Select, Calls
<1>2. /\ engine.on /\ engine.pending /\ Asking /\ run.at = "select" /\ run.call.op = "select"
      /\ engine.command = run.call /\ engine \in EngineType
      /\ run.call.capture = Request.capture
      /\ Ok \in ReplyType /\ Ok.op = "select" /\ Ok.txn = engine.last
      /\ Reply \in ReplyType /\ Reply.txn = engine.last /\ ~Reply.ok
  BY <1>1, AtWork
<1>3. c = run.c /\ c \in 1 .. Captures
  BY <1>1, <1>2, AtSource DEF Request, SourcePlaces
<1>4. v \in Versions /\ h \in Nat /\ h # 0
  BY <1>1, <1>2, <1>3 DEF Typed, SourceType, EngineType
<1> HIDE DEF c, v, h
<1>5. NoSelection \in SelectionType /\ ~NoSelection.seeked /\ NoSelection.handle = 0
  BY Constants DEF NoSelection
<1>6. CASE Answered(Unselected(engine), Reply)
  <2>1. /\ Unselected(engine) \in EngineType /\ Unselected(engine).on = engine.on
        /\ Unselected(engine).last = engine.last /\ Unselected(engine).command = engine.command
        /\ Unselected(engine).selected = NoSelection
    BY <1>2, <1>5 DEF Unselected, EngineType
  <2>2. Proper(Reply)
    BY <1>1, RefusalIsProper
  <2>3. ASSUME engine'.selected = NoSelection, engine'.cache = Reply
        PROVE  Chosen' /\ Lockstep'
    BY <1>2, <1>5, <2>3 DEF Chosen, Lockstep
  <2> HIDE DEF c
  <2> QED BY <1>1, <1>2, <1>6, <2>1, <2>2, <2>3, Answering
<1>7. CASE Answered(e, r)
  <2>1. /\ t \in SelectionType /\ t.capture = c /\ t.handle = h /\ t.version = v /\ ~t.seeked
    <3>1. c \in 0 .. Captures
      BY <1>3, TransferAssumption
    <3> QED BY <1>4, <1>5, <3>1 DEF SelectionType
  <2> HIDE DEF t
  <2>2. /\ e \in EngineType /\ e.on = engine.on /\ e.last = engine.last
        /\ e.command = engine.command /\ e.selected = t
    BY <1>2, <1>4, <2>1 DEF EngineType
  <2>3. /\ r \in ReplyType /\ r.op = "select" /\ r.txn = engine.last
        /\ r.handle = h /\ r.version = v
    BY <1>2, <1>4 DEF ReplyType
  <2> HIDE DEF e, r
  <2>4. Proper(r)
    BY <1>2, <1>4, <2>3 DEF Proper
  <2>5. ASSUME engine'.selected = t, engine'.cache = r
        PROVE  Chosen' /\ Lockstep'
    BY <1>1, <1>2, <1>3, <1>4, <2>1, <2>3, <2>5 DEF Chosen, Lockstep
  <2> QED BY <1>1, <1>2, <1>7, <2>2, <2>3, <2>4, <2>5, Answering
<1> QED BY <1>1, <1>6, <1>7

\* A READ is answered from where the phone is, and within the export.
LEMMA ReadKeeps ==
  ASSUME RecoveryIInv, Read, UNCHANGED <<rows, library, life, run, link, kills>>
  PROVE  RecoveryIInv'
<1> DEFINE s == engine.selected
           o == engine.command.offset
<1>1. /\ Typed /\ Placed /\ Held /\ Lockstep /\ Working("read") /\ "read" \in Calls
      /\ UNCHANGED <<epoch, catalog, source, slot>> /\ run \in RunType
  BY DEF RecoveryIInv, Typed, PassInv, Read, Calls
<1>2. /\ engine.on /\ engine.pending /\ Asking /\ run.at = "read" /\ run.call.op = "read"
      /\ engine.command = run.call /\ engine.last = run.call.txn /\ engine \in EngineType
      /\ run.call.handle = Request.handle /\ run.call.offset = Request.offset
      /\ Chosen
      /\ Ok \in ReplyType /\ Ok.op = "read" /\ Ok.txn = engine.last /\ Ok.ok
      /\ Reply \in ReplyType /\ Reply.txn = engine.last /\ ~Reply.ok
  BY <1>1, AtWork
<1>3. o = run.received /\ run.received \in Nat /\ run.data = 0
  BY <1>1, <1>2 DEF Request, RunType, Held
<1>4. NoSelection \in SelectionType /\ ~NoSelection.seeked /\ NoSelection.handle = 0
  BY Constants DEF NoSelection
<1>5. s \in SelectionType
  BY <1>2 DEF EngineType
<1>6. Proper(Reply)
  BY <1>1, RefusalIsProper
<1>7. CASE Answered(engine, Reply)
  <2>1. ASSUME engine'.selected = s, engine'.cache = Reply, engine'.last = engine.last,
               engine'.on
        PROVE  Chosen' /\ Lockstep'
    <3>1. Chosen'
      BY <1>2, <2>1 DEF Chosen, Asking
    <3>2. Lockstep'
      BY <1>1, <1>2, <2>1 DEF Lockstep
    <3> QED BY <3>1, <3>2
  <2>2. engine'.on
    BY <1>2, <1>7 DEF Answered, EngineType
  <2> HIDE DEF o
  <2> QED BY <1>1, <1>2, <1>6, <1>7, <2>1, <2>2, Answering
<1>8. CASE Answered(Unselected(engine), Reply)
  <2>1. /\ Unselected(engine) \in EngineType /\ Unselected(engine).on = engine.on
        /\ Unselected(engine).last = engine.last /\ Unselected(engine).command = engine.command
        /\ Unselected(engine).selected = NoSelection
    BY <1>2, <1>4 DEF Unselected, EngineType
  <2>2. ASSUME engine'.selected = NoSelection, engine'.cache = Reply
        PROVE  Chosen' /\ Lockstep'
    BY <1>2, <1>4, <2>2 DEF Chosen, Lockstep
  <2> QED BY <1>1, <1>2, <1>6, <1>8, <2>1, <2>2, Answering
<1>9. ASSUME Matching, NEW n \in 0 .. Chunk, n <= Size(s.version) - o,
             n = 0 <=> o = Size(s.version),
             Answered([engine EXCEPT !.selected.next = o + n, !.selected.seeked = TRUE,
                                     !.selected.finished = (n = 0)],
                      [Ok EXCEPT !.handle = s.handle, !.offset = o, !.count = n])
      PROVE  RecoveryIInv'
  <2> DEFINE t == [s EXCEPT !.next = o + n, !.seeked = TRUE, !.finished = (n = 0)]
             e == [engine EXCEPT !.selected = t]
             r == [Ok EXCEPT !.handle = s.handle, !.offset = o, !.count = n]
  <2>1. Answered(e, r)
    <3>1. e = [engine EXCEPT !.selected.next = o + n, !.selected.seeked = TRUE,
                             !.selected.finished = (n = 0)]
      BY <1>2, <1>5 DEF EngineType, SelectionType
    <3> QED BY <1>9, <3>1
  <2>2. n \in Nat /\ o + n \in Nat /\ o \in Nat
    BY <1>3, <1>9, TransferAssumption
  <2>3. /\ s.handle # 0 /\ s.handle = run.handle /\ s.version = run.pins[run.c]
        /\ s.capture = run.c
    BY <1>2, <1>9 DEF Matching, Chosen
  <2>4. /\ t \in SelectionType /\ t.capture = s.capture /\ t.handle = s.handle
        /\ t.version = s.version /\ t.next = o + n /\ t.seeked
    BY <1>5, <2>2 DEF SelectionType
  <2> HIDE DEF t
  <2>5. /\ e \in EngineType /\ e.on = engine.on /\ e.last = engine.last
        /\ e.command = engine.command /\ e.selected = t
    BY <1>2, <2>4 DEF EngineType
  <2>6. /\ r \in ReplyType /\ r.op = "read" /\ r.txn = engine.last /\ r.ok /\ r.count = n
    <3>1. s.handle \in Nat
      BY <1>5 DEF SelectionType
    <3> QED BY <1>2, <2>2, <3>1 DEF ReplyType
  <2> HIDE DEF e, r
  <2>7. Proper(r)
    <3>1. run.key[2] = s.version /\ run.key[2] \in Versions
      BY <1>1, <1>2, <2>3 DEF Held
    <3>2. Size(s.version) \in Nat
      BY <3>1, SizeIsLast
    <3>3. run.received + n <= Size(run.key[2]) /\ (n = 0 <=> run.received = Size(run.key[2]))
      BY <1>3, <1>9, <2>2, <3>1, <3>2
    <3> QED BY <1>2, <2>6, <3>3 DEF Proper
  <2>8. ASSUME engine'.selected = t, engine'.cache = r, ~engine'.pending,
               engine'.last = engine.last
        PROVE  Chosen' /\ Lockstep'
    <3>1. Chosen'
      BY <1>2, <2>3, <2>4, <2>8 DEF Chosen
    <3>2. run.received + run.data + n = o + n
      BY <1>3, <2>2
    <3>3. Lockstep'
      BY <1>2, <2>4, <2>6, <2>8, <3>2 DEF Lockstep
    <3> QED BY <3>1, <3>3
  <2> HIDE DEF o
  <2> QED BY <1>1, <1>2, <2>1, <2>5, <2>6, <2>7, <2>8, Answering
<1> QED BY <1>7, <1>8, <1>9 DEF Read, Seeks

\* The engine finishes the source at its end, and only there.
LEMMA FinishKeeps ==
  ASSUME RecoveryIInv, Finish, UNCHANGED <<rows, library, life, run, link, kills>>
  PROVE  RecoveryIInv'
<1> DEFINE s == engine.selected
           t == [s EXCEPT !.finished = TRUE]
           e == [engine EXCEPT !.selected = t]
           r == [Ok EXCEPT !.handle = s.handle, !.version = s.version,
                           !.offset = Size(s.version)]
<1>1. /\ Typed /\ Lockstep /\ Working("finish") /\ "finish" \in Calls
      /\ UNCHANGED <<epoch, catalog, source, slot>>
  BY DEF RecoveryIInv, Finish, Calls
<1>2. /\ engine.on /\ engine.pending /\ run.at = "finish" /\ run.call.op = "finish"
      /\ engine \in EngineType /\ Chosen
      /\ Ok \in ReplyType /\ Ok.op = "finish" /\ Ok.txn = engine.last
      /\ Reply \in ReplyType /\ Reply.txn = engine.last
  BY <1>1, AtWork
<1>3. s \in SelectionType /\ NoSelection \in SelectionType
  BY <1>2, Constants DEF EngineType
<1>4. Proper(Reply)
  BY <1>1, RefusalIsProper
<1>5. ASSUME NEW x \in {engine, Unselected(engine)}, Answered(x, Reply)
      PROVE  RecoveryIInv'
  <2>1. /\ x \in EngineType /\ x.on = engine.on /\ x.last = engine.last
        /\ x.command = engine.command /\ x.selected \in {s, NoSelection}
    BY <1>2, <1>3 DEF Unselected, EngineType
  <2>2. engine'.on
    BY <1>2, <1>5, <2>1 DEF Answered, EngineType
  <2>3. ASSUME engine'.selected = x.selected, engine'.last = engine.last
        PROVE  Chosen' /\ Lockstep'
    BY <1>1, <1>2, <1>3, <2>1, <2>2, <2>3, SameChoice
  <2> QED BY <1>1, <1>2, <1>4, <1>5, <2>1, <2>3, Answering
<1>6. ASSUME Matching, Answered(e, r)
      PROVE  RecoveryIInv'
  <2>1. s.handle # 0
    BY <1>6 DEF Matching
  <2>2. /\ t \in SelectionType
    BY <1>3 DEF SelectionType
  <2>3. /\ e \in EngineType /\ e.on = engine.on /\ e.last = engine.last
        /\ e.command = engine.command /\ e.selected = t
    <3> HIDE DEF t
    <3> QED BY <1>2, <2>2 DEF EngineType
  <2>4. r \in ReplyType /\ r.op = "finish" /\ r.txn = engine.last
    <3>1. s.handle \in Nat /\ s.version \in Versions
      BY <1>2, <1>3, <2>1 DEF SelectionType, Chosen
    <3>2. Size(s.version) \in Nat
      BY <3>1, SizeIsLast
    <3> QED BY <1>2, <3>1, <3>2 DEF ReplyType
  <2>5. Proper(r)
    <3> HIDE DEF r
    <3> QED BY <1>2, <2>4 DEF Proper
  <2>6. engine'.on
    <3> HIDE DEF e, r
    <3> QED BY <1>2, <1>6, <2>3 DEF Answered, EngineType
  <2>7. ASSUME engine'.selected = t, engine'.last = engine.last
        PROVE  Chosen' /\ Lockstep'
    BY <1>1, <1>2, <1>3, <2>1, <2>6, <2>7, SameChoice
  <2> HIDE DEF t, e, r
  <2> QED BY <1>1, <1>2, <1>6, <2>3, <2>4, <2>5, <2>7, Answering
<1>7. e = [engine EXCEPT !.selected.finished = TRUE]
  BY <1>2, <1>3 DEF EngineType, SelectionType
<1> QED BY <1>5, <1>6, <1>7 DEF Finish

\* A command arrives: it joins, has its answer sent again, or is worked on anew.
LEMMA ReceiveKeeps ==
  ASSUME RecoveryIInv, Receive, UNCHANGED <<rows, library, life, run, link, kills>>
  PROVE  RecoveryIInv'
<1>1. /\ Typed /\ Closed /\ Connected /\ Lockstep /\ run \in RunType /\ engine \in EngineType
      /\ slot \in CommandType /\ replies \in Seq(ReplyType) /\ engine.on /\ link = "open"
      /\ slot # NoCommand /\ slot' = NoCommand /\ Journal
  BY DEF RecoveryIInv, Typed, Closed, Receive, Journal
<1>2. Wired /\ Counted /\ Paced /\ Chosen
  BY <1>1 DEF Connected
<1>3. /\ slot.txn = run.next - 1 /\ run.next > 1 /\ run.next \in Nat
      /\ Asking => slot = run.call
  <2>1. run.next \in Nat
    BY <1>1, RecoveryAssumption DEF RunType
  <2> QED BY <1>1, <1>2, <2>1 DEF Wired
<1>4. slot' \in CommandType
  BY <1>1, Constants
<1>5. CASE engine' = SessionEnd(engine) /\ UNCHANGED replies
  BY <1>1, <1>5, SessionEndKeeps
<1>6. CASE Joins(slot) /\ engine' = engine /\ UNCHANGED replies
  <2>1. Wired'
    BY <1>1, <1>2, <1>6 DEF Wired, Asking, Proper
  <2>2. Counted'
    <3>1. /\ Due(slot # NoCommand) = 1 /\ Due(slot' # NoCommand) = 0
          /\ Due(engine.pending) \in 0 .. 1 /\ Due(engine'.pending) = Due(engine.pending)
          /\ 0 + Due(engine.pending) <= 1 + Due(engine.pending)
      BY <1>1, <1>6 DEF Due
    <3>2. 1 \in 0 .. 1 /\ 0 \in 0 .. 1
      OBVIOUS
    <3> QED BY <1>1, <1>2, <1>6, <3>1, <3>2, NoMore
  <2>3. Paced'
    <3>1. engine.last = run.next - 1
      BY <1>3, <1>6 DEF Joins
    <3> QED BY <1>2, <1>3, <1>6, <3>1 DEF Paced, AnsweredLast, Asking, Proper
  <2>4. Chosen' /\ Lockstep'
    BY <1>1, <1>2, <1>6 DEF Chosen, Lockstep, Asking
  <2> QED BY <1>1, <1>4, <1>6, <2>1, <2>2, <2>3, <2>4, RecorderFrame DEF Closed
<1>7. CASE /\ Joins(slot) /\ ~engine.pending
           /\ engine' = [engine EXCEPT !.sending = TRUE]
           /\ replies' = Append(replies, engine.cache)
  <2> DEFINE r == engine.cache
  <2>1. /\ engine' \in EngineType /\ engine'.on = engine.on /\ engine'.last = engine.last
        /\ engine'.command = engine.command /\ engine'.pending = engine.pending
        /\ engine'.cache = engine.cache /\ engine'.selected = engine.selected
    BY <1>1, <1>7 DEF EngineType
  <2>2. engine.last = run.next - 1 /\ engine.last # 0 /\ r \in ReplyType
    BY <1>1, <1>3, <1>7 DEF Joins, EngineType
  <2>3. r.txn = engine.last /\ (Asking /\ engine.last = run.call.txn => Proper(r))
    BY <1>2, <1>1, <1>7, <2>2 DEF Paced, AnsweredLast
  <2> HIDE DEF r
  <2>4. /\ replies' \in Seq(ReplyType) /\ Len(replies) \in Nat
        /\ Len(replies') = Len(replies) + 1 /\ replies'[Len(replies) + 1] = r
        /\ \A i \in 1 .. Len(replies) : replies'[i] = replies[i]
        /\ \A i \in 1 .. Len(replies) + 1 : i \in 1 .. Len(replies) \/ i = Len(replies) + 1
    BY <1>1, <1>7, <2>2, AppendOf DEF r
  <2>5. Wired'
    <3>1. ASSUME NEW i \in 1 .. Len(replies')
          PROVE  /\ replies'[i].txn \in 1 .. run.next - 1
                 /\ Asking /\ replies'[i].txn = run.call.txn => Proper(replies'[i])
      <4>1. CASE i \in 1 .. Len(replies)
        BY <1>2, <2>4, <4>1 DEF Wired
      <4>2. CASE i = Len(replies) + 1
        <5>1. r.txn \in 1 .. run.next - 1
          BY <1>3, <2>2, <2>3
        <5> QED BY <2>3, <2>4, <4>2, <5>1
      <4> QED BY <2>4, <3>1, <4>1, <4>2
    <3> QED BY <1>1, <3>1 DEF Wired, Asking, Proper
  <2>6. Counted'
    <3>1. /\ Due(slot # NoCommand) = 1 /\ Due(slot' # NoCommand) = 0
          /\ Due(engine.pending) = 0 /\ Due(engine'.pending) = 0
      BY <1>1, <1>7, <2>1 DEF Due
    <3>2. 1 \in 0 .. 1 /\ 0 \in 0 .. 1 /\ 0 + 0 + 1 = 1 + 0
      OBVIOUS
    <3>3. Asking => r.txn = run.call.txn
      BY <1>3, <2>2, <2>3
    <3>4. replies' = Append(replies, r)
      BY <1>7 DEF r
    <3> QED BY <1>1, <1>2, <2>2, <3>1, <3>2, <3>3, <3>4, OneMore
  <2>7. Paced'
    <3>1. ASSUME NEW i \in 1 .. Len(replies')
          PROVE  /\ replies'[i].txn <= engine.last
                 /\ replies'[i].txn = engine.last => replies'[i] = r
      <4>1. CASE i \in 1 .. Len(replies)
        BY <1>1, <1>2, <2>4, <4>1 DEF Paced, r
      <4>2. CASE i = Len(replies) + 1
        BY <1>3, <2>2, <2>3, <2>4, <4>2
      <4> QED BY <2>4, <3>1, <4>1, <4>2
    <3>2. engine.last = run.next - 2 => FALSE
      BY <1>3, <2>2
    <3> QED BY <1>1, <1>2, <1>7, <2>1, <2>2, <2>3, <3>1, <3>2
            DEF Paced, AnsweredLast, Asking, Proper, r
  <2>8. Chosen' /\ Lockstep'
    BY <1>1, <1>2, <2>1 DEF Chosen, Lockstep, Asking
  <2> QED BY <1>1, <1>4, <2>1, <2>4, <2>5, <2>6, <2>7, <2>8, RecorderFrame
<1>8. CASE /\ ~Joins(slot) /\ slot.txn > engine.last /\ ~engine.pending
           /\ engine' = SubmitsAnew(engine, slot) /\ UNCHANGED replies
  <2>1. /\ engine' \in EngineType /\ engine'.on = engine.on /\ engine'.last = slot.txn
        /\ engine'.command = slot /\ engine'.pending /\ engine'.selected = engine.selected
    BY <1>1, <1>8, Constants DEF SubmitsAnew, EngineType, CommandType
  <2>2. Asking /\ slot = run.call /\ engine.last = run.next - 2 /\ engine.last \in Nat
    <3>1. engine.last \in Nat
      BY <1>1 DEF EngineType
    <3>2. engine.last # run.next - 1
      BY <1>3, <1>8, <3>1
    <3> QED BY <1>1, <1>2, <3>1, <3>2 DEF Paced
  <2>3. engine.last # run.call.txn /\ engine'.last = run.next - 1
    BY <1>3, <2>1, <2>2
  <2>4. Wired'
    BY <1>1, <1>2, <1>8 DEF Wired, Asking, Proper
  <2>5. Counted'
    <3>1. /\ Due(slot # NoCommand) = 1 /\ Due(slot' # NoCommand) = 0
          /\ Due(engine.pending) = 0 /\ Due(engine'.pending) = 1
      BY <1>1, <1>8, <2>1 DEF Due
    <3>2. 1 \in 0 .. 1 /\ 0 \in 0 .. 1 /\ 0 + 1 <= 1 + 0
      OBVIOUS
    <3> QED BY <1>1, <1>2, <1>8, <3>1, <3>2, NoMore
  <2>6. Paced'
    <3>1. ASSUME NEW i \in 1 .. Len(replies)
          PROVE  replies[i].txn <= engine'.last /\ replies[i].txn # engine'.last
      <4>1. replies[i].txn <= engine.last /\ replies[i].txn \in 1 .. run.next - 1
        BY <1>1, <1>2 DEF Paced, Wired
      <4> QED BY <1>3, <2>2, <2>3, <4>1
    <3> QED BY <1>1, <1>8, <2>1, <2>2, <2>3, <3>1 DEF Paced, AnsweredLast, Asking
  <2>7. Chosen'
    BY <1>1, <1>2, <2>1 DEF Chosen, Asking
  <2>8. Lockstep'
    BY <1>1, <2>1, <2>3 DEF Lockstep
  <2> QED BY <1>1, <1>4, <1>8, <2>1, <2>4, <2>5, <2>6, <2>7, <2>8, RecorderFrame
<1>9. \/ /\ ~(Joins(slot) /\ ~engine.pending /\ ~engine.sending)
         /\ engine' = Submits(engine, slot) /\ UNCHANGED replies
         /\ Joins(slot) \/ (slot.txn > engine.last /\ ~engine.pending)
      \/ /\ Joins(slot) /\ ~engine.pending /\ engine' = [engine EXCEPT !.sending = TRUE]
         /\ replies' = Append(replies, engine.cache)
      \/ engine' = SessionEnd(engine) /\ UNCHANGED replies
  BY DEF Receive
<1>10. CASE engine' = Submits(engine, slot) /\ UNCHANGED replies
              /\ (Joins(slot) \/ (slot.txn > engine.last /\ ~engine.pending))
  <2>1. CASE Joins(slot)
    BY <1>6, <1>10, <2>1 DEF Submits
  <2>2. CASE ~Joins(slot)
    BY <1>8, <1>10, <2>2 DEF Submits, SubmitsAnew
  <2> QED BY <2>1, <2>2
<1> QED BY <1>5, <1>7, <1>9, <1>10

\* The journal moves under the engine, which finds out later.
LEMMA OwnerKeeps ==
  ASSUME RecoveryIInv, Owner
  PROVE  RecoveryIInv'
<1>1. /\ Typed /\ PassInv /\ Closed /\ Connected /\ Lockstep
      /\ UNCHANGED <<engine, slot, replies, rows, library, life, run, link, kills>>
  BY DEF RecoveryIInv, Owner, Record, Remount, MediaFault
<1>2. epoch' \in Nat /\ catalog' \in 1 .. Captures /\ source' \in SourceType
  <2>1. CASE Record
    BY <1>1, <2>1 DEF Typed, Record
  <2>2. ASSUME NEW c \in 1 .. catalog, Remount(c)
        PROVE  epoch' \in Nat /\ catalog' \in 1 .. Captures /\ source' \in SourceType
    <3>1. PICK v \in Versions : source' = [source EXCEPT ![c].version = v]
      BY <2>2 DEF Remount
    <3>2. source' \in SourceType
      BY <1>1, <3>1 DEF Typed, SourceType
    <3> QED BY <1>1, <2>2, <3>2 DEF Typed, Remount
  <2>3. ASSUME NEW c \in 1 .. catalog, MediaFault(c)
        PROVE  epoch' \in Nat /\ catalog' \in 1 .. Captures /\ source' \in SourceType
    <3>1. source' \in SourceType
      BY <1>1, <2>3 DEF Typed, SourceType, MediaFault
    <3> QED BY <1>1, <2>3, <3>1 DEF Typed, MediaFault
  <2> QED BY <2>1, <2>2, <2>3 DEF Owner
<1>3. Typed'
  BY <1>1, <1>2 DEF Typed
<1>4. Asked' /\ Placed' /\ Held' /\ Kept' /\ Shown'
  BY <1>1, SamePlace, SameClaims DEF PassInv, Shown
<1>5. Closed' /\ Connected' /\ Lockstep'
  BY <1>1, SameConnection
<1> QED BY <1>3, <1>4, <1>5 DEF RecoveryIInv, PassInv

-----------------------------------------------------------------------------
(* The invariant, and what follows. *)

\* The invariant holds of a phone that saved nothing and a recorder that was just started.
LEMMA RecoveryInit ==
  ASSUME Init
  PROVE  RecoveryIInv
<1>1. /\ run = NoRun /\ life = NoLife /\ link = "none" /\ kills = 0 /\ library = {}
      /\ rows = [k \in Keys |-> [at |-> 0, finished |-> FALSE]]
      /\ epoch = 1 /\ catalog \in 1 .. Captures /\ engine = NoEngine /\ slot = NoCommand
      /\ replies = << >>
      /\ source = [c \in 1 .. Captures |-> [version |-> 1, fault |-> FALSE]]
  BY DEF Init, TransferInit
<1>2. Typed
  <2>1. source \in SourceType
    BY <1>1, TransferAssumption DEF SourceType
  <2>2. rows \in [Keys -> RowType]
    BY <1>1 DEF RowType
  <2>3. replies \in Seq(ReplyType) /\ kills \in 0 .. MaxKills /\ epoch \in Nat
    BY <1>1, RecoveryAssumption
  <2> QED BY <1>1, <2>1, <2>2, <2>3, Constants DEF Typed
<1>3. /\ run.at = "idle" /\ run.call = NoCommand /\ run.goal = "catalog" /\ run.data = 0
      /\ run.preserved = {} /\ run.ready = {}
  BY <1>1 DEF NoRun
<1>4. Asked /\ Placed /\ Held
  BY <1>1, <1>3 DEF Asked, Asking, Placed, Held, Calls
<1>5. Kept
  <2>1. SavedIsWhole
    <3>1. \A k \in Keys : 0 \in Boundaries[k[2]]
      BY TransferAssumption DEF Keys
    <3> QED BY <1>1, <3>1 DEF SavedIsWhole
  <2>2. \A c : ~Tried(c)
    BY <1>3 DEF Tried
  <2> QED BY <1>3, <2>1, <2>2 DEF Kept
<1>6. Shown
  BY <1>1, <1>3 DEF Shown, ClaimsHold, NoLife, NoStatus
<1>7. Closed /\ Connected /\ Lockstep
  BY <1>1 DEF Closed, Connected, Lockstep, NoEngine
<1> QED BY <1>2, <1>4, <1>5, <1>6, <1>7 DEF RecoveryIInv, PassInv

\* Every step of either side keeps the invariant.
LEMMA RecoveryStep ==
  ASSUME RecoveryIInv, [Next]_vars
  PROVE  RecoveryIInv'
<1>1. CASE UNCHANGED vars
  <2>1. /\ Typed /\ PassInv /\ Closed /\ Connected /\ Lockstep
        /\ UNCHANGED <<engine, slot, replies, rows, library, life, run, link, kills>>
        /\ UNCHANGED <<epoch, catalog, source>>
    BY <1>1 DEF RecoveryIInv, vars, transferVars
  <2>2. Typed'
    BY <2>1 DEF Typed
  <2>3. Asked' /\ Placed' /\ Held' /\ Kept' /\ Shown'
    BY <2>1, SamePlace, SameClaims DEF PassInv, Shown
  <2>4. Closed' /\ Connected' /\ Lockstep'
    BY <2>1, SameConnection
  <2> QED BY <2>2, <2>3, <2>4 DEF RecoveryIInv, PassInv
<1>2. CASE Lifecycle
  BY <1>2, SetForegroundKeeps, RetryKeeps, StopKeeps, KillKeeps DEF Lifecycle
<1>3. CASE Begin
  BY <1>3, BeginKeeps
<1>4. CASE Worker
  BY <1>4, UnwindKeeps, ConnectKeeps, ExchangeKeeps, ConnectionLostKeeps, RolloverKeeps,
     HelloAnsweredKeeps, ListAnsweredKeeps, SkipUnusableKeeps, NextSourceKeeps, PassDoneKeeps,
     SelectAnsweredKeeps, OpenKeeps, ReadAnsweredKeeps, AppendKeeps, FinishAnsweredKeeps,
     SealKeeps, ImportKeeps DEF Worker
<1>5. CASE Resend \/ Stray \/ LinkDrops
  BY <1>5, ResendKeeps, StrayKeeps, LinkDropsKeeps
<1>6. CASE Recorder
  BY <1>6, ReceiveKeeps, ConfirmKeeps, HelloKeeps, ListKeeps, SelectKeeps, ReadKeeps,
     FinishKeeps, SourceChangedKeeps DEF Recorder
<1>7. CASE Owner
  BY <1>7, OwnerKeeps
<1> QED BY <1>1, <1>2, <1>3, <1>4, <1>5, <1>6, <1>7 DEF Next

\* Both programs keep the invariant, whatever drops, repeats and fails.
THEOREM RecoveryInductive == Spec => []RecoveryIInv
<1>1. Init => RecoveryIInv
  BY RecoveryInit
<1>2. RecoveryIInv /\ [Next]_vars => RecoveryIInv'
  BY RecoveryStep
<1> QED BY <1>1, <1>2, PTL DEF Spec

\* No more than three answers are on their way at any time.
LEMMA FewAnswers ==
  ASSUME RecoveryIInv
  PROVE  Len(replies) <= 3
<1>1. Typed /\ Closed /\ Connected /\ run \in RunType
  BY DEF RecoveryIInv, Typed
<1>2. CASE link # "open"
  <2>1. Len(replies) = 0
    BY <1>1, <1>2, EmptySeq DEF Closed
  <2> QED BY <2>1
<1>3. CASE link = "open"
  <2> DEFINE len == Len(replies)
             w == Due(slot # NoCommand)
             p == Due(engine.pending)
             d == Due(replies # << >> /\ replies[1].txn # run.call.txn)
  <2>1. len \in Nat /\ w \in 0 .. 1 /\ p \in 0 .. 1 /\ d \in 0 .. 1
    BY <1>1 DEF Typed, Due
  <2>2. run.tries \in 0 .. 2
    BY <1>1, Tries
  <2>3. len + w + p <= 1 \/ len + w + p <= run.tries + d
    BY <1>1, <1>3 DEF Connected, Counted
  <2> HIDE DEF len, w, p, d
  <2>4. len <= 3
    BY <2>1, <2>2, <2>3
  <2> QED BY <2>4 DEF len
<1> QED BY <1>2, <1>3

\* RecoveryInv, of any catalog, chunk and transaction limit: what is saved is
\* whole, of one version in a pass, and the wire holds a few answers at most.
THEOREM RecoveryIsSound == Spec => []RecoveryInv
<1>1. RecoveryIInv => RecoveryInv
  <2> SUFFICES ASSUME RecoveryIInv  PROVE  RecoveryInv
    OBVIOUS
  <2>1. Typed /\ Kept /\ Shown /\ run \in RunType /\ life \in LifeType /\ engine \in EngineType
    BY DEF RecoveryIInv, PassInv, Typed
  <2>2. SavedIsWhole
    BY <2>1 DEF Kept
  <2>3. OneVersion
    <3>1. run.preserved \subseteq Keys
      BY <2>1 DEF RunType
    <3>2. \A k \in run.preserved : k = <<k[1], run.pins[k[1]]>>
      BY <2>1, <3>1 DEF Kept, Keys
    <3> QED BY <3>2 DEF OneVersion
  <2>4. TypeOK
    <3>1. \A k \in Keys : rows[k].at \in 0 .. Size(k[2]) /\ rows[k].finished \in BOOLEAN
      <4>1. ASSUME NEW k \in Keys
            PROVE  rows[k].at \in 0 .. Size(k[2]) /\ rows[k].finished \in BOOLEAN
        <5>1. k[2] \in Versions /\ rows[k] \in RowType /\ rows[k].at \in Boundaries[k[2]]
          BY <2>1, <2>2 DEF Typed, SavedIsWhole, Keys
        <5>2. rows[k].at <= Size(k[2]) /\ Size(k[2]) \in Nat
          BY <5>1, SizeIsLast
        <5> QED BY <5>1, <5>2 DEF RowType
      <4> QED BY <4>1
    <3>2. life.running = (run.at # "idle") /\ life.shown.phase \in Phases
      BY <2>1 DEF Shown, LifeType, StatusType
    <3>3. /\ run.at \in Calls \cup {"idle", "connect", "next", "open", "store", "seal", "import"}
          /\ run.next \in 1 .. TxnLimit + 1 /\ run.losses \in 0 .. Retries
      BY <2>1 DEF RunType, Places
    <3>4. engine.selected.next \in Nat
      BY <2>1 DEF EngineType, SelectionType
    <3> QED BY <2>1, <3>1, <3>2, <3>3, <3>4, FewAnswers DEF TypeOK, Typed
  <2> QED BY <2>2, <2>3, <2>4 DEF RecoveryInv
<1> QED BY <1>1, RecoveryInductive, PTL

\* ClaimsHold: what the phone shows of a source, or of a pass, is true of its database.
THEOREM ClaimsAreTrue == Spec => []ClaimsHold
<1>1. RecoveryIInv => ClaimsHold
  BY DEF RecoveryIInv, PassInv, Shown
<1> QED BY <1>1, RecoveryInductive, PTL

\* Lockstep: what a selection has delivered is what the phone received of it, and
\* the one answer that is still on its way.
THEOREM DeliveryInLockstep == Spec => []Lockstep
<1>1. RecoveryIInv => Lockstep
  BY DEF RecoveryIInv
<1> QED BY <1>1, RecoveryInductive, PTL

-----------------------------------------------------------------------------
(* What no step does. *)

RowsGrow == \A k \in Keys : /\ rows'[k].at >= rows[k].at
                            /\ rows[k].finished => rows'[k].finished

\* A step that writes a row moves it on: only the append and the seal write any.
LEMMA RowsStep ==
  ASSUME RecoveryIInv, Next
  PROVE  RowsGrow \/ UNCHANGED rows
<1>1. rows \in [Keys -> RowType] /\ \A k \in Keys : rows[k].at \in Nat
  BY DEF RecoveryIInv, Typed, RowType
<1>2. ASSUME Append_  PROVE  RowsGrow \/ UNCHANGED rows
  <2> DEFINE w == Whole(run.key[2], run.received + run.data)
  <2>1. run.at = "store" /\ run \in RunType
    BY <1>2 DEF Append_, RecoveryIInv, Typed
  <2>2. run.key \in Keys /\ w \in Nat /\ w >= rows[run.key].at
    BY <2>1, AtSource, StoreMoves DEF SourcePlaces
  <2> HIDE DEF w
  <2>3. rows' = rows \/ rows' = [rows EXCEPT ![run.key] = [rows[run.key] EXCEPT !.at = w]]
    BY <1>1, <1>2, <2>1, <2>2 DEF Append_, RunType, RowType, w
  <2>4. CASE rows' = [rows EXCEPT ![run.key] = [rows[run.key] EXCEPT !.at = w]]
    <3>1. rows'[run.key] = [rows[run.key] EXCEPT !.at = w] /\ rows[run.key] \in RowType
            /\ \A k \in Keys : k # run.key => rows'[k] = rows[k]
      BY <1>1, <2>2, <2>4
    <3>2. rows'[run.key].at = w /\ rows'[run.key].finished = rows[run.key].finished
      BY <3>1 DEF RowType
    <3>3. ASSUME NEW k \in Keys
          PROVE  rows'[k].at >= rows[k].at /\ (rows[k].finished => rows'[k].finished)
      <4>1. CASE k = run.key
        BY <2>2, <3>2, <4>1
      <4>2. CASE k # run.key
        <5>1. rows'[k] = rows[k] /\ rows[k].at \in Nat
          BY <1>1, <3>1, <4>2
        <5> QED BY <5>1
      <4> QED BY <4>1, <4>2
    <3> QED BY <3>3 DEF RowsGrow
  <2> QED BY <2>3, <2>4
<1>3. ASSUME Seal  PROVE  RowsGrow \/ UNCHANGED rows
  <2>1. run.key \in Keys
    BY <1>3, AtSource DEF Seal, SourcePlaces
  <2>2. rows' = rows \/ rows' = [rows EXCEPT ![run.key] = [rows[run.key] EXCEPT !.finished = TRUE]]
    BY <1>1, <1>3, <2>1 DEF Seal, Completes, RowType
  <2>3. CASE rows' = [rows EXCEPT ![run.key] = [rows[run.key] EXCEPT !.finished = TRUE]]
    <3>1. rows'[run.key] = [rows[run.key] EXCEPT !.finished = TRUE] /\ rows[run.key] \in RowType
            /\ \A k \in Keys : k # run.key => rows'[k] = rows[k]
      BY <1>1, <2>1, <2>3
    <3>2. rows'[run.key].at = rows[run.key].at /\ rows'[run.key].finished
      BY <3>1 DEF RowType
    <3>3. ASSUME NEW k \in Keys
          PROVE  rows'[k].at >= rows[k].at /\ (rows[k].finished => rows'[k].finished)
      <4>1. rows[k].at \in Nat /\ (k # run.key => rows'[k] = rows[k])
        BY <1>1, <3>1
      <4> QED BY <3>2, <4>1
    <3> QED BY <3>3 DEF RowsGrow
  <2> QED BY <2>2, <2>3
<1>4. CASE Lifecycle \/ Begin \/ Resend \/ Stray \/ LinkDrops \/ Recorder \/ Owner
  BY <1>4 DEF Lifecycle, SetForeground, Retry, Stop, Kill, Begin, Resend, Stray, LinkDrops,
              Recorder, Owner, Stored
<1>5. CASE Worker /\ ~Append_ /\ ~Seal
  BY <1>5 DEF Worker, Unwind, Connect, Exchange, ConnectionLost, Rollover, HelloAnswered,
              ListAnswered, SkipUnusable, NextSource, PassDone, SelectAnswered, Open,
              ReadAnswered, FinishAnswered, Import, Stored
<1> QED BY <1>2, <1>3, <1>4, <1>5 DEF Next, Worker

\* NeverShrinks: what is committed is never given up.
THEOREM ProgressIsKept == Spec => NeverShrinks
<1>1. RecoveryIInv /\ [Next]_vars => [RowsGrow]_rows
  BY RowsStep DEF vars
<1>2. NeverShrinks <=> [][RowsGrow]_rows
  BY PTL DEF NeverShrinks, RowsGrow
<1> QED BY <1>1, <1>2, RecoveryInductive, PTL DEF Spec

\* The wake is consumed by the pass it starts, or taken back by the user.
WakeGoes ==
  kills' = kills /\ life.pending /\ ~life'.pending
    => \/ ~life.running /\ life'.running
       \/ life'.shown.phase \in {"BACKGROUND", "CANCELLED", "CLOSED"}

\* A step that does not touch the flag keeps the wake.
LEMMA PendingStays ==
  ASSUME life'.pending = life.pending
  PROVE  WakeGoes
BY DEF WakeGoes

\* A wake goes only with the pass it starts, the user, or the process.
LEMMA WakeStep ==
  ASSUME RecoveryIInv, Next
  PROVE  WakeGoes \/ UNCHANGED vars
<1>1. life \in LifeType /\ life.running = (run.at # "idle")
  BY DEF RecoveryIInv, Typed, PassInv, Shown
<1>2. ASSUME NEW value \in BOOLEAN, SetForeground(value)  PROVE  WakeGoes
  <2>1. /\ life'.pending = value
        /\ life'.shown = Status(life.generation + 1, IF value THEN "SCHEDULED" ELSE "BACKGROUND")
    BY <1>1, <1>2 DEF SetForeground, LifeType
  <2>2. ~value => life'.shown.phase = "BACKGROUND"
    BY <2>1 DEF Status, NoStatus
  <2> QED BY <2>1, <2>2 DEF WakeGoes
<1>3. ASSUME Retry  PROVE  WakeGoes
  BY <1>1, <1>3 DEF Retry, LifeType, WakeGoes
<1>4. ASSUME NEW permanent \in BOOLEAN, Stop(permanent)  PROVE  WakeGoes
  <2>1. life'.shown = Status(life.generation + 1, IF permanent THEN "CLOSED" ELSE "CANCELLED")
    BY <1>1, <1>4 DEF Stop, LifeType
  <2>2. life'.shown.phase \in {"CLOSED", "CANCELLED"}
    BY <2>1 DEF Status, NoStatus
  <2> QED BY <2>2 DEF WakeGoes
<1>5. ASSUME Kill  PROVE  WakeGoes
  <2>1. kills \in Nat /\ kills' = kills + 1
    BY <1>5, RecoveryAssumption DEF RecoveryIInv, Typed, Kill
  <2> QED BY <2>1 DEF WakeGoes
<1>6. ASSUME Begin  PROVE  WakeGoes
  BY <1>1, <1>6 DEF Begin, LifeType, WakeGoes
<1>7. ASSUME NEW r, NEW phase, Reports(r, phase)  PROVE  life'.pending = life.pending
  BY <1>1, <1>7 DEF Reports, LifeType
<1>8. ASSUME NEW phase, Ends(phase)  PROVE  life'.pending = life.pending
  BY <1>1, <1>8 DEF Ends, LifeType
<1>9. SourceFails => life'.pending = life.pending
  BY <1>7 DEF SourceFails
<1>10. CASE Worker
  <2>1. Unwind => life'.pending = life.pending
    BY <1>1 DEF Unwind, LifeType
  <2>2. Connect \/ ConnectionLost \/ Rollover \/ HelloAnswered \/ SkipUnusable \/ PassDone
          => life'.pending = life.pending
    BY <1>7, <1>8, <1>9
       DEF Connect, ConnectionLost, Rollover, HelloAnswered, SkipUnusable, PassDone
  <2>3. SelectAnswered \/ Open \/ ReadAnswered \/ Append_ \/ FinishAnswered \/ Seal \/ Import
          => life'.pending = life.pending
    BY <1>7, <1>9
       DEF SelectAnswered, Open, ReadAnswered, Append_, FinishAnswered, Seal, Import
  <2>4. Exchange \/ ListAnswered \/ NextSource => life'.pending = life.pending
    BY DEF Exchange, ListAnswered, NextSource
  <2> QED BY <1>10, <2>1, <2>2, <2>3, <2>4, PendingStays DEF Worker
<1>11. CASE Resend \/ Stray \/ LinkDrops \/ Recorder \/ Owner
  <2>1. life' = life
    BY <1>11 DEF Resend, Stray, LinkDrops, Recorder, Owner
  <2> QED BY <2>1, PendingStays
<1> QED BY <1>2, <1>3, <1>4, <1>5, <1>6, <1>10, <1>11 DEF Next, Lifecycle

\* WakeKept: no pass, however it ends, swallows a wake that came during it.
THEOREM WakeIsKept == Spec => WakeKept
<1>1. RecoveryIInv /\ [Next]_vars => [WakeGoes]_vars
  BY WakeStep
<1>2. WakeKept <=> [][WakeGoes]_vars
  BY PTL DEF WakeKept, WakeGoes
<1> QED BY <1>1, <1>2, RecoveryInductive, PTL DEF Spec
===============================================================================
