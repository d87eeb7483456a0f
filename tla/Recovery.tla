------------------------------ MODULE Recovery ------------------------------
(***************************************************************************)
(* Foreground recovery on the phone (CaptureRecovery.kt): one worker walks *)
(* the recorder's catalog over an authenticated connection and saves every *)
(* capture with DownloadStore.kt, while the user's lifecycle calls start   *)
(* it, wake it, cancel it and close it.  The recorder's end is Transfer.   *)
(*                                                                         *)
(* The worker's exchange is AndroidGattConnection.kt's: a command is       *)
(* repeated at most once, an answer to an earlier command is dropped, and  *)
(* any failure ends the connection for good.  Only what a SQLite           *)
(* transaction committed survives the death of the process.                *)
(***************************************************************************)
EXTENDS Transfer, FiniteSets

CONSTANTS
  TxnLimit,   \* transactionLimit: commands of one connection (65535)
  Retries,    \* lost connections that one pass tolerates (3)
  MaxGen,     \* lifecycle generations that are considered
  MaxKills,   \* deaths of the process that are considered
  Silent,     \* versions whose import plays nothing
  Trouble     \* what may go wrong, see the actions

\* A connection carries HELLO and the whole catalog, as the code requires.
ASSUME RecoveryAssumption ==
  /\ TxnLimit \in Nat /\ TxnLimit >= 1 + Captures /\ Retries \in Nat
  /\ MaxGen \in Nat /\ MaxKills \in Nat /\ Silent \subseteq Versions

VARIABLES
  rows,      \* DownloadStore's table: what is committed of every source
  library,   \* sources CaptureStore imported
  life,      \* the lifecycle monitor: flags, generation and displayed status
  run,       \* the worker's pass
  link,      \* the worker's connection: "none", "open", or "shut" for good
  kills      \* deaths of the process so far

vars == <<transferVars, rows, library, life, run, link, kills>>

Keys == (1 .. Captures) \X Versions
NoKey == <<0, 0>>

NoStatus == [generation |-> 0, phase |-> "BACKGROUND", count |-> 0, key |-> NoKey]

NoLife == [foreground |-> FALSE, closed |-> FALSE, pending |-> FALSE, running |-> FALSE,
           generation |-> 0, shown |-> NoStatus]

NoRun == [token |-> 0, at |-> "idle", goal |-> "catalog", call |-> NoCommand, tries |-> 0,
          next |-> 1, c |-> 0, count |-> 0, usable |-> {}, handle |-> 0, key |-> NoKey,
          received |-> 0, saved |-> 0, data |-> 0, preserved |-> {}, ready |-> {},
          failed |-> {}, pins |-> [c \in 1 .. Captures |-> 0],
          losses |-> 0, stalled |-> 0, last |-> {}]

Init ==
  /\ TransferInit
  /\ rows = [k \in Keys |-> [at |-> 0, finished |-> FALSE]] /\ library = {}
  /\ life = NoLife /\ run = NoRun /\ link = "none" /\ kills = 0

-----------------------------------------------------------------------------
(* The lifecycle, from any thread. *)

\* The connection is gone, and with it the recorder's session.
Disconnect ==
  /\ link' = "none" /\ slot' = NoCommand /\ replies' = << >> /\ engine' = SessionEnd(engine)

Silence == UNCHANGED <<engine, slot, replies, link>>
Journal == UNCHANGED <<epoch, catalog, source>>

\* activeConnection is closed under the worker's feet; the worker still holds it.
Shut ==
  IF link = "open"
  THEN /\ link' = "shut" /\ slot' = NoCommand /\ replies' = << >> /\ engine' = SessionEnd(engine)
  ELSE Silence

Status(g, phase) == [NoStatus EXCEPT !.generation = g, !.phase = phase]

SetForeground(value) ==
  /\ ~life.closed /\ life.foreground # value /\ life.generation < MaxGen
  /\ LET g == life.generation + 1 IN
     life' = [life EXCEPT !.foreground = value, !.pending = value, !.generation = g,
                !.shown = Status(g, IF value THEN "SCHEDULED" ELSE "BACKGROUND")]
  /\ Shut /\ Journal /\ UNCHANGED <<rows, library, run, kills>>

Retry ==
  /\ ~life.closed /\ life.foreground /\ ~life.pending /\ life.generation < MaxGen
  /\ life' = [life EXCEPT !.pending = TRUE,
                !.shown.phase = IF life.running THEN @ ELSE "SCHEDULED"]
  /\ Silence /\ Journal /\ UNCHANGED <<rows, library, run, kills>>

\* cancel, and close for good.
Stop(permanent) ==
  /\ ~life.closed /\ life.generation < MaxGen
  /\ LET g == life.generation + 1 IN
     life' = [life EXCEPT !.closed = permanent, !.pending = FALSE, !.generation = g,
                !.foreground = @ /\ ~permanent,
                !.shown = Status(g, IF permanent THEN "CLOSED" ELSE "CANCELLED")]
  /\ Shut /\ Journal /\ UNCHANGED <<rows, library, run, kills>>

\* The process dies; what the next one finds is what was committed.
Kill ==
  /\ kills < MaxKills /\ kills' = kills + 1
  /\ life' = NoLife /\ run' = NoRun
  /\ Disconnect /\ Journal /\ UNCHANGED <<rows, library>>

-----------------------------------------------------------------------------
(* The pass, and its connection. *)

\* workLoop picks up the wake.
Begin ==
  /\ run.at = "idle" /\ ~life.closed /\ life.foreground /\ life.pending
  /\ LET g == life.generation + 1 IN
     /\ life' = [life EXCEPT !.pending = FALSE, !.running = TRUE, !.generation = g]
     /\ run' = [NoRun EXCEPT !.token = g, !.at = "connect"]
  /\ Silence /\ Journal /\ UNCHANGED <<rows, library, kills>>

Active == ~life.closed /\ life.foreground /\ life.generation = run.token

\* What the observer is told, unless a newer generation owns it.
Reports(r, phase) ==
  life' = IF Active
          THEN [life EXCEPT !.shown = [generation |-> r.token, phase |-> phase,
                                       count |-> r.count, key |-> r.key]]
          ELSE life

\* Cancelled unwinds the worker, at whichever check it reaches first.
Unwind ==
  /\ run.at # "idle" /\ ~Active
  /\ run' = NoRun /\ life' = [life EXCEPT !.running = FALSE]
  /\ Disconnect /\ Journal /\ UNCHANGED <<rows, library, kills>>

\* Mutant of Ends: the wake that came during the pass is forgotten.
EndsForgetting(phase) ==
  /\ life' = [life EXCEPT !.running = FALSE, !.pending = FALSE,
                !.shown = [generation |-> run.token, phase |-> phase,
                           count |-> run.count, key |-> run.key]]
  /\ run' = NoRun /\ Disconnect

\* The pass reports its outcome and the worker is idle.
Ends(phase) ==
  /\ life' = [life EXCEPT !.running = FALSE,
                !.shown = [generation |-> run.token, phase |-> phase,
                           count |-> run.count, key |-> run.key]]
  /\ run' = NoRun /\ Disconnect

Stored == UNCHANGED <<rows, library>>

\* connection(): a new connection, and HELLO first on it.
Connect ==
  /\ run.at = "connect" /\ Active /\ link = "none"
  /\ link' = "open" /\ engine' = SessionBegin(engine) /\ UNCHANGED <<slot, replies>>
  /\ run' = [run EXCEPT !.at = "hello", !.next = 1, !.handle = 0]
  /\ Reports(run, "CONNECTING")
  /\ Journal /\ Stored /\ UNCHANGED kills

\* The recorder hangs up, always once its session is over; nothing more arrives.
LinkDrops ==
  /\ link = "open" /\ ("drops" \in Trouble \/ ~engine.on)
  /\ Shut /\ Journal /\ Stored /\ UNCHANGED <<life, run, kills>>

Calls == {"hello", "list", "select", "read", "finish"}

Request ==
  [op |-> run.at, txn |-> run.next,
   capture |-> IF run.at \in {"list", "select"} THEN run.c ELSE 0,
   handle |-> IF run.at \in {"read", "finish"} THEN run.handle ELSE 0,
   offset |-> IF run.at = "read" THEN run.received
              ELSE IF run.at = "finish" THEN Size(run.key[2]) ELSE 0]

\* A write is refused while another command fills the slot, and ends the connection.
Writes(c) ==
  \/ /\ slot \in {NoCommand, c} /\ slot' = c /\ UNCHANGED <<engine, replies, link>>
  \/ slot \notin {NoCommand, c} /\ Shut

Exchange ==
  /\ run.at \in Calls /\ Active /\ run.call = NoCommand
  /\ link = "open" /\ run.next <= TxnLimit
  /\ Writes(Request)
  /\ run' = [run EXCEPT !.call = Request, !.tries = 1, !.next = @ + 1]
  /\ Journal /\ Stored /\ UNCHANGED <<life, kills>>

\* No answer yet: the same command once more.
Resend ==
  /\ run.call # NoCommand /\ run.tries = 1 /\ link = "open" /\ "slow" \in Trouble
  /\ Writes(run.call)
  /\ run' = [run EXCEPT !.tries = 2]
  /\ Journal /\ Stored /\ UNCHANGED <<life, kills>>

\* An answer to an earlier command arrives once more and is dropped.
Stray ==
  /\ link = "open" /\ replies # << >>
  /\ run.call = NoCommand \/ Head(replies).txn < run.call.txn
  /\ replies' = Tail(replies)
  /\ UNCHANGED <<engine, slot, link>>
  /\ Journal /\ Stored /\ UNCHANGED <<life, run, kills>>

\* No answer can come any more, or none comes in time: the deadline passes.
NoAnswer ==
  \/ link = "shut"
  \/ run.call # NoCommand /\ "late" \in Trouble

\* Mutant of Lost: a lost connection is not counted.
LostUncounted(r) ==
  [r EXCEPT !.at = "connect", !.goal = "catalog", !.call = NoCommand,
            !.handle = 0, !.key = NoKey, !.saved = 0, !.received = 0]

\* The pass after a lost connection: from the catalog again.
Lost(r) ==
  [r EXCEPT !.losses = @ + 1, !.at = "connect", !.goal = "catalog", !.call = NoCommand,
            !.tries = 0, !.handle = 0, !.key = NoKey, !.saved = 0, !.received = 0]

\* ConnectionFailure: the whole catalog once more, a few times.
ConnectionLost ==
  /\ run.at \in Calls /\ Active /\ NoAnswer
  /\ run.call = NoCommand => run.next <= TxnLimit
  /\ IF run.losses >= Retries THEN Ends("ATTENTION")
     ELSE /\ run' = Lost(run)
          /\ Reports(run, "RETRY_WAIT") /\ Disconnect
  /\ Journal /\ Stored /\ UNCHANGED kills

Answers(op) ==
  /\ run.at = op /\ run.call # NoCommand /\ Active
  /\ link = "open" /\ replies # << >> /\ Head(replies).txn = run.call.txn

Answer == Head(replies)

\* The answer is taken, and the worker goes on with r.
Goes(r) ==
  /\ run' = [r EXCEPT !.call = NoCommand, !.tries = 0]
  /\ replies' = Tail(replies) /\ UNCHANGED <<engine, slot, link>>

\* A failure of the one source, after which the next is tried, on a new connection.
Skips(r, c) == [r EXCEPT !.failed = @ \cup {c}, !.at = "next"]

SourceFails ==
  /\ run' = [Skips(run, run.c) EXCEPT !.call = NoCommand, !.tries = 0, !.handle = 0,
                                   !.data = 0]
  /\ Reports(run, "SOURCE_SKIPPED") /\ Disconnect

-----------------------------------------------------------------------------
(* The catalog. *)

HelloAnswered ==
  /\ Answers("hello")
  /\ IF run.goal = "source"
     THEN /\ Goes([run EXCEPT !.at = "select"]) /\ UNCHANGED life
     ELSE LET r == [run EXCEPT !.count = Answer.count, !.usable = {},
                      !.c = IF Answer.count = 0 THEN 0 ELSE 1,
                      !.at = IF Answer.count = 0 THEN "next" ELSE "list"]
          IN  Goes(r) /\ Reports(r, "CATALOG")
  /\ Journal /\ Stored /\ UNCHANGED kills

ListAnswered ==
  /\ Answers("list")
  /\ LET more == run.c < run.count IN
     Goes([run EXCEPT !.usable = IF Answer.count = 1 THEN @ \cup {run.c} ELSE @,
             !.c = IF more THEN @ + 1 ELSE 0, !.at = IF more THEN "list" ELSE "next"])
  /\ Journal /\ Stored /\ UNCHANGED <<life, kills>>

Entry == [run EXCEPT !.c = @ + 1, !.key = NoKey, !.saved = 0, !.received = 0,
                     !.stalled = 0, !.last = {}]

SkipUnusable ==
  /\ run.at = "next" /\ Active /\ run.c < run.count /\ run.c + 1 \notin run.usable
  /\ run' = Skips(Entry, run.c + 1) /\ Reports(Entry, "SOURCE_SKIPPED")
  /\ Silence /\ Journal /\ Stored /\ UNCHANGED kills

NextSource ==
  /\ run.at = "next" /\ Active /\ run.c < run.count /\ run.c + 1 \in run.usable
  /\ run' = [Entry EXCEPT !.goal = "source",
                          !.at = IF link = "none" THEN "connect" ELSE "select"]
  /\ Silence /\ Journal /\ Stored /\ UNCHANGED <<life, kills>>

PassDone ==
  /\ run.at = "next" /\ Active /\ run.c = run.count
  /\ Ends(IF run.failed = {} THEN "COMPLETE" ELSE "ATTENTION")
  /\ Journal /\ Stored /\ UNCHANGED kills

-----------------------------------------------------------------------------
(* One source. *)

\* Mutant of Stalls: every rollover of the source counts, progress or not.
StallsAnyhow(r) == r.stalled + 1

\* Rollovers in a row that found the same committed offset.
Stalls(r) == IF r.last = {r.saved} THEN r.stalled + 1 ELSE 0

\* The connection's transactions are used up: reconnect, and resume what is
\* committed; twice without progress is a failure of the source.
Rollover ==
  /\ run.at \in Calls /\ Active /\ run.call = NoCommand /\ run.next > TxnLimit
  /\ LET n == Stalls(run) IN
     IF n >= 2 THEN SourceFails
     ELSE /\ run' = [run EXCEPT !.at = "connect", !.stalled = n, !.last = {run.saved},
                                !.handle = 0]
          /\ Disconnect /\ UNCHANGED life
  /\ Journal /\ Stored /\ UNCHANGED kills

\* Mutant of Pinned: any version of the source will do.
PinnedAnyhow(v) == TRUE

\* A source may not change within a pass.
Pinned(v) == run.pins[run.c] \in {0, v}

SelectAnswered ==
  /\ Answers("select")
  /\ IF Answer.ok /\ Pinned(Answer.version)
     THEN /\ Goes([run EXCEPT !.pins[run.c] = Answer.version, !.handle = Answer.handle,
                              !.at = "open"])
          /\ UNCHANGED life
     ELSE SourceFails
  /\ Journal /\ Stored /\ UNCHANGED kills

\* Mutant of Resumes: a reopened source starts from nothing.
ResumesFromNothing(k) == 0

\* The offset at which the committed records of the source end.
Resumes(k) == rows[k].at

\* DownloadStore.open replays what is committed; what was partial is gone.
Open ==
  /\ run.at = "open" /\ Active
  /\ LET k == <<run.c, run.pins[run.c]>>
         r == [run EXCEPT !.key = k, !.saved = Resumes(k), !.received = Resumes(k)]
     IN  \/ /\ k \in run.ready /\ run' = [r EXCEPT !.failed = @ \ {run.c}, !.at = "next"]
            /\ UNCHANGED life /\ Silence
         \/ /\ k \notin run.ready /\ run' = [r EXCEPT !.at = "read"]
            /\ Reports(r, "DOWNLOADING") /\ Silence
         \/ "storage" \in Trouble /\ SourceFails
  /\ Journal /\ Stored /\ UNCHANGED kills

ReadAnswered ==
  /\ Answers("read")
  /\ IF ~Answer.ok THEN SourceFails
     ELSE /\ Goes([run EXCEPT !.data = Answer.count,
                     !.at = IF run.received = Size(run.key[2]) THEN "finish" ELSE "store"])
          /\ UNCHANGED life
  /\ Journal /\ Stored /\ UNCHANGED kills

\* The validated offset: the last record boundary up to n.
Whole(v, n) == CHOOSE b \in Boundaries[v] : b <= n /\ \A d \in Boundaries[v] : d <= n => d <= b

\* append: the records that are now complete commit in one transaction, and
\* only then is the progress published. A cancel may come too late to stop it.
Append_ ==
  /\ run.at = "store"
  /\ LET n == run.received + run.data
         r == [run EXCEPT !.received = n, !.saved = Whole(run.key[2], n), !.data = 0,
                          !.at = "read"]
     IN  \/ /\ rows' = [rows EXCEPT ![run.key].at = r.saved]
            /\ run' = r /\ Reports(r, "DOWNLOADING") /\ Silence
         \/ /\ "storage" \in Trouble /\ Active
            /\ SourceFails /\ UNCHANGED rows
  /\ Journal /\ UNCHANGED <<library, kills>>

FinishAnswered ==
  /\ Answers("finish")
  /\ IF ~Answer.ok THEN SourceFails
     ELSE Goes([run EXCEPT !.at = "seal"]) /\ UNCHANGED life
  /\ Journal /\ Stored /\ UNCHANGED kills

\* Mutant of Completes: completion is kept in memory.
CompletesInMemory(k) == rows

\* The transaction that marks the source finished.
Completes(k) == [rows EXCEPT ![k].finished = TRUE]

\* finish: completion commits, then the source counts as preserved.
Seal ==
  /\ run.at = "seal"
  /\ LET r == [run EXCEPT !.preserved = @ \cup {run.key}, !.at = "import"]
     IN  \/ /\ rows' = Completes(run.key)
            /\ run' = r /\ Reports(r, "SOURCE_PRESERVED") /\ Silence
         \/ /\ "storage" \in Trouble /\ Active
            /\ SourceFails /\ UNCHANGED rows
  /\ Journal /\ UNCHANGED <<library, kills>>

\* importDownload, and what it makes of the capture.
Import ==
  /\ run.at = "import"
  /\ LET plays == run.key[2] \notin Silent
         r == [run EXCEPT !.failed = @ \ {run.c}, !.at = "next",
                          !.ready = IF plays THEN @ \cup {run.key} ELSE @]
     IN  \/ /\ library' = library \cup {run.key}
            /\ run' = r /\ Reports(r, IF plays THEN "READY" ELSE "SOURCE_PRESERVED") /\ Silence
         \/ /\ "storage" \in Trouble /\ Active
            /\ SourceFails /\ UNCHANGED library
  /\ Journal /\ UNCHANGED <<rows, kills>>
-----------------------------------------------------------------------------

Lifecycle ==
  \/ \E value \in BOOLEAN : SetForeground(value)
  \/ Retry
  \/ \E permanent \in BOOLEAN : Stop(permanent)
  \/ Kill

Worker ==
  \/ Unwind \/ Connect \/ Exchange \/ ConnectionLost \/ Rollover
  \/ HelloAnswered \/ ListAnswered \/ SkipUnusable \/ NextSource \/ PassDone
  \/ SelectAnswered \/ Open \/ ReadAnswered \/ Append_ \/ FinishAnswered \/ Seal \/ Import

\* The recorder's confirmation and the phone's next command race.
Recorder ==
  /\ \/ engine.on /\ slot # NoCommand /\ (engine.sending => "overtake" \in Trouble) /\ Receive
     \/ Confirm \/ Hello \/ List \/ Select \/ Read \/ Finish \/ SourceChanged
  /\ UNCHANGED <<rows, library, life, run, link, kills>>

\* The owner of the recorder records and restarts it; its memory ages.
Owner ==
  /\ Record \/ \E c \in 1 .. catalog : Remount(c) \/ ("media" \in Trouble /\ MediaFault(c))
  /\ UNCHANGED <<rows, library, life, run, link, kills>>

Next == Lifecycle \/ Begin \/ Worker \/ Resend \/ Stray \/ LinkDrops \/ Recorder \/ Owner

Spec == Init /\ [][Next]_vars

\* The worker thread runs; a session that is over hangs up (RadioLink); the
\* recorder's loop serves its link. Users, drops and repeats need not happen.
Fairness ==
  /\ WF_vars(Begin) /\ WF_vars(Worker)
  /\ WF_vars(LinkDrops /\ ~engine.on) /\ WF_vars(Stray) /\ WF_vars(Recorder)

FairSpec == Spec /\ Fairness

-----------------------------------------------------------------------------
(* Properties. *)

Phases == {"BACKGROUND", "SCHEDULED", "CONNECTING", "CATALOG", "DOWNLOADING",
  "SOURCE_PRESERVED", "READY", "SOURCE_SKIPPED", "RETRY_WAIT", "COMPLETE", "ATTENTION",
  "CANCELLED", "CLOSED"}

\* The variables have the shape the two programs give them.
TypeOK ==
  /\ \A k \in Keys : rows[k].at \in 0 .. Size(k[2]) /\ rows[k].finished \in BOOLEAN
  /\ library \subseteq Keys /\ link \in {"none", "open", "shut"}
  /\ life.running = (run.at # "idle") /\ life.shown.phase \in Phases
  /\ run.at \in Calls \cup {"idle", "connect", "next", "open", "store", "seal", "import"}
  /\ run.next \in 1 .. TxnLimit + 1 /\ run.losses \in 0 .. Retries
  /\ Len(replies) <= 3 /\ engine.selected.next \in Nat /\ kills \in 0 .. MaxKills

\* DownloadStore keeps whole records only, and says finished only of a source
\* it has whole, whatever was received, cancelled or cut off (DownloadStore.kt:177-196).
SavedIsWhole ==
  \A k \in Keys : /\ rows[k].at \in Boundaries[k[2]]
                  /\ rows[k].finished => rows[k].at = Size(k[2])

\* What an open selection has delivered is what the phone has received, and the
\* one answer that is still on its way: a repeated READ moves nothing
\* (aura_transfer.c:117-125, 190-211).
Lockstep ==
  LET s == engine.selected
      due == IF /\ run.call.op = "read" /\ engine.last = run.call.txn
                /\ ~engine.pending /\ engine.cache.ok
             THEN engine.cache.count ELSE 0
  IN  link = "open" /\ engine.on /\ s.seeked /\ s.handle = run.handle /\ s.capture = run.key[1]
        => s.next = run.received + run.data + due

\* COMPLETE is shown only when every capture of the catalog it was shown for is
\* whole in the database and in the library; a source is shown as preserved or
\* ready only when it is (CaptureRecovery.kt:212-228, 340-352).
ClaimsHold ==
  /\ life.shown.phase = "COMPLETE" =>
       \A c \in 1 .. life.shown.count : \E v \in Versions :
          rows[<<c, v>>].finished /\ <<c, v>> \in library
  /\ life.shown.phase \in {"SOURCE_PRESERVED", "READY"} /\ life.shown.key # NoKey =>
       rows[life.shown.key].finished
  /\ life.shown.phase = "READY" => life.shown.key \in library

\* One pass preserves one version of a capture, whatever the recorder's journal
\* becomes between two of its connections (CaptureRecovery.kt:297-301).
OneVersion ==
  \A k, m \in run.preserved : k[1] = m[1] => k = m

\* The shape of the state, what is saved, and of which version.
RecoveryInv == TypeOK /\ SavedIsWhole /\ OneVersion

\* What is committed is never given up, across reopenings, repeats and deaths
\* of the process (DownloadStore.kt:132-146).
NeverShrinks ==
  [][\A k \in Keys : /\ rows'[k].at >= rows[k].at
                     /\ rows[k].finished => rows'[k].finished]_rows

\* A wake is lost only to a user who cancels, closes or leaves: the end of the
\* pass it arrived in does not swallow it (CaptureRecovery.kt:132-138, 160-168).
WakeKept ==
  [][kills' = kills /\ life.pending /\ ~life'.pending
     => \/ ~life.running /\ life'.running
        \/ life'.shown.phase \in {"BACKGROUND", "CANCELLED", "CLOSED"}]_vars

\* Every pass ends, however often the connection fails or rolls over
\* (CaptureRecovery.kt:212-251, 356-366).
PassEnds == life.running ~> ~life.running

\* A pass gives up only when it lost as many connections as it tolerates, or the
\* journal, the media or the phone's storage was against it: a source that needs
\* several connections is not taken for a broken one (CaptureRecovery.kt:356-364).
GivesUpForCause ==
  [][life'.shown.phase = "ATTENTION" /\ life.shown.phase # "ATTENTION"
     => \/ run.losses >= Retries \/ epoch > 1 \/ "storage" \in Trouble
        \/ \E c \in 1 .. catalog : source[c].fault]_vars
=============================================================================
