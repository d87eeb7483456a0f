------------------------------ MODULE Transfer ------------------------------
(***************************************************************************)
(* The transfer engine of the A04 recorder (aura_transfer.c) over its      *)
(* journal cursor: one session, one command at a time, the cached answer a *)
(* repeated command gets, and the position of the selected export.         *)
(*                                                                         *)
(* An export is a row of units cut into records; a READ returns as many    *)
(* units as the cursor has buffered, at most Chunk.  The steps of one      *)
(* command that return WAIT change nothing a command can see, so a command *)
(* is received in one step and answered in another.  Delivery numbers and  *)
(* the fragments of a response are RadioLink's: here a response is sent in *)
(* one step and confirmed, or not, in a later one.                         *)
(***************************************************************************)
EXTENDS Naturals, Sequences

CONSTANTS
  Captures,     \* captures the journal may come to hold, numbered from 1
  Boundaries,   \* Boundaries[v]: offsets between the records of version v
  Chunk,        \* units one READ may return
  MaxEpoch      \* export epochs that are considered

Versions == DOMAIN Boundaries

\* Export bytes of a version: its last boundary, the seal included.
Size(v) == CHOOSE n \in Boundaries[v] : \A m \in Boundaries[v] : m <= n

\* Versions are positive, and a capture starts as the first.
ASSUME TransferAssumption ==
  /\ 1 \in Versions /\ Versions \subseteq Nat \ {0}
  /\ Captures \in Nat \ {0} /\ Chunk \in Nat \ {0} /\ MaxEpoch \in Nat
  /\ \A v \in Versions :
       /\ Boundaries[v] \subseteq Nat /\ 0 \in Boundaries[v]
       /\ \E n \in Boundaries[v] \ {0} : \A m \in Boundaries[v] : m <= n

VARIABLES
  epoch,      \* the journal's export epoch
  catalog,    \* captures in the journal
  source,     \* what verifying each capture would find now
  engine,     \* struct aura_transfer
  slot,       \* the command the phone wrote and the owner has not taken
  replies     \* answers on their way to the phone

transferVars == <<epoch, catalog, source, engine, slot, replies>>

NoCommand == [op |-> "none", txn |-> 0, capture |-> 0, handle |-> 0, offset |-> 0]
NoReply == [op |-> "none", txn |-> 0, ok |-> FALSE, handle |-> 0, version |-> 0,
            offset |-> 0, count |-> 0]

NoSelection == [capture |-> 0, handle |-> 0, version |-> 0, next |-> 0,
                seeked |-> FALSE, finished |-> FALSE]

NoEngine == [on |-> FALSE, observed |-> 0, last |-> 0, command |-> NoCommand,
             pending |-> FALSE, sending |-> FALSE, cache |-> NoReply, handles |-> 0, selected |-> NoSelection]

TransferInit ==
  /\ epoch = 1 /\ catalog \in 1 .. Captures
  /\ source = [c \in 1 .. Captures |-> [version |-> 1, fault |-> FALSE]]
  /\ engine = NoEngine /\ slot = NoCommand /\ replies = << >>

\* clear_work at a session's begin; handles are never used twice.
SessionBegin(e) ==
  [NoEngine EXCEPT !.on = TRUE, !.observed = epoch, !.handles = e.handles]

SessionEnd(e) == [NoEngine EXCEPT !.handles = e.handles]

Unselected(e) == [e EXCEPT !.selected = NoSelection]

\* The guard every entry point passes first.
SourceStands == engine.observed = epoch

-----------------------------------------------------------------------------
(* Commands. *)

\* aura_transfer_submit
Joins(c) == c.txn = engine.last /\ c = engine.command

SubmitsAnew(e, c) ==
  [e EXCEPT !.command = c, !.last = c.txn, !.pending = TRUE, !.cache = NoReply]

Submits(e, c) ==
  IF Joins(c) THEN e
  ELSE [e EXCEPT !.command = c, !.last = c.txn, !.pending = TRUE, !.cache = NoReply]

\* A command of the phone reaches the owner. A repeat of the last one joins its
\* work or has the cached answer sent again; any failure ends the session.
Receive ==
  /\ engine.on /\ slot # NoCommand /\ slot' = NoCommand
  /\ LET admits == /\ SourceStands
                   /\ \/ Joins(slot)
                      \/ slot.txn > engine.last /\ ~engine.pending /\ ~engine.sending
         again  == Joins(slot) /\ ~engine.pending /\ ~engine.sending
     IN  \/ /\ admits
            /\ engine' = IF again THEN [engine EXCEPT !.sending = TRUE]
                         ELSE Submits(engine, slot)
            /\ replies' = IF again THEN Append(replies, engine.cache) ELSE replies
         \/ /\ ~admits /\ engine' = SessionEnd(engine) /\ UNCHANGED replies
  /\ UNCHANGED <<epoch, catalog, source>>

\* The radio confirms that the whole response was sent.
Confirm ==
  /\ engine.on /\ engine.sending /\ SourceStands
  /\ engine' = [engine EXCEPT !.sending = FALSE]
  /\ UNCHANGED <<epoch, catalog, source, slot, replies>>

Answered(e, r) ==
  /\ engine' = [e EXCEPT !.pending = FALSE, !.sending = TRUE, !.cache = r]
  /\ replies' = Append(replies, r)

Reply == [NoReply EXCEPT !.op = engine.command.op, !.txn = engine.last]
Ok == [Reply EXCEPT !.ok = TRUE]

Working(op) == engine.on /\ engine.pending /\ SourceStands /\ engine.command.op = op

Hello ==
  /\ Working("hello")
  /\ Answered(engine, [Ok EXCEPT !.count = catalog])
  /\ UNCHANGED <<epoch, catalog, source, slot>>

\* The entry of the catalog, and whether its source is said to be usable.
List ==
  /\ Working("list")
  /\ Answered(engine, [Ok EXCEPT !.count = IF source[engine.command.capture].fault THEN 0 ELSE 1])
  /\ UNCHANGED <<epoch, catalog, source, slot>>

Select ==
  /\ Working("select")
  /\ LET c == engine.command.capture
         v == source[c].version
         h == engine.handles + 1
     IN IF source[c].fault THEN Answered(Unselected(engine), Reply)
        ELSE Answered(
               [engine EXCEPT !.handles = h,
                  !.selected = [NoSelection EXCEPT !.capture = c, !.handle = h, !.version = v]],
               [Ok EXCEPT !.handle = h, !.version = v])
  /\ UNCHANGED <<epoch, catalog, source, slot>>

Matching == engine.selected.handle # 0 /\ engine.command.handle = engine.selected.handle

\* The first READ of a selection seeks, to a record boundary; later ones go on.
Seeks(s, offset) ==
  IF s.seeked THEN offset = s.next ELSE offset \in Boundaries[s.version]

Read ==
  /\ Working("read")
  /\ LET s == engine.selected
         o == engine.command.offset
     IN \/ /\ ~Matching \/ (s.seeked /\ o # s.next)
           /\ Answered(engine, Reply)
        \/ /\ Matching /\ (s.seeked => o = s.next)
           /\ source[s.capture].fault \/ ~Seeks(s, o)
           /\ Answered(Unselected(engine), Reply)
        \/ /\ Matching /\ Seeks(s, o) /\ ~source[s.capture].fault
           /\ \E n \in 0 .. Chunk :
                /\ n <= Size(s.version) - o /\ (n = 0 <=> o = Size(s.version))
                /\ Answered([engine EXCEPT !.selected.next = o + n, !.selected.seeked = TRUE,
                                           !.selected.finished = (n = 0)],
                            [Ok EXCEPT !.handle = s.handle, !.offset = o, !.count = n])
  /\ UNCHANGED <<epoch, catalog, source, slot>>

\* Only at the end of what was read; the physical receipt is what SELECT gave.
AtEnd(s, expected) == s.seeked /\ expected = Size(s.version) /\ s.next = expected

Finish ==
  /\ Working("finish")
  /\ LET s == engine.selected IN
     IF ~Matching \/ ~AtEnd(s, engine.command.offset) THEN Answered(engine, Reply)
     ELSE IF source[s.capture].fault THEN Answered(Unselected(engine), Reply)
     ELSE Answered([engine EXCEPT !.selected.finished = TRUE],
                   [Ok EXCEPT !.handle = s.handle, !.version = s.version,
                              !.offset = Size(s.version)])
  /\ UNCHANGED <<epoch, catalog, source, slot>>

\* aura_transfer_step finds that the exports moved: the session is over.
SourceChanged ==
  /\ engine.on /\ ~SourceStands /\ engine' = SessionEnd(engine)
  /\ UNCHANGED <<epoch, catalog, source, slot, replies>>

-----------------------------------------------------------------------------
(* The journal under the engine. *)

\* A local recording: the epoch moves when it is prepared, before the capture
\* is in the catalog.
Record ==
  /\ epoch < MaxEpoch /\ epoch' = epoch + 1
  /\ catalog' \in {catalog, catalog + 1} \cap 1 .. Captures
  /\ UNCHANGED <<source, engine, slot, replies>>

\* A mount after an interruption: the readable end of a capture may differ.
Remount(c) ==
  /\ epoch < MaxEpoch /\ epoch' = epoch + 1
  /\ \E v \in Versions : source' = [source EXCEPT ![c].version = v]
  /\ UNCHANGED <<catalog, engine, slot, replies>>

\* A page of the capture can no longer be read.
MediaFault(c) ==
  /\ ~source[c].fault /\ source' = [source EXCEPT ![c].fault = TRUE]
  /\ UNCHANGED <<epoch, catalog, engine, slot, replies>>

=============================================================================
