------------------------------ MODULE RadioLink ------------------------------
(***************************************************************************)
(* The Bluetooth side of the A04 recorder: the link state and the one      *)
(* notification slot of radio/src/aura_gatt_zephyr.c, the owner's radio    *)
(* tick and the session proof (radio/src/main.c, aura_session_auth.c), and *)
(* of the transfer engine (aura_transfer.c) its session, work and delivery *)
(* numbers.                                                                *)
(*                                                                         *)
(* Four actors interleave: the stack's callbacks, the system work queue    *)
(* that sends, the callback that completes a send, and the owner thread.   *)
(* Every section under the spin lock is one step; what a step reads before *)
(* it unlocks is kept and used later, as in the code.  The counters are as *)
(* wide as their constants: UINT64_MAX is the constant.                    *)
(***************************************************************************)
EXTENDS Naturals

CONSTANTS
  MaxConns,        \* connections that are considered
  MaxGeneration,   \* largest generation_counter, tx_epoch and session number
  MaxTransaction,  \* commands of one session that are considered
  MaxDelivery,     \* largest delivery number
  Fragments,       \* notifications that carry one response
  TxRetries,       \* attempts after the first to hand over a notification (5)
  DropRetries,     \* attempts after the first to disconnect (3)
  MaxCaptures,     \* START lines that are considered
  Owners,          \* the connections whose phone holds the owner's key
  Trouble,         \* what may go wrong, see the actions
  MaxTroubles      \* how often that may happen; lateness, and frames out of turn, are not counted

ASSUME RadioAssumption ==
  /\ MaxConns \in Nat /\ MaxGeneration \in Nat /\ MaxTransaction \in Nat
  /\ MaxDelivery \in Nat /\ Fragments \in Nat \ {0}
  /\ TxRetries \in Nat /\ DropRetries \in Nat /\ MaxCaptures \in Nat
  /\ MaxTroubles \in Nat
  /\ Owners \subseteq 1 .. MaxConns

VARIABLES
  env,      \* connections that were made, and troubles that happened
  link,     \* connection, generation and admission, under the lock
  tx,       \* the notification slot, under the lock
  worker,   \* where the work queue's tx handler is
  control,  \* where its control handler is and what it remembers
  radio,    \* the connection whose stack still owes a completion, or 0
  air,      \* history: the response fragments that were handed to the radio
  auth,     \* session proof, private to the owner
  engine,   \* aura_transfer, private to the owner
  owner     \* where the owner is and what it remembers

vars == <<env, link, tx, worker, control, radio, air, auth, engine, owner>>

NoTx == [state |-> "free", conn |-> 0, generation |-> 0, session |-> 0, epoch |-> 0,
         transaction |-> 0, delivery |-> 0, offset |-> 0, retries |-> 0, late |-> FALSE,
         seen |-> FALSE, success |-> FALSE]

Resting == [at |-> "idle", conn |-> 0, drop |-> FALSE]

NoView == [generation |-> 0, connected |-> FALSE, secure |-> FALSE]

NoEngine == [session |-> 0, count |-> 0, work |-> "idle", transaction |-> 0,
             next |-> 0, delivery |-> 0, moved |-> FALSE]

\* The archive is open and RADIO was given; nothing has connected yet.
Init ==
  /\ env = [conns |-> 0, troubles |-> 0]
  /\ link = [conn |-> 0, generation |-> 0, counter |-> 0, epoch |-> 0, secure |-> FALSE,
             subscribed |-> FALSE, closing |-> FALSE, admitted |-> FALSE,
             deadline |-> "none", security |-> FALSE, drop |-> FALSE, retries |-> 0,
             control |-> FALSE, hangup |-> FALSE, command |-> "none", auth |-> "none",
             shown |-> "none"]
  /\ tx = NoTx /\ worker = "idle" /\ control = Resting /\ radio = 0
  /\ air = [session |-> 0, delivery |-> 0, count |-> 0]
  /\ auth = [phase |-> "closed", generation |-> 0, high |-> 0, past |-> FALSE]
  /\ engine = NoEngine
  /\ owner = [at |-> "look", then |-> "publish", view |-> NoView, fresh |-> FALSE,
              authorized |-> FALSE, preempt |-> FALSE, command |-> "none",
              allowed |-> TRUE, capture |-> "no", starts |-> 0, bound |-> 0, asked |-> 0, applied |-> "closed",
              session |-> 0, generation |-> 0, epoch |-> 0, transaction |-> 0,
              delivery |-> 0, offset |-> 0, preempted |-> FALSE]

\* The trouble may still happen, and it does or does not.
May(trouble) == trouble \in Trouble /\ env.troubles < MaxTroubles

Happens(bad) == env' = IF bad THEN [env EXCEPT !.troubles = @ + 1] ELSE env

----------------------------------------------------------------------------
(* Functions on the link record.                                           *)

\* invalidate_locked: nothing that was admitted or queued survives it.
Invalidate(l, closing) ==
  LET full == closing \/ l.epoch = MaxGeneration \/ l.counter = MaxGeneration
      up(n) == IF n = MaxGeneration THEN n ELSE n + 1
      live == l.conn # 0 /\ ~full
  IN  [l EXCEPT !.admitted = FALSE, !.command = "none", !.auth = "none",
                !.security = FALSE, !.deadline = "none", !.closing = full,
                !.epoch = up(@), !.counter = up(@),
                !.generation = IF live THEN up(l.counter) ELSE 0,
                !.shown = IF live THEN "ASNO" ELSE "none",
                !.drop = @ \/ (full /\ l.conn # 0)]

Current(l, g) == ~l.closing /\ l.conn # 0 /\ g # 0 /\ l.generation = g /\ l.deadline # "past"

TxAllowed(l, t) ==
  /\ Current(l, t.generation) /\ l.conn = t.conn
  /\ l.admitted /\ l.deadline = "live" /\ l.secure /\ l.subscribed /\ t.epoch = l.epoch

\* Mutant of Closed: nothing is scheduled that would hang up.
ClosedUnscheduled(l) == Invalidate(l, TRUE)

\* A generation is closed, and the control work will hang up.
Closed(l) == [Invalidate(l, TRUE) EXCEPT !.control = TRUE]

\* expire_now, with which most entry points begin.
Fresh(l) == IF l.deadline = "past" THEN Closed(l) ELSE l

Disconnect(l, g) == IF l.conn # 0 /\ g # 0 /\ l.generation = g THEN Closed(l) ELSE l

CancelCopies(l) ==
  LET e == [l EXCEPT !.admitted = FALSE, !.command = "none"]
  IN  IF l.epoch = MaxGeneration THEN Invalidate(e, TRUE) ELSE [e EXCEPT !.epoch = @ + 1]

----------------------------------------------------------------------------
(* Callbacks of the Bluetooth stack, and the phone.                        *)

Connected ==
  /\ link.conn = 0 /\ env.conns < MaxConns
  /\ env' = [env EXCEPT !.conns = @ + 1]
  /\ LET l == Invalidate([link EXCEPT !.conn = env'.conns, !.secure = FALSE,
                            !.subscribed = FALSE, !.drop = FALSE, !.retries = 0], FALSE)
     IN  link' = [l EXCEPT !.control = @ \/ l.closing]
  /\ UNCHANGED <<tx, worker, control, radio, air, auth, engine, owner>>

\* Lost by itself, or because the stack carries out a disconnect.
Disconnected ==
  /\ link.conn # 0 /\ (May("loss") \/ link.hangup)
  /\ Happens(~link.hangup)
  /\ link' = [Invalidate([link EXCEPT !.conn = 0], FALSE)
                EXCEPT !.secure = FALSE, !.subscribed = FALSE, !.drop = FALSE,
                       !.hangup = FALSE]
  /\ UNCHANGED <<tx, worker, control, radio, air, auth, engine, owner>>

\* The link becomes secure, or the change fails, on a secure link or a new one.
SecurityChanged ==
  /\ link.conn # 0
  /\ \/ link' = [link EXCEPT !.secure = TRUE] /\ Happens(FALSE)
     \/ /\ May("loss") /\ Happens(TRUE)
        /\ link' = Closed([link EXCEPT !.secure = FALSE])
  /\ UNCHANGED <<tx, worker, control, radio, air, auth, engine, owner>>

\* A client characteristic configuration write, and its refresh.
Subscribe ==
  /\ link.secure /\ Current(link, link.generation)
  /\ \/ link' = [link EXCEPT !.subscribed = TRUE] /\ Happens(FALSE)
     \/ /\ link.subscribed /\ May("unsubscribe") /\ Happens(TRUE)
        /\ link' = Invalidate([link EXCEPT !.subscribed = FALSE], FALSE)
  /\ UNCHANGED <<tx, worker, control, radio, air, auth, engine, owner>>

\* The phone changes the MTU in the middle of a session.
MtuUpdated ==
  /\ link.conn # 0 /\ link.admitted /\ May("mtu") /\ Happens(TRUE)
  /\ link' = Closed(link)
  /\ UNCHANGED <<tx, worker, control, radio, air, auth, engine, owner>>

\* The frames that a phone sends after the answer it was shown.
Follows(shown) ==
  CASE shown = "ASNO" -> {"begin"} [] shown = "ASC1" -> {"half", "proof"} [] OTHER -> {}

\* One frame of the proof; the proof itself is good only from an owner's phone.
AuthWrite ==
  /\ LET l == Fresh(link)
     IN  /\ Current(l, l.generation) /\ l.secure /\ l.auth = "none"
         /\ \E f \in {"begin", "half"} \cup (IF l.conn \in Owners THEN {"proof"} ELSE {"bad"})
                     \cup (IF May("command") THEN {"bad"} ELSE {}) :
              /\ "stray" \in Trouble \/ f = "bad" \/ f \in Follows(l.shown)
              /\ link' = [l EXCEPT !.auth = f] /\ Happens(f = "bad" /\ l.conn \in Owners)
  /\ UNCHANGED <<tx, worker, control, radio, air, auth, engine, owner>>

\* A new command, the last one again, or one the engine does not admit.
CommandWrite ==
  /\ LET l == Fresh(link)
     IN  /\ Current(l, l.generation) /\ l.secure /\ l.admitted /\ l.subscribed
         /\ l.command = "none"
         /\ \E c \in {"next", "same"} \cup (IF May("command") THEN {"bad"} ELSE {}) :
              /\ c = "next" => engine.transaction < MaxTransaction
              /\ c = "same" => "stray" \in Trouble
              /\ link' = [l EXCEPT !.command = c] /\ Happens(c = "bad")
  /\ UNCHANGED <<tx, worker, control, radio, air, auth, engine, owner>>

\* The authorization deadline passes, in real time.
DeadlinePasses ==
  /\ link.deadline = "live" /\ May("expire") /\ Happens(TRUE)
  /\ link' = [link EXCEPT !.deadline = "past"]
  /\ UNCHANGED <<tx, worker, control, radio, air, auth, engine, owner>>

----------------------------------------------------------------------------
(* The system work queue: one handler at a time.                           *)

QueueIdle == worker = "idle" /\ control.at = "idle"

\* deadline_work_handler.
DeadlineWork ==
  /\ QueueIdle /\ link.deadline = "past"
  /\ link' = Fresh(link)
  /\ UNCHANGED <<env, tx, worker, control, radio, air, auth, engine, owner>>

\* control_work_handler up to its first unlock: what it is to do, and to whom.
ControlTake ==
  /\ QueueIdle /\ link.control
  /\ link' = [link EXCEPT !.control = FALSE, !.security = FALSE]
  /\ control' = IF \/ link.conn # 0 /\ link.drop
                   \/ link.security /\ Current(link, link.generation)
                THEN [at |-> "call", conn |-> link.conn, drop |-> link.drop] ELSE Resting
  /\ UNCHANGED <<env, tx, worker, radio, air, auth, engine, owner>>

\* bt_conn_disconnect or bt_conn_set_security: done, too late, or refused.
ControlCall ==
  /\ control.at = "call"
  /\ \/ /\ control' = Resting /\ Happens(FALSE)
        /\ link' = [link EXCEPT !.hangup = @ \/ (control.drop /\ link.conn = control.conn)]
     \/ /\ May("busy") /\ Happens(TRUE)
        /\ control' = [control EXCEPT !.at = "refused"]
        /\ UNCHANGED link
  /\ UNCHANGED <<tx, worker, radio, air, auth, engine, owner>>

\* control_work_handler after a call that failed: a link that could not be made
\* secure is closed, and a disconnect is tried again a few times.
ControlAfter ==
  /\ control.at = "refused" /\ control' = Resting
  /\ LET l == IF control.drop THEN link ELSE Invalidate(link, TRUE)
     IN  link' = IF link.conn # control.conn THEN link
                 ELSE [l EXCEPT !.control = @ \/ l.retries < DropRetries,
                                !.retries = IF @ > DropRetries THEN @ ELSE @ + 1]
  /\ UNCHANGED <<env, tx, worker, radio, air, auth, engine, owner>>

Failed(t) == [t EXCEPT !.state = "done", !.success = FALSE]

\* Ten seconds without an answer: from READY, or from the hand-over, on.
TxLate ==
  /\ tx.state \in {"ready", "sending", "submitted"} /\ ~tx.late /\ "late" \in Trouble
  /\ tx' = [tx EXCEPT !.late = TRUE]
  /\ UNCHANGED <<env, link, worker, control, radio, air, auth, engine, owner>>

\* Mutant of TxTimeout: only a notification that was not handed over times out.
TxTimeoutReady ==
  /\ QueueIdle /\ tx.state = "ready" /\ tx.late
  /\ link' = Disconnect(Fresh(link), tx.generation)
  /\ UNCHANGED <<env, tx, worker, control, radio, air, auth, engine, owner>>

\* tx_work_handler when a completion is overdue: the slot stays with the stack.
TxTimeout ==
  /\ QueueIdle /\ tx.state = "submitted" /\ tx.late
  /\ link' = Disconnect(Fresh(link), tx.generation)
  /\ UNCHANGED <<env, tx, worker, control, radio, air, auth, engine, owner>>

\* tx_work_handler up to its first unlock.
TxTake ==
  /\ QueueIdle /\ tx.state = "ready"
  /\ LET l == Fresh(link)
     IN  IF TxAllowed(l, tx) /\ ~tx.late
         THEN /\ tx' = [tx EXCEPT !.state = "sending"]
              /\ worker' = "check" /\ link' = l
         ELSE /\ tx' = Failed(tx)
              /\ link' = IF Current(l, tx.generation) /\ tx.epoch = l.epoch
                         THEN Disconnect(l, tx.generation) ELSE l
              /\ UNCHANGED worker
  /\ UNCHANGED <<env, control, radio, air, auth, engine, owner>>

\* The stack's own view of the link, and the gate once more: the admission point.
TxCheck ==
  /\ worker = "check"
  /\ \/ TxAllowed(link, tx) /\ worker' = "notify"
     \/ worker' = "refused"
  /\ UNCHANGED <<env, link, tx, control, radio, air, auth, engine, owner>>

\* bt_gatt_notify_cb: the stack takes the notification, or has no room, or fails.
TxNotify ==
  /\ worker = "notify"
  /\ \/ /\ link.conn = tx.conn /\ Happens(FALSE)
        /\ worker' = "handed" /\ radio' = tx.conn
        /\ air' = [session |-> tx.session, delivery |-> tx.delivery,
                   count |-> 1 + IF air.session = tx.session /\ air.delivery = tx.delivery
                                 THEN air.count ELSE 0]
     \/ /\ worker' \in IF link.conn # tx.conn THEN {"refused"}
                       ELSE IF May("radio") THEN {"refused", "full"} ELSE {}
        /\ Happens(link.conn = tx.conn)
        /\ UNCHANGED <<radio, air>>
  /\ UNCHANGED <<link, tx, control, auth, engine, owner>>

\* tx_work_handler after the call: the completion may have come already.
TxAfter ==
  /\ worker \in {"handed", "full", "refused"} /\ worker' = "idle"
  /\ IF worker = "handed"
     THEN /\ tx' = [tx EXCEPT !.success = tx.seen,
                              !.state = IF tx.seen THEN "done" ELSE "submitted"]
          /\ UNCHANGED link
     ELSE LET again == /\ worker = "full" /\ TxAllowed(link, tx) /\ ~tx.late
                       /\ tx.retries < TxRetries
          IN  /\ tx' = IF again THEN [tx EXCEPT !.state = "ready", !.retries = @ + 1]
                       ELSE Failed(tx)
              /\ link' = IF ~again /\ Current(link, tx.generation) /\ tx.epoch = link.epoch
                         THEN Disconnect(link, tx.generation) ELSE link
  /\ UNCHANGED <<env, control, radio, air, auth, engine, owner>>

\* notify_complete: at any time after the stack took the notification, also
\* inside the call and after the connection is gone.
NotifyComplete ==
  /\ radio # 0 /\ radio' = 0
  /\ tx' = IF radio # tx.conn THEN tx
           ELSE IF tx.state = "sending" THEN [tx EXCEPT !.seen = TRUE]
           ELSE IF tx.state = "submitted" THEN [tx EXCEPT !.success = TRUE, !.state = "done"]
           ELSE tx
  /\ UNCHANGED <<env, link, worker, control, air, auth, engine, owner>>

----------------------------------------------------------------------------
(* The storage owner: aura_session_auth and aura_transfer, its own state.  *)

AuthEnd(a) == [a EXCEPT !.phase = "closed", !.generation = 0, !.past = FALSE]

\* Which deadline the proof session has: a new one for each phase but the half proof.
Deadline(a) == IF a.phase = "half" THEN "challenge" ELSE a.phase

\* live: a stale generation is refused and ends nothing.
Live(a, g, secure) == g # 0 /\ a.generation = g /\ secure /\ a.phase # "closed" /\ ~a.past

AfterLive(a, g, secure) ==
  IF g = 0 \/ a.generation # g \/ Live(a, g, secure) THEN a ELSE AuthEnd(a)

Step == [begin |-> "challenge", challenge |-> "half", half |-> "granted"]
Last == [challenge |-> "begin", half |-> "half", granted |-> "proof"]

\* One frame in each phase.
Accepts(phase, f) ==
  \/ phase = "begin" /\ f = "begin"
  \/ phase = "challenge" /\ f = "half"
  \/ phase = "half" /\ f = "proof"

\* aura_session_auth_receive: the expected frame, the last one again, or the end.
Receive(a, g, secure, f) ==
  IF ~Live(a, g, secure) THEN [auth |-> AfterLive(a, g, secure), ok |-> FALSE]
  ELSE IF a.phase \in DOMAIN Last /\ Last[a.phase] = f THEN [auth |-> a, ok |-> TRUE]
  ELSE IF Accepts(a.phase, f)
       THEN [auth |-> [a EXCEPT !.phase = Step[a.phase], !.past = FALSE], ok |-> TRUE]
  ELSE [auth |-> AuthEnd(a), ok |-> FALSE]

ClearWork(e) == [e EXCEPT !.work = "idle", !.delivery = 0]

SessionEnd(e) == [ClearWork(e) EXCEPT !.session = 0, !.transaction = 0, !.next = 0]

\* aura_transfer_session_begin; the caller has looked at the counter.
SessionBegin(e) ==
  [SessionEnd(e) EXCEPT !.session = e.count + 1, !.count = @ + 1, !.moved = FALSE]

NewDelivery(e) == [e EXCEPT !.next = @ + 1, !.delivery = e.next + 1, !.work = "response"]

\* clear_owner_delivery.
Cleared(o) == [o EXCEPT !.transaction = 0, !.delivery = 0, !.offset = 0]

\* owner_fail and the return to the caller, which ends the proof as well.
OwnerFail(l, c) ==
  /\ link' = CancelCopies(Disconnect(l, c))
  /\ engine' = IF owner.session # 0 THEN SessionEnd(engine) ELSE engine
  /\ owner' = [Cleared(owner) EXCEPT !.session = 0, !.generation = 0,
                                     !.command = "none", !.at = owner.then]
  /\ auth' = IF owner.then = "publish" THEN AuthEnd(auth) ELSE auth

----------------------------------------------------------------------------
(* The owner thread: radio_owner_tick and aura_gatt_owner_tick.            *)

Snapshot(l) == [generation |-> l.generation, connected |-> l.conn # 0, secure |-> l.secure]

\* The clock and the link are read once for the whole tick.  The proof is late
\* only when the link's own deadline is, or when that has not been armed yet.
Look ==
  /\ owner.at = "look"
  /\ link' = Fresh(link)
  /\ owner' = [owner EXCEPT !.at = "bind", !.then = "publish", !.view = Snapshot(link')]
  /\ \/ UNCHANGED <<auth, env>>
     \/ /\ auth.phase # "closed"
        /\ link.deadline = "past" \/ owner.applied # Deadline(auth)
        /\ link.deadline # "past" => May("expire")
        /\ auth' = [auth EXCEPT !.past = TRUE] /\ Happens(link.deadline # "past")
  /\ UNCHANGED <<tx, worker, control, radio, air, engine>>

Usable == owner.allowed /\ owner.view.connected /\ owner.view.secure

\* Not usable: forget the proof, hang up or ask for security once.
Unbind ==
  /\ owner.at = "bind" /\ ~Usable
  /\ auth' = AuthEnd(auth)
  /\ LET v   == owner.view
         ask == v.connected /\ owner.allowed /\ owner.asked # v.generation
     IN  /\ owner' = [owner EXCEPT !.at = "take", !.bound = 0, !.applied = "closed",
                                   !.asked = IF ask THEN v.generation ELSE @]
         /\ link' = IF v.connected /\ ~owner.allowed THEN Disconnect(link, v.generation)
                    ELSE IF ask /\ Current(link, v.generation)
                    THEN [link EXCEPT !.security = TRUE, !.control = TRUE] ELSE link
  /\ UNCHANGED <<env, tx, worker, control, radio, air, engine>>

\* A generation is bound to the proof once, and only a newer one.
Bind ==
  /\ owner.at = "bind" /\ Usable
  /\ LET g == owner.view.generation
     IN  IF owner.bound = g
         THEN /\ owner' = [owner EXCEPT !.at = "take"]
              /\ UNCHANGED <<auth, link>>
         ELSE /\ owner' = [owner EXCEPT !.at = "take", !.bound = g, !.applied = "closed"]
              /\ IF g > auth.high
                 THEN /\ auth' = [phase |-> "begin", generation |-> g, high |-> g,
                                  past |-> FALSE]
                      /\ UNCHANGED link
                 ELSE link' = Disconnect(link, g) /\ UNCHANGED auth
  /\ UNCHANGED <<env, tx, worker, control, radio, air, engine>>

\* aura_gatt_auth_take and aura_session_auth_receive.
Take ==
  /\ owner.at = "take" /\ owner' = [owner EXCEPT !.at = "arm"]
  /\ LET l    == Fresh(link)
         have == l.auth # "none" /\ Current(l, l.generation) /\ l.secure
         r    == IF have THEN Receive(auth, l.generation, owner.view.secure, l.auth)
                 ELSE [auth |-> auth, ok |-> TRUE]
         e    == [l EXCEPT !.auth = "none"]
     IN  /\ auth' = r.auth
         /\ link' = IF r.ok THEN e ELSE Disconnect(e, owner.view.generation)
  /\ UNCHANGED <<env, tx, worker, control, radio, air, engine>>

\* aura_gatt_auth_deadline, when the proof's deadline is another one.
Arm ==
  /\ owner.at = "arm"
  /\ LET l == Fresh(link)
         a == Deadline(auth)
     IN  IF ~Usable \/ a = owner.applied
         THEN /\ owner' = [owner EXCEPT !.at = "gate"]
              /\ UNCHANGED <<auth, link, env>>
         ELSE IF ~Current(l, owner.view.generation)
         THEN /\ owner' = [owner EXCEPT !.at = "gate"]
              /\ auth' = AuthEnd(auth) /\ link' = l /\ Happens(FALSE)
         ELSE \/ /\ a # "closed" /\ ~auth.past /\ Happens(FALSE)
                 /\ owner' = [owner EXCEPT !.at = "gate", !.applied = a]
                 /\ link' = [l EXCEPT !.deadline = "live"]
                 /\ UNCHANGED auth
              \/ /\ a = "closed" \/ auth.past \/ May("expire")
                 /\ Happens(a # "closed" /\ ~auth.past)
                 /\ owner' = [owner EXCEPT !.at = "gate"]
                 /\ auth' = AuthEnd(auth) /\ link' = Closed(l)
  /\ UNCHANGED <<tx, worker, control, radio, air, engine>>

\* Whether this tick asks the proof for a grant; radio_lock never does.
Asks == owner.then = "start" \/ (owner.then = "publish" /\ Usable)

\* The gate of the tick, and the second snapshot, of aura_gatt_owner_tick.
Gate ==
  /\ owner.at = "gate"
  /\ link' = Fresh(link)
  /\ LET v     == owner.view
         grant == Asks /\ auth.phase = "granted" /\ Live(auth, v.generation, v.secure)
     IN  /\ auth' = IF Asks THEN AfterLive(auth, v.generation, v.secure) ELSE auth
         /\ owner' = [owner EXCEPT !.at = "cut",
                        !.preempt = owner.then = "start" \/ owner.capture # "no",
                        !.authorized = /\ grant /\ v.generation = link'.generation
                                       /\ link'.conn # 0 /\ link'.secure /\ link'.subscribed]
  /\ UNCHANGED <<env, tx, worker, control, radio, air, engine>>

\* A session that is no longer authorized ends; a capture only cancels its work.
Cut ==
  /\ owner.at = "cut"
  /\ LET authorized == owner.authorized /\ link.deadline = "live"
         over == owner.session # 0 /\ (~authorized \/ owner.generation # owner.view.generation)
         stop == owner.session # 0 /\ ~over /\ owner.preempt /\ ~owner.preempted
         o    == [owner EXCEPT !.at = "drain", !.authorized = authorized]
     IN  /\ link' = IF over \/ stop THEN CancelCopies(link) ELSE link
         /\ engine' = IF over THEN SessionEnd(engine)
                      ELSE IF stop THEN ClearWork(engine) ELSE engine
         /\ owner' = IF over THEN [Cleared(o) EXCEPT !.session = 0, !.generation = 0]
                     ELSE IF stop THEN [Cleared(o) EXCEPT !.preempted = TRUE] ELSE o
  /\ UNCHANGED <<env, tx, worker, control, radio, air, auth>>

\* The completion is the one of the fragment the owner has under way.
Mine(t) ==
  /\ t.state = "done" /\ t.generation = owner.generation /\ t.session = owner.session
  /\ t.epoch = owner.epoch /\ t.transaction = owner.transaction
  /\ t.delivery = owner.delivery /\ t.offset = owner.offset

\* aura_transfer_response_sent accepts.
SentAccepted(t) ==
  /\ ~engine.moved /\ engine.work \in {"response", "sent"}
  /\ engine.transaction = t.transaction /\ engine.delivery = t.delivery

\* Mutant of Delivered: the end of a fragment counts, whatever it was.
DeliveredAnyhow(t) == TRUE

\* The radio took it while the gate that admitted it was still open.
Delivered(t) == t.success /\ TxAllowed(link, t)

\* drain_completion, and the end of a tick that may not transfer.
Drain ==
  /\ owner.at = "drain"
  /\ tx' = IF tx.state = "done" THEN NoTx ELSE tx
  /\ LET o    == [owner EXCEPT !.at = IF owner.authorized /\ ~owner.preempt
                                      THEN "admit" ELSE owner.then]
         last == owner.offset + 1 = Fragments
         ok   == Delivered(tx) /\ (last => SentAccepted(tx))
     IN  IF Mine(tx) /\ ~ok THEN OwnerFail(link, tx.generation)
         ELSE /\ owner' = IF ~Mine(tx) THEN o
                          ELSE IF last THEN Cleared(o) ELSE [o EXCEPT !.offset = @ + 1]
              /\ engine' = IF Mine(tx) /\ last THEN [engine EXCEPT !.work = "sent"] ELSE engine
              /\ UNCHANGED <<link, auth>>
  /\ UNCHANGED <<env, worker, control, radio, air>>

MayAdmit(g) == Current(link, g) /\ link.secure /\ link.subscribed

\* The engine gets a session, and the phone's command is taken under the lock.
Admit ==
  /\ owner.at = "admit"
  /\ LET g   == owner.view.generation
         new == owner.session = 0
         now == MayAdmit(g)
     IN  IF new /\ engine.count = MaxGeneration THEN OwnerFail(link, g)
         ELSE /\ engine' = IF new THEN SessionBegin(engine) ELSE engine
              /\ owner' = [owner EXCEPT !.session = engine'.session,
                             !.generation = IF new THEN g ELSE @, !.preempted = FALSE,
                             !.command = IF now THEN link.command ELSE "none",
                             !.at = IF now THEN "step" ELSE owner.then]
              /\ link' = IF now THEN [link EXCEPT !.admitted = TRUE, !.command = "none"] ELSE link
              /\ UNCHANGED auth
  /\ UNCHANGED <<env, tx, worker, control, radio, air>>

\* aura_transfer_submit admits command c in engine state e.
Admits(e, c) ==
  \/ c = "next" /\ e.work \in {"idle", "sent"}
  \/ /\ c = "same" /\ e.transaction # 0
     /\ e.work \in {"pending", "response"} \/ (e.work = "sent" /\ e.next < MaxDelivery)

Submitted(e, c) ==
  IF c = "next" THEN [e EXCEPT !.transaction = @ + 1, !.work = "pending"]
  ELSE IF c = "same" /\ e.work = "sent" THEN NewDelivery(e)
  ELSE e

\* aura_transfer_submit and aura_transfer_step; a journal that moved on fails both.
Submit ==
  /\ owner.at = "step"
  /\ LET c == owner.command
         e == Submitted(engine, c)
         o == [owner EXCEPT !.command = "none"]
     IN  IF \/ engine.moved \/ (c # "none" /\ ~Admits(engine, c))
            \/ e.work = "pending" /\ e.next = MaxDelivery
         THEN OwnerFail(link, owner.view.generation) /\ Happens(FALSE)
         ELSE /\ \/ /\ e.work = "pending" /\ May("slow")
                    /\ engine' = e /\ owner' = [o EXCEPT !.at = owner.then]
                 \/ /\ e.work \in {"pending", "response"}
                    /\ engine' = IF e.work = "pending" THEN NewDelivery(e) ELSE e
                    /\ owner' = [o EXCEPT !.at = "prepare"]
                 \/ /\ e.work \in {"idle", "sent"}
                    /\ engine' = e /\ owner' = [o EXCEPT !.at = owner.then]
              /\ Happens(engine'.work = "pending")
              /\ UNCHANGED <<link, auth>>
  /\ UNCHANGED <<tx, worker, control, radio, air>>

\* Mutant of SlotFree: a slot that waits for its completion is taken again.
SlotUnused == tx.state \in {"free", "submitted", "done"}

SlotFree == tx.state = "free"

\* publish_fragment up to the copy: the free slot takes the fragment's identity.
Prepare ==
  /\ owner.at = "prepare"
  /\ LET o  == IF owner.delivery = engine.delivery THEN owner
               ELSE [owner EXCEPT !.delivery = engine.delivery, !.offset = 0,
                                  !.transaction = engine.transaction]
         go == /\ SlotFree /\ Current(link, owner.generation)
               /\ link.admitted /\ link.secure /\ link.subscribed
     IN  /\ owner' = IF go THEN [o EXCEPT !.at = "ready", !.epoch = link.epoch]
                     ELSE [(IF SlotFree THEN o ELSE owner) EXCEPT !.at = owner.then]
         /\ tx' = IF go
                  THEN [NoTx EXCEPT !.state = "preparing", !.conn = link.conn,
                          !.generation = o.generation, !.session = o.session,
                          !.epoch = link.epoch, !.transaction = o.transaction,
                          !.delivery = o.delivery, !.offset = o.offset]
                  ELSE tx
  /\ UNCHANGED <<env, link, worker, control, radio, air, auth, engine>>

\* The fragment is copied; the slot is handed to the work queue if the gate is open.
Ready ==
  /\ owner.at = "ready" /\ owner' = [owner EXCEPT !.at = owner.then]
  /\ tx' = IF TxAllowed(link, tx) THEN [tx EXCEPT !.state = "ready"] ELSE Failed(tx)
  /\ UNCHANGED <<env, link, worker, control, radio, air, auth, engine>>

\* The proof's answer is looked up, and whether the link is ready to transfer.
Publish ==
  /\ owner.at = "publish"
  /\ LET g  == owner.view.generation
         ok == Usable /\ Live(auth, g, TRUE)
     IN  /\ auth' = IF Usable THEN AfterLive(auth, g, TRUE) ELSE auth
         /\ link' = IF ok THEN Fresh(link) ELSE IF Usable THEN Disconnect(link, g) ELSE link
         /\ owner' = [owner EXCEPT !.at = IF ok THEN "answer" ELSE "look",
                        !.fresh = ok /\ link'.admitted /\ link'.deadline = "live"]
  /\ UNCHANGED <<env, tx, worker, control, radio, air, engine>>

\* The confirmation is shown only after the engine was activated.
MayShow == auth.phase = "granted" => owner.fresh

\* aura_gatt_auth_publish.
Answer ==
  /\ owner.at = "answer" /\ owner' = [owner EXCEPT !.at = "look", !.fresh = FALSE]
  /\ LET l == Fresh(link)
     IN  link' = IF MayShow /\ Current(l, owner.view.generation) /\ l.secure
                 THEN [l EXCEPT !.shown = IF auth.phase = "granted" THEN "ASOK"
                                          ELSE IF auth.phase = "begin" THEN "ASNO" ELSE "ASC1"]
                 ELSE IF MayShow THEN l ELSE link
  /\ UNCHANGED <<env, tx, worker, control, radio, air, auth, engine>>

Tick == Look \/ Unbind \/ Bind \/ Take \/ Arm \/ Gate \/ Cut \/ Drain \/ Admit \/ Submit
        \/ Prepare \/ Ready \/ Publish \/ Answer

----------------------------------------------------------------------------
(* What the owner thread does between two ticks, and the local console.    *)

\* The interrupt that reads a START line.
AskCapture ==
  /\ owner.capture = "no" /\ owner.starts < MaxCaptures
  /\ owner' = [owner EXCEPT !.capture = "asked", !.starts = @ + 1]
  /\ UNCHANGED <<env, link, tx, worker, control, radio, air, auth, engine>>

\* begin: a tick that preempts, with its own snapshot, comes before the capture.
BeginCapture ==
  /\ owner.at = "look" /\ owner.capture = "asked"
  /\ link' = Fresh(link)
  /\ owner' = [owner EXCEPT !.at = "gate", !.then = "start", !.view = Snapshot(link')]
  /\ UNCHANGED <<env, tx, worker, control, radio, air, auth, engine>>

\* The rest of begin: refused, or storage is prepared, which moves the journal.
StartCapture ==
  /\ owner.at = "start"
  /\ \/ owner' = [owner EXCEPT !.at = "look", !.capture = "no"] /\ UNCHANGED engine
     \/ /\ \E c \in {"no", "on"} : owner' = [owner EXCEPT !.at = "look", !.capture = c]
        /\ engine' = [engine EXCEPT !.moved = TRUE]
  /\ UNCHANGED <<env, link, tx, worker, control, radio, air, auth>>

\* A capture programs pages until it ends, and every page moves the journal.
EndCapture ==
  /\ owner.at = "look" /\ owner.capture = "on"
  /\ owner' = [owner EXCEPT !.capture = "no"]
  /\ engine' = [engine EXCEPT !.moved = TRUE]
  /\ UNCHANGED <<env, link, tx, worker, control, radio, air, auth>>

\* radio_lock: nothing is allowed and the proof is forgotten; a denied tick follows.
Lock ==
  /\ owner.at = "look" /\ owner.allowed /\ May("lock") /\ Happens(TRUE)
  /\ LET l == Fresh(link) IN link' = Disconnect(l, l.generation)
  /\ owner' = [owner EXCEPT !.allowed = FALSE, !.at = "gate", !.then = "look",
                            !.bound = 0, !.asked = 0, !.applied = "closed"]
  /\ auth' = [AuthEnd(auth) EXCEPT !.high = 0]
  /\ UNCHANGED <<tx, worker, control, radio, air, engine>>

\* OPEN and RADIO again.
Allow ==
  /\ owner.at = "look" /\ ~owner.allowed /\ owner.capture = "no"
  /\ owner' = [owner EXCEPT !.allowed = TRUE]
  /\ UNCHANGED <<env, link, tx, worker, control, radio, air, auth, engine>>

Stack == Connected \/ Disconnected \/ SecurityChanged \/ Subscribe \/ MtuUpdated
Phone == AuthWrite \/ CommandWrite
Control == ControlTake \/ ControlCall \/ ControlAfter
Queue == TxTimeout \/ TxTake \/ TxCheck \/ TxNotify \/ TxAfter \/ Control \/ DeadlineWork
Console == AskCapture \/ BeginCapture \/ StartCapture \/ EndCapture \/ Lock \/ Allow

Next == Stack \/ Phone \/ Queue \/ Tick \/ Console \/ NotifyComplete
        \/ DeadlinePasses \/ TxLate

Spec == Init /\ [][Next]_vars

\* The owner thread, the work queue and time go on; the stack hangs up when it
\* was told to.  Nothing is assumed of the phone or of a completion.
Fairness ==
  /\ WF_vars(Tick \/ StartCapture) /\ WF_vars(Queue)
  /\ WF_vars(TxLate) /\ WF_vars(link.hangup /\ Disconnected)

FairSpec == Spec /\ Fairness

----------------------------------------------------------------------------
TypeOK ==
  /\ env \in [conns : 0 .. MaxConns, troubles : 0 .. MaxTroubles]
  /\ link \in [conn : 0 .. MaxConns, generation : 0 .. MaxGeneration,
               counter : 0 .. MaxGeneration, epoch : 0 .. MaxGeneration,
               secure : BOOLEAN, subscribed : BOOLEAN, closing : BOOLEAN,
               admitted : BOOLEAN, deadline : {"none", "live", "past"},
               security : BOOLEAN, drop : BOOLEAN, retries : 0 .. DropRetries + 1,
               control : BOOLEAN, hangup : BOOLEAN,
               command : {"none", "next", "same", "bad"},
               auth : {"none", "begin", "half", "proof", "bad"},
               shown : {"none", "ASNO", "ASC1", "ASOK"}]
  /\ tx \in [state : {"free", "preparing", "ready", "sending", "submitted", "done"},
             conn : 0 .. MaxConns, generation : 0 .. MaxGeneration,
             session : 0 .. MaxGeneration, epoch : 0 .. MaxGeneration,
             transaction : Nat, delivery : 0 .. MaxDelivery, offset : 0 .. Fragments,
             retries : 0 .. TxRetries, late : BOOLEAN, seen : BOOLEAN, success : BOOLEAN]
  /\ worker \in {"idle", "check", "notify", "handed", "full", "refused"}
  /\ control \in [at : {"idle", "call", "refused"}, conn : 0 .. MaxConns, drop : BOOLEAN]
  /\ radio \in 0 .. MaxConns
  /\ air \in [session : 0 .. MaxGeneration, delivery : 0 .. MaxDelivery, count : 0 .. Fragments]
  /\ auth \in [phase : {"closed", "begin", "challenge", "half", "granted"},
               generation : 0 .. MaxGeneration, high : 0 .. MaxGeneration, past : BOOLEAN]
  /\ engine \in [session : 0 .. MaxGeneration, count : 0 .. MaxGeneration,
                 work : {"idle", "pending", "response", "sent"},
                 transaction : 0 .. MaxTransaction + 1, next : 0 .. MaxDelivery,
                 delivery : 0 .. MaxDelivery, moved : BOOLEAN]
  /\ owner.session \in 0 .. MaxGeneration /\ owner.offset \in 0 .. Fragments - 1
  /\ owner.session # 0 => owner.session = engine.session

\* Only a phone that proved the owner's key on this very connection is ever
\* handed a notification with archive data, whatever reconnects in between.
OnlyToOwner == radio # 0 => radio \in Owners

\* The gate stands open only for the connection the engine's session was
\* begun for, and never without a session.
AdmittedIsGranted ==
  link.admitted => /\ link.conn \in Owners
                   /\ owner.session # 0 /\ owner.generation = link.generation

\* As long as the stack owes a completion the slot it refers to is not reused,
\* through timeouts and disconnects.
OneFlight == radio # 0 => tx.state \in {"sending", "submitted"} /\ tx.conn = radio

\* The shape of the state, with who is admitted, who is sent data and who owns
\* the slot in it.
RadioInv == TypeOK /\ AdmittedIsGranted /\ OnlyToOwner /\ OneFlight

\* A response counts as sent only when the radio took every fragment of that
\* very delivery and has completed the last one; on the way there fragments go
\* out one after the other and once each, and deliveries never go back.
SentIsWhole ==
  [][/\ engine.work = "response" /\ engine'.work = "sent" =>
          /\ air = [session |-> engine.session, delivery |-> engine.delivery, count |-> Fragments]
          /\ radio = 0
     /\ air' # air =>
          /\ tx.offset + 1 = air'.count /\ air'.count <= Fragments
          /\ \/ air'.session > air.session
             \/ air'.session = air.session /\ air'.delivery >= air.delivery]_<<engine, air>>

\* The counters have run out, after UINT64_MAX changes.
Exhausted == link.epoch = MaxGeneration \/ link.counter = MaxGeneration

\* A generation that was closed is hung up; the connection does not linger.  The
\* one closing that schedules nothing is that of cancel_copies at the last epoch.
ClosedHangsUp == (link.closing /\ link.conn # 0 /\ ~Exhausted) ~> (link.conn = 0)

\* The slot still belongs to a notification of an earlier generation, which the
\* stack has not completed: it is kept for that callback, however long it takes.
Quarantined ==
  radio # 0 /\ tx.state = "submitted" /\ tx.generation # owner.generation

\* A response is handed over in full, or given up with its session or for a
\* capture, also when a completion of it never comes; only a notification that
\* an earlier connection left with the stack can hold it back, and no longer
\* than the stack holds that one.
ResponseEnds ==
  engine.work = "response" ~> (engine.work # "response" \/ Quarantined)

\* Claimed of a capture: it cancels the transfer's work and keeps the session.
\* In a step of the engine without a command the session stays.
CaptureKeepsSession ==
  [][owner.at = "step" /\ owner.command = "none" => owner'.session = owner.session]_owner
==============================================================================
