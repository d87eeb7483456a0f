-------------------------------- MODULE Pairing --------------------------------
(***************************************************************************)
(* The pairing policy of the radio build (aura_pairing_zephyr.c): a window *)
(* that is opened at the console, a bounded number of attempts in it, and  *)
(* a queue of events for the console.                                      *)
(*                                                                         *)
(* The Bluetooth stack (callbacks), the system work queue (expiry) and the *)
(* owner (commands and the radio tick) call it.  todo[t] is what thread t  *)
(* still has to execute: one frame is one section under the policy's lock  *)
(* or one call made outside it, and may put what it calls in front of the  *)
(* rest.  The first two threads are cooperative: nothing else runs before  *)
(* they return or wait, and they wait only in the stack's cancellation.    *)
(* The owner may be preempted between any two frames.                      *)
(*                                                                         *)
(* The link, its generation and the references to its connection object    *)
(* are the GATT adapter's and the stack's.  An attempt whose features are  *)
(* refused changes nothing and is left out; bondable is always whether a   *)
(* window is set.                                                          *)
(***************************************************************************)
EXTENDS Naturals, Sequences, FiniteSets

CONSTANTS
  Conns,        \* the stack's connection objects
  Passkeys,     \* keys that the stack asks to display
  None,         \* no connection, no key, no event
  AttemptsMax,  \* ATTEMPTS_MAX
  EventsMax,    \* EVENTS_MAX
  MaxWindow,    \* UINT64_MAX of the window counter
  MaxGen,       \* bound on the link generations of a run
  Renewals      \* does a link change its generation while it lasts?

Event == [kind : {"passkey", "cancelled", "complete", "expired"},
          key : Passkeys \cup {None}, window : 0 .. MaxWindow, connection : 0 .. MaxGen]

ASSUME PairingAssumption ==
  /\ None \notin Conns \cup Passkeys \cup Event
  /\ AttemptsMax \in Nat \ {0} /\ EventsMax \in Nat \ {0}
  /\ MaxWindow \in Nat /\ MaxGen \in Nat /\ Renewals \in BOOLEAN

VARIABLES
  pairing,    \* P; due: the deadline has been reached
  timer,      \* the window for whose deadline the expiry work waits, or 0
  link,       \* connection, current generation (0 when it closes), generations used
  refs,       \* refs[c]: references to the connection object c
  todo,       \* todo[t]: what thread t still has to execute
  told,       \* history: the last event that the owner took
  spoiled     \* history: an attempt of the current generation ended without success

vars == <<pairing, timer, link, refs, todo, told, spoiled>>

Threads == {"stack", "work", "owner"}

Frame(op, c, g, arg) == [op |-> op, conn |-> c, gen |-> g, arg |-> arg]
Plain(op) == Frame(op, None, 0, None)

Init ==
  /\ pairing = [window |-> 0, due |-> FALSE, counter |-> 0, attempt |-> None,
                attemptWindow |-> 0, connection |-> 0, attempts |-> 0, events |-> <<>>]
  /\ timer = 0 /\ link = [conn |-> None, gen |-> 0, counter |-> 0]
  /\ refs = [c \in Conns |-> 0] /\ todo = [t \in Threads |-> <<>>]
  /\ told = None /\ spoiled = FALSE

-----------------------------------------------------------------------------
(* Threads *)

Runs(t) == todo[t] # <<>> /\ Head(todo[t]).op # "auth"

Turn(t) == \A u \in {"stack", "work"} \ {t} : ~ Runs(u)

Top(t) == Head(todo[t])

At(t, op) == Turn(t) /\ todo[t] # <<>> /\ Top(t).op = op

Then(t, frames) == todo' = [todo EXCEPT ![t] = frames \o Tail(@)]

Call(t, frames) == Turn(t) /\ todo[t] = <<>> /\ todo' = [todo EXCEPT ![t] = frames]

policy == <<pairing, timer, link, refs, told, spoiled>>

\* Nothing changes but what the thread does next.
Goes(t, frames) == Then(t, frames) /\ UNCHANGED policy

-----------------------------------------------------------------------------
(* What the sections do to P *)

OpenLocked == pairing.window # 0 /\ ~ pairing.due

CloseWindow(p) == [p EXCEPT !.window = 0, !.due = FALSE]

Detach(p) == [p EXCEPT !.attempt = None, !.attemptWindow = 0, !.connection = 0]

\* terminal_locked and detach_locked: queued keys are discarded.
Terminal(kind) ==
  Detach([pairing EXCEPT !.events =
            <<[kind |-> kind, key |-> None, window |-> pairing.counter,
               connection |-> pairing.connection]>>])

\* The window, which an attempt that used up the budget closes.
Spent(p) == IF p.attempts >= AttemptsMax THEN CloseWindow(p) ELSE p

Unref(c) == Frame("unref", c, 0, None)

\* Mutant of CancelConnection: the attempt's reference is not given back.
CancelConnectionLeaks ==
  IF pairing.attempt = None THEN <<>>
  ELSE <<Frame("check", pairing.attempt, pairing.connection, None)>>

\* cancel_connection of the attempt that is detached
CancelConnection ==
  IF pairing.attempt = None THEN <<>>
  ELSE <<Frame("check", pairing.attempt, pairing.connection, None), Unref(pairing.attempt)>>

\* The section ends the attempt, if there is one, without success.
Ends(t, p, frames) ==
  /\ pairing' = p /\ Then(t, frames)
  /\ spoiled' = (spoiled \/ pairing.connection \in {link.gen} \ {0})
  /\ UNCHANGED <<timer, link, refs, told>>

-----------------------------------------------------------------------------
(* Sections and calls that several threads execute *)

\* Mutant of Expire: the deadline waits for the attempt under way.
ExpireIdle(t) ==
  /\ At(t, "expire")
  /\ IF pairing.window # 0 /\ pairing.due /\ pairing.attempt = None
     THEN Ends(t, CloseWindow(Terminal("expired")), CancelConnection)
     ELSE Goes(t, <<>>)

\* expire_if_due: whoever comes by closes a window that is due.
Expire(t) ==
  /\ At(t, "expire")
  /\ IF pairing.window # 0 /\ pairing.due
     THEN Ends(t, CloseWindow(Terminal("expired")), CancelConnection)
     ELSE Goes(t, <<>>)

\* Mutant of Check: a link that the work queue gives up is left to the phone.
CheckLazily(t) ==
  At(t, "check") /\ Goes(t, IF t = "owner" THEN <<[Top(t) EXCEPT !.op = "hangup"]>> ELSE <<>>)

\* aura_gatt_connection_generation in cancel_connection
Check(t) ==
  /\ At(t, "check")
  /\ Goes(t, IF link.conn = Top(t).conn /\ link.gen # 0 /\ link.gen = Top(t).gen
             THEN <<[Top(t) EXCEPT !.op = "hangup"]>> ELSE <<>>)

\* aura_gatt_disconnect, which compares the generation itself
Hangup(t) ==
  /\ At(t, "hangup")
  /\ IF link.gen = Top(t).gen THEN link' = [link EXCEPT !.gen = 0] /\ spoiled' = FALSE
     ELSE UNCHANGED <<link, spoiled>>
  /\ Then(t, <<Frame("auth", Top(t).conn, 0, None)>>)
  /\ UNCHANGED <<pairing, timer, refs, told>>

\* bt_conn_auth_cancel may call back before it returns.
AuthCancel(t) ==
  /\ At(t, "auth")
  /\ \E back \in {<<>>, <<Frame("failed", Top(t).conn, 0, None)>>} : Goes(t, back)

GiveBack(t) ==
  /\ At(t, "unref")
  /\ refs' = [refs EXCEPT ![Top(t).conn] = @ - 1] /\ Then(t, <<>>)
  /\ UNCHANGED <<pairing, timer, link, told, spoiled>>

\* failed_attempt, for cancelled, confirm and failed; and the disconnected
\* callback, which has nothing to hang up.
Failed(t) ==
  \E op \in {"failed", "gone"} :
    /\ At(t, op)
    /\ IF pairing.attempt # Top(t).conn THEN Goes(t, <<>>)
       ELSE Ends(t, Spent(Terminal("cancelled")),
                 IF op = "failed" THEN CancelConnection ELSE <<Unref(pairing.attempt)>>)

\* k_work_reschedule to a deadline that was read under the lock
Arm(t) ==
  /\ At(t, "arm")
  /\ timer' = Top(t).gen /\ Then(t, <<>>)
  /\ UNCHANGED <<pairing, link, refs, told, spoiled>>

Common(t) ==
  Expire(t) \/ Check(t) \/ Hangup(t) \/ AuthCancel(t) \/ GiveBack(t) \/ Failed(t) \/ Arm(t)

-----------------------------------------------------------------------------
(* The owner: PAIR, LOCK or START, and the take of every radio tick *)

Command ==
  /\ \E frames \in {<<Plain("expire"), Plain("open")>>, <<Plain("close")>>,
                    <<Plain("expire"), Frame("pop", None, EventsMax, None)>>} :
       Call("owner", frames)
  /\ UNCHANGED policy

\* aura_pairing_open after its expire_if_due: an open window keeps its deadline.
Open ==
  LET w == pairing.counter + 1 IN
  /\ At("owner", "open")
  /\ IF OpenLocked \/ pairing.counter = MaxWindow THEN Goes("owner", <<>>)
     ELSE /\ pairing' = [pairing EXCEPT !.counter = w, !.window = w, !.due = FALSE,
                                        !.attempts = 0, !.events = <<>>]
          /\ Then("owner", <<Frame("arm", None, w, None)>>)
          /\ UNCHANGED <<timer, link, refs, told, spoiled>>

\* aura_pairing_close
Close ==
  /\ At("owner", "close")
  /\ IF pairing.window = 0 /\ pairing.attempt = None THEN Goes("owner", <<>>)
     ELSE Ends("owner", CloseWindow(Terminal("cancelled")), CancelConnection)

\* What of an event the history keeps.
Shown(e) == [e EXCEPT !.key = None]

\* aura_pairing_take's first section.  gen counts the events it may still look at.
Pop ==
  LET f == Top("owner")
      e == Head(pairing.events)
      valid == /\ e.window = pairing.counter
               /\ e.kind = "passkey" => /\ OpenLocked /\ pairing.window = e.window
                                        /\ pairing.attempt # None
                                        /\ pairing.connection = e.connection
  IN
  /\ At("owner", "pop")
  /\ \/ /\ pairing.events = <<>> \/ f.gen = 0
        /\ Then("owner", <<>>) /\ UNCHANGED <<pairing, refs, told>>
     \/ /\ pairing.events # <<>> /\ f.gen # 0
        /\ pairing' = [pairing EXCEPT !.events = Tail(@)]
        /\ CASE ~ valid -> /\ Then("owner", <<[f EXCEPT !.gen = @ - 1]>>)
                           /\ UNCHANGED <<refs, told>>
             [] valid /\ e.kind # "passkey" -> told' = Shown(e) /\ Then("owner", <<>>) /\ UNCHANGED refs
             [] valid /\ e.kind = "passkey" ->
                  /\ refs' = [refs EXCEPT ![pairing.attempt] = @ + 1]
                  /\ Then("owner", <<Frame("look", pairing.attempt, f.gen - 1, e)>>)
                  /\ UNCHANGED told
  /\ UNCHANGED <<timer, link, spoiled>>

\* Its second one, between whose halves the current generation is read
Look ==
  LET f == Top("owner")
      seen == At("owner", "look") /\ link.conn = f.conn /\ link.gen = f.arg.connection
      valid == /\ At("owner", "report") /\ OpenLocked
               /\ pairing.attempt = f.conn /\ pairing.window = f.arg.window
  IN
  /\ At("owner", "look") \/ At("owner", "report")
  /\ Then("owner", CASE seen -> <<[f EXCEPT !.op = "report"]>>
                     [] valid -> <<Unref(f.conn)>>
                     [] OTHER -> <<Unref(f.conn), Frame("pop", None, f.gen, None)>>)
  /\ told' = IF valid THEN Shown(f.arg) ELSE told
  /\ UNCHANGED <<pairing, timer, link, refs, spoiled>>

-----------------------------------------------------------------------------
(* The work queue and time *)

Fires ==
  /\ timer # 0 /\ (timer = pairing.window => pairing.due)
  /\ Call("work", <<Plain("expire"), Plain("poll")>>) /\ timer' = 0
  /\ UNCHANGED <<pairing, link, refs, told, spoiled>>

\* expiry_work arms itself for the window that it finds.
Poll ==
  /\ At("work", "poll")
  /\ Goes("work", IF pairing.window = 0 THEN <<>>
                  ELSE <<Frame("arm", None, pairing.window, None)>>)

Time ==
  /\ OpenLocked /\ pairing' = [pairing EXCEPT !.due = TRUE]
  /\ UNCHANGED <<timer, link, refs, todo, told, spoiled>>

-----------------------------------------------------------------------------
(* The stack's callbacks read the generation before they take the lock *)

Callback(c) ==
  /\ link.conn = c
  /\ \/ \E op \in {"accept", "secured", "weak", "failed"} :
          Call("stack", <<Frame(op, c, link.gen, None)>>)
     \/ \E k \in Passkeys : Call("stack", <<Frame("display", c, link.gen, k)>>)
  /\ UNCHANGED policy

Accept ==
  LET f == Top("stack") IN
  /\ At("stack", "accept")
  /\ IF \/ f.gen = 0 \/ ~ OpenLocked
        \/ pairing.attempt # None \/ pairing.attempts = AttemptsMax
     THEN Goes("stack", <<>>)
     ELSE /\ pairing' = [pairing EXCEPT !.events = <<>>, !.attempt = f.conn, !.attempts = @ + 1,
                                        !.connection = f.gen, !.attemptWindow = pairing.window]
          /\ refs' = [refs EXCEPT ![f.conn] = @ + 1] /\ Then("stack", <<>>)
          /\ UNCHANGED <<timer, link, told, spoiled>>

\* What display and complete ask of the attempt they are called for
Current(f) ==
  /\ f.gen # 0 /\ pairing.connection = f.gen
  /\ pairing.attemptWindow = pairing.window /\ OpenLocked

\* display: a key that cannot be queued ends its attempt.
Display ==
  LET f == Top("stack")
      owns == pairing.attempt = f.conn
      n == Len(pairing.events)
      same == n # 0 /\ pairing.events[n].key = f.arg
      accepted == owns /\ Current(f) /\ (same \/ n < EventsMax)
  IN
  /\ At("stack", "display")
  /\ pairing' = IF accepted /\ ~ same
                THEN [pairing EXCEPT !.events = Append(@,
                        [kind |-> "passkey", key |-> f.arg, window |-> pairing.window,
                         connection |-> f.gen])]
                ELSE pairing
  /\ Then("stack", IF owns /\ ~ accepted THEN <<[f EXCEPT !.op = "failed", !.arg = None]>>
                   ELSE <<>>)
  /\ UNCHANGED <<timer, link, refs, told, spoiled>>

\* Mutant of Paired: the window stays open.
PairedOpen == Terminal("complete")

Paired == CloseWindow(Terminal("complete"))

\* complete: the link is secured at level 4 with a full key, or weaker; either
\* way the window is used up.
Complete(op) ==
  LET c == Top("stack").conn
      success == Current(Top("stack")) /\ op = "secured"
  IN
  /\ At("stack", op)
  /\ CASE pairing.attempt # c -> Goes("stack", <<>>)
       [] pairing.attempt = c /\ ~ success ->
            Ends("stack", CloseWindow(Terminal("cancelled")), CancelConnection)
       [] pairing.attempt = c /\ success ->
            /\ pairing' = Paired /\ Then("stack", <<Unref(c)>>)
            /\ UNCHANGED <<timer, link, refs, told, spoiled>>

-----------------------------------------------------------------------------
(* The link: the adapter refers to its connection while it lasts, and the  *)
(* stack uses an object again only when nothing refers to it.              *)

Connect(c) ==
  /\ Call("stack", <<>>)
  /\ link.conn = None /\ refs[c] = 0 /\ link.counter < MaxGen
  /\ link' = [conn |-> c, gen |-> link.counter + 1, counter |-> link.counter + 1]
  /\ refs' = [refs EXCEPT ![c] = 1]
  /\ UNCHANGED <<pairing, timer, told, spoiled>>

\* invalidate_locked: an unsubscription renews the generation, anything else
\* that the radio takes for a fault closes it.
Invalidate ==
  /\ Turn("owner") /\ link.gen # 0
  /\ \/ /\ Renewals /\ link.counter < MaxGen
        /\ link' = [link EXCEPT !.gen = link.counter + 1, !.counter = @ + 1]
     \/ link' = [link EXCEPT !.gen = 0]
  /\ spoiled' = FALSE /\ UNCHANGED <<pairing, timer, refs, todo, told>>

\* The disconnected callbacks of the policy and of the adapter run in any order,
\* and a pairing under way may be reported as failed first.
Disconnect ==
  LET F(op) == Frame(op, link.conn, 0, None) IN
  /\ link.conn # None
  /\ \E before \in {<<>>, <<F("failed")>>},
        order \in {<<F("gone"), F("unlink")>>, <<F("unlink"), F("gone")>>} :
       Call("stack", before \o order)
  /\ UNCHANGED policy

Unlink ==
  /\ At("stack", "unlink") /\ Then("stack", <<Unref(link.conn)>>)
  /\ link' = [link EXCEPT !.conn = None, !.gen = 0] /\ spoiled' = FALSE
  /\ UNCHANGED <<pairing, timer, refs, told>>

-----------------------------------------------------------------------------
OwnerStep == Common("owner") \/ Open \/ Close \/ Pop \/ Look
WorkStep  == Common("work") \/ Poll
StackStep == Common("stack") \/ Accept \/ Display \/ Complete("secured") \/ Complete("weak")
             \/ Unlink

Next ==
  \/ OwnerStep \/ WorkStep \/ StackStep
  \/ Command \/ Fires \/ Time \/ Invalidate \/ Disconnect
  \/ \E c \in Conns : Callback(c) \/ Connect(c)

Spec == Init /\ [][Next]_vars

\* A callback that runs returns, and time passes.  The phone cannot keep the
\* processor busy: between its callbacks the other threads get their turn.
FairSpec ==
  /\ Spec /\ WF_vars(StackStep) /\ WF_vars(Time)
  /\ SF_vars(OwnerStep) /\ SF_vars(WorkStep) /\ SF_vars(Fires)

-----------------------------------------------------------------------------
TypeOK ==
  /\ pairing \in [window : 0 .. MaxWindow, due : BOOLEAN, counter : 0 .. MaxWindow,
                  attempt : Conns \cup {None}, attemptWindow : 0 .. MaxWindow,
                  connection : 0 .. MaxGen, attempts : 0 .. AttemptsMax, events : Seq(Event)]
  /\ Len(pairing.events) <= EventsMax
  /\ timer \in 0 .. MaxWindow
  /\ link \in [conn : Conns \cup {None}, gen : 0 .. MaxGen, counter : 0 .. MaxGen]
  /\ refs \in [Conns -> Nat] /\ told \in Event \cup {None} /\ spoiled \in BOOLEAN
  /\ DOMAIN todo = Threads

\* Every reference to a connection is the adapter's, the attempt's, or one that
\* a thread is going to give back: none is lost, so that the only connection
\* object can be used again, and none is given back twice.
RefsBalanced ==
  \A c \in Conns :
    LET Held(t) == {t} \X {i \in DOMAIN todo[t] :
                              /\ todo[t][i].conn = c
                              /\ todo[t][i].op \in {"unref", "look", "report"}}
        users == {x \in {<<"link", link.conn>>, <<"attempt", pairing.attempt>>} : x[2] = c}
    IN refs[c] = Cardinality(UNION {Held(t) : t \in Threads}) + Cardinality(users)

\* State and references, with an attempt only inside a window.
PairingInv ==
  /\ TypeOK /\ RefsBalanced
  /\ pairing.attempt # None => pairing.attemptWindow \in 1 .. pairing.window

\* A connection whose attempt was cancelled, failed or timed out does not get
\* another chance: it is hung up before the thread that ended it has returned
\* (aura_pairing_zephyr.c:155-156).
SpoiledIsHungUp ==
  spoiled => \E t \in Threads : \E i \in DOMAIN todo[t] :
               /\ todo[t][i].conn = link.conn
               /\ \/ todo[t][i].op \in {"check", "hangup"} /\ todo[t][i].gen = link.gen
                  \/ todo[t][i].op = "unlink"

\* What the console shows goes forward: windows in their order, attempts of one
\* window in theirs, nothing of a window after it expired or its pairing was
\* complete, and no key of an attempt whose cancellation was shown.
ToldInOrder ==
  [][told # None =>
       /\ told'.window >= told.window
       /\ told.kind \in {"complete", "expired"} => told'.window > told.window
       /\ told'.window = told.window /\ 0 \notin {told.connection, told'.connection} =>
            /\ told'.connection >= told.connection
            /\ told.kind = "cancelled" /\ told'.kind = "passkey" =>
                 told'.connection > told.connection]_told

\* No window stays open for ever, whether or not the owner looks after it:
\* the expiry work finds the deadline of every window, also when it runs late,
\* for an older window, or between a close and the next open.
WindowEnds == \A w \in 1 .. MaxWindow : [](pairing.window = w => <>(pairing.window # w))

\* Claimed in docs/a04/session-auth-v1.md:263-264: a timeout discards the attempt.  It
\* does not hold: a deadline that passes between the expiry of a PAIR command and the
\* section that opens the next window leaves the attempt of the old one selected.
TimeoutDiscards == pairing.attempt # None => pairing.attemptWindow = pairing.window
================================================================================
