--------------------------- MODULE SnapshotRegister ---------------------------
(***************************************************************************)
(* What firmware/a04's control ledger promises its single owner: a durable *)
(* log of whole snapshots that only ever grows by one, and contexts that   *)
(* either hold no authority or hold what was the end of the log at some    *)
(* moment.  A context gains authority only over the complete current log:  *)
(* there is no action by which it could observe an older snapshot.         *)
(***************************************************************************)
EXTENDS Sequences

CONSTANTS Context,    \* the contexts (struct aura_control) that use the pair
          Value       \* the snapshots their owner stores

VARIABLES log,        \* every snapshot that became current, in order
          view        \* view[c]: the log c believes in, << >> if unready

vars == <<log, view>>

Init == /\ log  = << >>
        /\ view = [c \in Context |-> << >>]

\* A snapshot becomes current, atomically and for ever.
Commit(v) == /\ log' = Append(log, v)
             /\ UNCHANGED view

\* A context is given authority over exactly the current log.
Observe(c) == /\ log # << >>
              /\ view' = [view EXCEPT ![c] = log]
              /\ UNCHANGED log

\* Contexts fail, or a power cut clears them.
Lose(S) == /\ view' = [c \in Context |-> IF c \in S THEN << >> ELSE view[c]]
           /\ UNCHANGED log

\* A commit that is cut off takes the contexts with it.
CommitAndLose(v, S) ==
    /\ log' = Append(log, v)
    /\ view' = [c \in Context |-> IF c \in S THEN << >> ELSE view[c]]

Next == \/ \E v \in Value : Commit(v)
        \/ \E c \in Context : Observe(c)
        \/ \E S \in SUBSET Context : Lose(S)
        \/ \E v \in Value, S \in SUBSET Context : CommitAndLose(v, S)

Spec == Init /\ [][Next]_vars
===============================================================================
