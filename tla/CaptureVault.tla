----------------------------- MODULE CaptureVault -----------------------------
(***************************************************************************)
(* What the storage owner promises about recordings, without blocks,       *)
(* ledgers or power cuts: a capture generation is handed out once, becomes *)
(* a recording, may be finished, and leaves the device only after it was   *)
(* finished and its owner permitted exactly that capture's release.        *)
(***************************************************************************)
EXTENDS Naturals

CONSTANT Generation     \* capture generations: 1, 2, .. up to the last one

VARIABLES
  status,      \* status[g]: what has become of generation g
  permitted    \* the generations whose release the owner has permitted

Status == {"unused", "reserved", "held", "final", "released"}

Init == /\ status = [g \in Generation |-> "unused"]
        /\ permitted = {}

Become(g, from, to) ==
  status[g] = from /\ status' = [status EXCEPT ![g] = to]

\* Generations are handed out in order, whether or not they are then used.
Reserve(g) == /\ \A f \in Generation : f < g <=> status[f] # "unused"
              /\ Become(g, "unused", "reserved")
              /\ UNCHANGED permitted

Write(g)   == Become(g, "reserved", "held") /\ UNCHANGED permitted
Finish(g)  == Become(g, "held", "final") /\ UNCHANGED permitted

Permit(g)  == /\ status[g] \in {"held", "final"}
              /\ permitted' = permitted \cup {g}
              /\ UNCHANGED status

Release(g) == /\ g \in permitted
              /\ Become(g, "final", "released")
              /\ UNCHANGED permitted

Next == \E g \in Generation :
          Reserve(g) \/ Write(g) \/ Finish(g) \/ Permit(g) \/ Release(g)

Spec == Init /\ [][Next]_<<status, permitted>>
===============================================================================
