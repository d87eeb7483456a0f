--------------------------- MODULE MCReleaseOutbox ---------------------------
(* Instances of ReleaseOutbox for TLC. *)
EXTENDS ReleaseOutbox, TLC

CONSTANTS c1, c2, p1, p2, r1, r2

MCCapture == {c1, c2}
MCCaller  == {p1, p2}
MCRequest == {r1, r2}

\* Two whole archives, and a copy of the first that broke off before its packet.
MCFile ==
  {[cap |-> c1, n |-> 1, seal |-> "final", tail |-> 0],
   [cap |-> c2, n |-> 0, seal |-> "final", tail |-> 0],
   [cap |-> c1, n |-> 0, seal |-> "none", tail |-> 0]}

MCSymmetry == Permutations(MCCaller) \cup Permutations(MCRequest)
===============================================================================
