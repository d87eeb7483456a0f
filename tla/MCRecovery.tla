---------------------------- MODULE MCRecovery ----------------------------
(* Small sources for TLC: a header record, then records of unequal length. *)
EXTENDS Recovery

TwoVersionBoundaries == <<{0, 1, 3}, {0, 1, 2}>>
\* The second version has a record that one connection may not carry.
LongBoundaries == <<{0, 1, 3}, {0, 3}>>
=============================================================================
