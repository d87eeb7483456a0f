---------------------------- MODULE MCControlLedger ----------------------------
(* Instances of ControlLedger for TLC.                                        *)
EXTENDS ControlLedger

\* "empty" fills no body page, "full" every one.
MCBodies == [v \in Value |-> IF v = "full" THEN MaxBodies ELSE 0]

OnePageFaults == {{}} \cup {{<<s, p>>} : s \in {0, 1}, p \in 1 .. MaxBodies + 2}
===============================================================================
