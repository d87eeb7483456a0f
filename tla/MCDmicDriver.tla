------------------------------ MODULE MCDmicDriver ------------------------------
(* Instances of DmicDriver for TLC. *)
EXTENDS DmicDriver

CONSTANTS b1, b2, b3, b4

MCBuffer == {b1, b2, b3, b4}
===============================================================================
