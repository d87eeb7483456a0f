------------------------------ MODULE MCPairing ------------------------------
(* Instances of Pairing for TLC: CONFIG_BT_MAX_CONN gives the stack one object. *)
EXTENDS Pairing

CONSTANTS c1, k1, k2

MCConns    == {c1}
MCPasskeys == {k1, k2}
===============================================================================
