----------------------------- MODULE MCStorageOwner -----------------------------
(* Instances of StorageOwner for TLC. *)
EXTENDS StorageOwner

CONSTANTS b1, b2, b3

MCBlock == {b1, b2, b3}
===============================================================================
