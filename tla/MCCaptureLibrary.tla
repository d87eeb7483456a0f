-------------------------- MODULE MCCaptureLibrary --------------------------
(* Instances of CaptureLibrary for TLC. *)
EXTENDS CaptureLibrary, TLC

CONSTANTS k1, k2, a1, a2, s1, s2

MCKey   == {k1, k2}
MCAck   == {a1, a2}
MCStore == {s1, s2}

MCSymmetry == Permutations(MCKey) \cup Permutations(MCAck) \cup Permutations(MCStore)
===============================================================================
