---------------------------- MODULE MCEventRing ----------------------------
(* Small instances of EventRing for TLC.                                   *)
EXTENDS EventRing

CONSTANTS r1, r2

TwoReaders == {r1, r2}
=============================================================================
