--------------------------- MODULE MCDawnHexTick ---------------------------
(* Small instances of DawnHexTick for TLC.                                 *)
EXTENDS DawnHexTick

CONSTANTS f1, s1

FileWriter == {f1}
SysfsWriter == {s1}
Nobody == {}

\* Below, inside and above the limits 1 .. 2.
TickMsArguments == 0 .. 3
=============================================================================
