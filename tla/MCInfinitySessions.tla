------------------------ MODULE MCInfinitySessions ------------------------
(* InfinitySessions for TLC: its constants are numbers, given in the cfgs. *)
EXTENDS InfinitySessions
=============================================================================
