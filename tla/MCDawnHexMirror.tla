-------------------------- MODULE MCDawnHexMirror --------------------------
(* DawnHexMirror on the instances MCDawnHex names.                         *)
EXTENDS MCDawnHex, DawnHexMirror
=============================================================================
