----------------------------- MODULE MCDawnHex -----------------------------
(* Small instances of DawnHexCluster for TLC.                              *)
EXTENDS DawnHexCluster

\* Id 3 is out of range when MaxNodes = 3.
AllIdsAndOne == 0 .. 3
TwoIds == {0, 1}

NoInputs == {}
BothWays == {TRUE, FALSE}

\* Arguments of "energy", "health" and "duo pulse": 9 is over range.
High == {9}
LowAndHigh == {0, 9}
=============================================================================
