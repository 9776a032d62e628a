-------------------------- MODULE MCInfinityRelay --------------------------
(* Small instances of InfinityRelay for TLC.                               *)
EXTENDS InfinityRelay, TLC

\* Bytes the client and the upstream may send.
ThreeAndOne == 0 :> 3 @@ 1 :> 1
TwoAndNone == 0 :> 2 @@ 1 :> 0
=============================================================================
