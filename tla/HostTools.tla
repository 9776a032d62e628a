----------------------------- MODULE HostTools -----------------------------
(***************************************************************************)
(* The host programs, each on its own: one of them runs, from any start.   *)
(* A program that can go on does.                                          *)
(***************************************************************************)
EXTENDS RunwayClient, CausticSampler, CausticScores, DeltaPack

Init == RunwayInit \/ CausticInit \/ DeltaInit
Next == RunwayNext \/ CausticNext \/ DeltaNext

Spec == Init /\ [][Next]_vars

(* Each program is one thread, which the system runs whenever it can. *)
FairSpec ==
  /\ Spec
  /\ WF_vars(RunwayStep) /\ WF_vars(CausticStep) /\ WF_vars(DeltaNext)
=============================================================================
