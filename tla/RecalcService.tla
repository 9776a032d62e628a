---------------------------- MODULE RecalcService ----------------------------
(***************************************************************************)
(* What the Simplex adalter module promises its callers, without pool,     *)
(* work item or flushing: a call that writes configuration or base returns *)
(* only once a report has been made of an input that has the write in it,  *)
(* and a report is always made of one input, never of parts of two.  The   *)
(* promise ends when the service closes.                                   *)
(***************************************************************************)
CONSTANTS Callers,      \* whoever writes the input, the loader included
          Inputs,       \* the values the input takes
          NoReport,     \* the zeroed report before the first recomputation
          Reported(_)   \* the report made of an input

VARIABLES serving,      \* the promise holds
          input,        \* the configuration and the base
          report,       \* what the readers are shown
          inside,       \* callers whose call has written and not returned
          owed          \* callers whose write no report has in it yet
vars == <<serving, input, report, inside, owed>>

Init == /\ serving = TRUE /\ input \in Inputs /\ report = NoReport
        /\ inside \subseteq Callers /\ owed = inside

Write == \E t \in Callers \ inside, i \in Inputs :
  /\ input' = i /\ inside' = inside \union {t} /\ owed' = owed \union {t}
  /\ UNCHANGED <<serving, report>>

Recompute == /\ report' = Reported(input) /\ owed' = {}
             /\ UNCHANGED <<serving, input, inside>>

(* Several calls may return at once: those that waited for one report.     *)
Return == /\ inside' \in SUBSET inside
          /\ serving => (inside \ inside') \intersect owed = {}
          /\ UNCHANGED <<serving, input, report, owed>>

Close == /\ serving /\ serving' = FALSE /\ inside' \in SUBSET inside
         /\ UNCHANGED <<input, report, owed>>

Next == Write \/ Recompute \/ Return \/ Close

Spec == Init /\ [][Next]_vars
=============================================================================
