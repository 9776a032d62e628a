------------------------- MODULE DawnHexTick_proofs -------------------------
(***************************************************************************)
(* Proofs about DawnHexTick, for any writers, limits and modulus: its      *)
(* types, and that a cancellation of the tick work is final when it        *)
(* returns.                                                                *)
(***************************************************************************)
EXTENDS DawnHexTick, TLAPS

\* What a cancellation in progress has already settled: the lock is held by
\* the one thread that cancels, and by nobody else; what it switched off stays
\* off, and what it took out of the timer and the queue stays out.
CancelInv ==
  /\ \A w \in cancelling : lock = w /\ ~interactive
  /\ lock # NoOwner => lock \in cancelling
  /\ Cancelled => timer = "idle"

Inv == TypeOK /\ CancelInv

-----------------------------------------------------------------------------
(* The operators the handlers are built from                               *)

\* The generation is counted in the modulus.
LEMMA BumpedRange ==
  ASSUME generation \in 0 .. GenerationModulus - 1
  PROVE  Bumped(generation) \in 0 .. GenerationModulus - 1
BY ModulusAssumption, SMT DEF Bumped

\* The sysfs store of tick_ms keeps it within its limits.
LEMMA ClampRange ==
  ASSUME NEW v \in TickMsInputs
  PROVE  Clamp(v, MinTickMs, MaxTickMs) \in MinTickMs .. MaxTickMs
BY TickMsAssumption, SMT DEF Clamp

\* schedule_delayed_work keeps the types, and does nothing while the work is
\* being cancelled.
LEMMA ScheduleGood ==
  ASSUME TypeOK, Schedule
  PROVE  /\ timer' \in {"idle", "armed", "queued"}
         /\ delay' \in MinTickMs .. MaxTickMs
         /\ Cancelled => timer' = timer
BY DEF TypeOK, Schedule

\* The lock is free only when no "interactive 0" is under way.
LEMMA FreeLock ==
  ASSUME Inv, lock = NoOwner
  PROVE  cancelling = {}
BY WritersAssumption DEF Inv, CancelInv, TypeOK, Writers

-----------------------------------------------------------------------------
(* One lemma for each part of Next                                         *)

\* The workqueue and dh_tick_workfn.
LEMMA WorkInv ==
  ASSUME Inv, Work
  PROVE  Inv'
<1>1. CASE TimerFires
  BY <1>1 DEF Inv, TypeOK, CancelInv, TimerFires, Cancelled, settings, Writers
<1>2. CASE WorkStarts
  BY <1>2 DEF Inv, TypeOK, CancelInv, WorkStarts, Cancelled, settings, Writers
<1>3. CASE WorkTick
  <2>1. generation' \in 0 .. GenerationModulus - 1
    BY <1>3, BumpedRange DEF WorkTick, Inv, TypeOK
  <2>2. QED
    BY <1>3, <2>1 DEF Inv, TypeOK, CancelInv, WorkTick, Cancelled, settings, Writers
<1>4. CASE WorkCheck
  BY <1>4 DEF Inv, TypeOK, CancelInv, WorkCheck, Cancelled, settings, Writers
<1>5. CASE WorkReschedule
  <2>1. /\ timer' \in {"idle", "armed", "queued"}
        /\ delay' \in MinTickMs .. MaxTickMs
        /\ Cancelled => timer' = timer
    BY <1>5, ScheduleGood DEF Inv, WorkReschedule
  <2>2. QED
    BY <1>5, <2>1 DEF Inv, TypeOK, CancelInv, WorkReschedule, Cancelled, settings, Writers
<1>6. QED
  BY <1>1, <1>2, <1>3, <1>4, <1>5 DEF Work

\* Commands and stores up to the wait of "interactive 0".
LEMMA WriteInv ==
  ASSUME Inv, NEW w \in Writers, Write(w)
  PROVE  Inv'
<1>1. lock = NoOwner /\ cancelling = {}
  BY FreeLock DEF Write, TickCommand, SwitchOn, SwitchOffBegin, TickMsCommand, TickMsStore
<1>2. CASE TickCommand(w)
  <2>1. generation' \in 0 .. GenerationModulus - 1
    BY <1>2, BumpedRange DEF TickCommand, Inv, TypeOK
  <2>2. QED
    BY <1>2, <2>1 DEF Inv, TypeOK, CancelInv, TickCommand, Returns, Cancelled, settings, work, Writers
<1>3. CASE SwitchOn(w)
  <2>1. /\ timer' \in {"idle", "armed", "queued"}
        /\ delay' \in MinTickMs .. MaxTickMs
        /\ Cancelled => timer' = timer
    BY <1>3, ScheduleGood DEF Inv, SwitchOn
  <2>2. QED
    BY <1>1, <1>3, <2>1 DEF Inv, TypeOK, CancelInv, SwitchOn, Returns, Cancelled, Writers
<1>4. CASE SwitchOffBegin(w)
  BY <1>1, <1>4 DEF Inv, TypeOK, CancelInv, SwitchOffBegin, Cancelled, Writers
<1>5. ASSUME NEW v \in TickMsInputs, TickMsCommand(w, v)
      PROVE  Inv'
  <2>1. generation' \in 0 .. GenerationModulus - 1
    BY <1>5, BumpedRange DEF TickMsCommand, Inv, TypeOK
  <2>2. QED
    BY <1>5, <2>1 DEF Inv, TypeOK, CancelInv, TickMsCommand, Returns, Cancelled, settings, work, Writers
<1>6. ASSUME NEW v \in TickMsInputs, TickMsStore(w, v)
      PROVE  Inv'
  <2>1. tickMs' \in MinTickMs .. MaxTickMs
    BY <1>6, ClampRange DEF TickMsStore
  <2>2. QED
    BY <1>6, <2>1 DEF Inv, TypeOK, CancelInv, TickMsStore, Returns, Cancelled, work, Writers
<1>7. QED
  BY <1>2, <1>3, <1>4, <1>5, <1>6 DEF Write

\* The end of the wait: only w was cancelling, so the free lock is nobody's.
LEMMA SwitchOffEndInv ==
  ASSUME Inv, NEW w \in Writers, SwitchOffEnd(w)
  PROVE  Inv'
<1>1. cancelling = {w}
  BY DEF SwitchOffEnd, Inv, CancelInv
<1>2. QED
  BY <1>1 DEF Inv, TypeOK, CancelInv, SwitchOffEnd, Returns, Cancelled, settings, work, Writers

\* Loading and unloading.
LEMMA ModuleInv ==
  ASSUME Inv, Module \/ RegisterFails \/ ExitBegin
  PROVE  Inv'
<1>1. CASE Register \/ RegisterFails
  BY <1>1 DEF Inv, TypeOK, CancelInv, Register, RegisterFails, Cancelled, settings, work, Writers
<1>2. CASE SeedNodes
  <2>1. generation' \in 0 .. GenerationModulus - 1
    BY <1>2, BumpedRange DEF SeedNodes, Inv, TypeOK
  <2>2. QED
    BY <1>2, <2>1 DEF Inv, TypeOK, CancelInv, SeedNodes, Cancelled, settings, work, Writers
<1>3. CASE InitSchedule
  <2>1. /\ timer' \in {"idle", "armed", "queued"}
        /\ delay' \in MinTickMs .. MaxTickMs
        /\ Cancelled => timer' = timer
    BY <1>3, ScheduleGood DEF Inv, InitSchedule
  <2>2. QED
    BY <1>3, <2>1 DEF Inv, TypeOK, CancelInv, InitSchedule, Cancelled, settings, Writers
<1>4. CASE ExitBegin
  BY <1>4 DEF Inv, TypeOK, CancelInv, ExitBegin, Cancelled, settings, Writers
<1>5. CASE ExitCancelled \/ Deregister
  BY <1>5 DEF Inv, TypeOK, CancelInv, ExitCancelled, Deregister, Cancelled, settings, work, Writers
<1>6. QED
  BY <1>1, <1>2, <1>3, <1>4, <1>5 DEF Module

-----------------------------------------------------------------------------
(* The theorems                                                            *)

\* Inv is inductive: no command, store, work instance or step of loading and
\* unloading breaks what a cancellation in progress has settled.
THEOREM Invariance == Spec => []Inv
<1>1. Init => Inv
  <2> SUFFICES ASSUME Init
               PROVE  Inv
    OBVIOUS
  <2>1. 0 \in 0 .. GenerationModulus - 1
    BY ModulusAssumption
  <2>2. QED
    BY <2>1, TickMsAssumption DEF Init, Inv, TypeOK, CancelInv, Cancelled
<1>2. Inv /\ [Next]_vars => Inv'
  <2> SUFFICES ASSUME Inv, [Next]_vars
               PROVE  Inv'
    OBVIOUS
  <2>1. CASE Next
    BY <2>1, WorkInv, ModuleInv, WriteInv, SwitchOffEndInv DEF Next
  <2>2. CASE UNCHANGED vars
    BY <2>2 DEF vars, settings, work, Inv, TypeOK, CancelInv, Cancelled, Writers
  <2>3. QED
    BY <2>1, <2>2
<1>3. QED
  BY <1>1, <1>2, PTL DEF Spec

\* The types; tick_ms and the delay of the timer never leave their limits,
\* whatever is stored.
THEOREM TypeCorrectness == Spec => []TypeOK
<1>1. Inv => TypeOK
  BY DEF Inv
<1>2. QED
  BY <1>1, Invariance, PTL

\* When "interactive 0" or the cancellation of dawnhex_exit returns, the tick
\* work is neither pending nor running: for any number of writers.
THEOREM CancelIsFinal == Spec => CancelReturnsQuiet
<1> DEFINE Quiet ==
      /\ \A w \in cancelling : w \notin cancelling' =>
           ~interactive' /\ timer' = "idle" /\ worker' = "idle"
      /\ phase = "exiting" /\ phase' = "cancelled" =>
           timer' = "idle" /\ worker' = "idle"
<1>1. Inv /\ [Next]_vars => [Quiet]_vars
  <2> SUFFICES ASSUME Inv, Next
               PROVE  Quiet
    OBVIOUS
  <2>1. CASE \E w \in Writers : SwitchOffEnd(w)
    BY <2>1 DEF Inv, TypeOK, CancelInv, SwitchOffEnd, Cancelled, settings, work
  <2>2. CASE ExitCancelled
    BY <2>2 DEF Inv, CancelInv, ExitCancelled, Cancelled, work
  <2>3. CASE Work
    BY <2>3 DEF Work, TimerFires, WorkStarts, WorkTick, WorkCheck, WorkReschedule
  <2>4. CASE Register \/ SeedNodes \/ InitSchedule \/ Deregister \/ RegisterFails \/ ExitBegin
    BY <2>4 DEF Register, SeedNodes, InitSchedule, Deregister, RegisterFails, ExitBegin
  <2>5. CASE \E w \in Writers : Write(w)
    BY <2>5 DEF Write, TickCommand, SwitchOn, SwitchOffBegin, TickMsCommand, TickMsStore
  <2>6. QED
    BY <2>1, <2>2, <2>3, <2>4, <2>5 DEF Next, Module
<1>2. QED
  BY <1>1, Invariance, PTL DEF Spec, CancelReturnsQuiet
=============================================================================
