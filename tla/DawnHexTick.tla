---------------------------- MODULE DawnHexTick ----------------------------
(***************************************************************************)
(* The life of the DawnHex module and of its tick work (dawnhex_kmod.c):   *)
(* g_dawnhex.lock, the delayed work tick_work, the settings interactive    *)
(* and tick_ms with the commands and sysfs stores that write them, loading *)
(* and unloading.                                                          *)
(*                                                                         *)
(* A critical section that cannot block is one action, enabled when the    *)
(* lock is free.  Two things are split: "interactive 0", which waits for   *)
(* the tick work WITH the lock held, and dh_tick_workfn, which reads       *)
(* interactive and tick_ms again after it has unlocked.  What a tick does  *)
(* to the nodes is DawnHexCluster!Tick; here it only bumps the generation. *)
(* Time is abstracted: an armed timer fires sooner or later.               *)
(***************************************************************************)
EXTENDS Integers

CONSTANTS
  FileWriters,   \* threads that write(2) commands to /dev/dawnhex
  SysfsWriters,  \* threads that store to the sysfs attributes
  TickMsInputs,  \* arguments of "tick_ms", in-range or not
  MinTickMs, MaxTickMs, DefaultTickMs,   \* 10, 60000, 500
  GenerationModulus,                     \* 2^32
  NoOwner

Writers == FileWriters \cup SysfsWriters

ASSUME WritersAssumption ==
  /\ FileWriters \cap SysfsWriters = {}
  /\ NoOwner \notin FileWriters \cup SysfsWriters
ASSUME TickMsAssumption ==
  /\ TickMsInputs \subseteq Nat
  /\ MinTickMs \in Nat /\ MaxTickMs \in Nat /\ DefaultTickMs \in MinTickMs .. MaxTickMs
ASSUME ModulusAssumption == GenerationModulus \in Nat \ {0}

VARIABLES
  phase,       \* how far dawnhex_init or dawnhex_exit has got
  lock,        \* owner of g_dawnhex.lock
  interactive, \* g_dawnhex.interactive
  tickMs,      \* g_dawnhex.tick_ms
  timer,       \* tick_work: not pending, timer running, or queued to run
  delay,       \* the delay the timer was last armed with
  worker,      \* where dh_tick_workfn is
  cancelling,  \* threads inside cancel_delayed_work_sync, called with the lock
  generation,  \* g_dawnhex.generation
  request      \* the last command or store that returned, with its argument

work == <<timer, delay, worker>>
settings == <<interactive, tickMs>>
vars == <<phase, lock, settings, work, cancelling, generation, request>>

Bumped(counter) == (counter + 1) % GenerationModulus

Clamp(v, lo, hi) == IF v < lo THEN lo ELSE IF v > hi THEN hi ELSE v

-----------------------------------------------------------------------------
(* The workqueue, external: delayed work as the kernel implements it.      *)

Pending == timer # "idle"

\* While some thread cancels the work, it cannot be scheduled.
Cancelled == cancelling # {} \/ phase = "exiting"

\* schedule_delayed_work: nothing happens if the work is already pending.
Schedule ==
  IF Pending \/ Cancelled
  THEN UNCHANGED <<timer, delay>>
  ELSE timer' = "armed" /\ delay' = tickMs

TimerFires ==
  /\ timer = "armed"
  /\ timer' = "queued"
  /\ UNCHANGED <<phase, lock, settings, delay, worker, cancelling, generation, request>>

\* One instance of a work item runs at a time; it may be scheduled meanwhile.
WorkStarts ==
  /\ timer = "queued"
  /\ worker = "idle"
  /\ timer' = "idle"
  /\ worker' = "lock"
  /\ UNCHANGED <<phase, lock, settings, delay, cancelling, generation, request>>

-----------------------------------------------------------------------------
(* dh_tick_workfn                                                          *)

\* Lock, tick if interactive, unlock.
WorkTick ==
  /\ worker = "lock"
  /\ lock = NoOwner
  /\ worker' = "check"
  /\ generation' = IF interactive THEN Bumped(generation) ELSE generation
  /\ UNCHANGED <<phase, lock, settings, timer, delay, cancelling, request>>

\* Mutant: the second read of interactive is put under the lock.
WorkCheckLocked ==
  /\ worker = "check"
  /\ lock = NoOwner
  /\ worker' = IF interactive THEN "schedule" ELSE "idle"
  /\ UNCHANGED <<phase, lock, settings, timer, delay, cancelling, generation, request>>

\* The second read of interactive, without the lock.
WorkCheck ==
  /\ worker = "check"
  /\ worker' = IF interactive THEN "schedule" ELSE "idle"
  /\ UNCHANGED <<phase, lock, settings, timer, delay, cancelling, generation, request>>

\* Schedule itself again, with tick_ms read without the lock.
WorkReschedule ==
  /\ worker = "schedule"
  /\ worker' = "idle"
  /\ Schedule
  /\ UNCHANGED <<phase, lock, settings, cancelling, generation, request>>

Work == TimerFires \/ WorkStarts \/ WorkTick \/ WorkCheck \/ WorkReschedule

-----------------------------------------------------------------------------
(* Commands and stores                                                     *)

\* Threads may be in a file operation from misc_register until the module's
\* last file is closed, which dawnhex_exit waits for; in a sysfs store until
\* misc_deregister removes the attributes.
Open(w) ==
  /\ w \notin cancelling
  /\ \/ phase \in {"registered", "seeded", "running"}
     \/ w \in SysfsWriters /\ phase \in {"exiting", "cancelled"}

Returns(verb, v) == request' = [verb |-> verb, arg |-> v]

\* The command "tick", and IOC_STEP.
TickCommand(w) ==
  /\ Open(w) /\ w \in FileWriters
  /\ lock = NoOwner
  /\ generation' = Bumped(generation)
  /\ Returns("tick", 0)
  /\ UNCHANGED <<phase, lock, settings, work, cancelling>>

\* The command "tick_ms v": the test for the prefix "tick" comes first and
\* matches, so it ticks and returns 0.
TickMsCommand(w, v) ==
  /\ Open(w) /\ w \in FileWriters
  /\ lock = NoOwner
  /\ generation' = Bumped(generation)
  /\ Returns("tick_ms", v)
  /\ UNCHANGED <<phase, lock, settings, work, cancelling>>

\* Mutant: the argument is stored as it was given.
TickMsStoreUnclamped(w, v) ==
  /\ Open(w) /\ w \in SysfsWriters
  /\ lock = NoOwner
  /\ tickMs' = v
  /\ Returns("tick_ms_store", v)
  /\ UNCHANGED <<phase, lock, interactive, work, cancelling, generation>>

\* The sysfs attribute tick_ms takes effect when the work is next scheduled.
TickMsStore(w, v) ==
  /\ Open(w) /\ w \in SysfsWriters
  /\ lock = NoOwner
  /\ tickMs' = Clamp(v, MinTickMs, MaxTickMs)
  /\ Returns("tick_ms_store", v)
  /\ UNCHANGED <<phase, lock, interactive, work, cancelling, generation>>

\* Mutant: "interactive 1" sets the flag and does not restart the work.
SwitchOnFlagOnly(w) ==
  /\ Open(w)
  /\ lock = NoOwner
  /\ interactive' = TRUE
  /\ Returns("interactive", 1)
  /\ UNCHANGED <<phase, lock, tickMs, work, cancelling, generation>>

\* "interactive 1", as a command and as a store.
SwitchOn(w) ==
  /\ Open(w)
  /\ lock = NoOwner
  /\ interactive' = TRUE
  /\ Schedule
  /\ Returns("interactive", 1)
  /\ UNCHANGED <<phase, lock, tickMs, worker, cancelling, generation>>

\* "interactive 0": with the lock held, cancel_delayed_work_sync takes the
\* work out of the timer and the queue ...
SwitchOffBegin(w) ==
  /\ Open(w)
  /\ lock = NoOwner
  /\ lock' = w
  /\ interactive' = FALSE
  /\ timer' = "idle"
  /\ cancelling' = cancelling \cup {w}
  /\ UNCHANGED <<phase, tickMs, delay, worker, generation, request>>

\* Mutant: cancel_delayed_work in place of cancel_delayed_work_sync.
SwitchOffEndAtOnce(w) ==
  /\ w \in cancelling
  /\ lock' = NoOwner
  /\ cancelling' = cancelling \ {w}
  /\ Returns("interactive", 0)
  /\ UNCHANGED <<phase, settings, work, generation>>

\* ... and waits until dh_tick_workfn is not running, which may itself be
\* waiting for the lock.
SwitchOffEnd(w) ==
  /\ w \in cancelling
  /\ worker = "idle"
  /\ lock' = NoOwner
  /\ cancelling' = cancelling \ {w}
  /\ Returns("interactive", 0)
  /\ UNCHANGED <<phase, settings, work, generation>>

Write(w) ==
  \/ TickCommand(w) \/ SwitchOn(w) \/ SwitchOffBegin(w)
  \/ \E v \in TickMsInputs : TickMsCommand(w, v) \/ TickMsStore(w, v)

-----------------------------------------------------------------------------
(* Loading and unloading                                                   *)

\* dawnhex_init up to misc_register, which opens the device to clients.
Register ==
  /\ phase = "loading"
  /\ phase' = "registered"
  /\ UNCHANGED <<lock, settings, work, cancelling, generation, request>>

\* misc_register fails: the module is not loaded.
RegisterFails ==
  /\ phase = "loading"
  /\ phase' = "gone"
  /\ UNCHANGED <<lock, settings, work, cancelling, generation, request>>

\* The default nodes, under the lock; DawnHexCluster!Seed.
SeedNodes ==
  /\ phase = "registered"
  /\ lock = NoOwner
  /\ phase' = "seeded"
  /\ generation' = Bumped(generation)
  /\ UNCHANGED <<lock, settings, work, cancelling, request>>

\* Without the lock, and whatever interactive has become meanwhile.
InitSchedule ==
  /\ phase = "seeded"
  /\ phase' = "running"
  /\ Schedule
  /\ UNCHANGED <<lock, settings, worker, cancelling, generation, request>>

\* dawnhex_exit, which the kernel calls when no file is open; a sysfs store
\* may be under way.  cancel_delayed_work_sync, this time without the lock ...
ExitBegin ==
  /\ phase = "running"
  /\ cancelling \cap FileWriters = {}
  /\ phase' = "exiting"
  /\ timer' = "idle"
  /\ UNCHANGED <<lock, settings, delay, worker, cancelling, generation, request>>

\* ... which waits for dh_tick_workfn ...
ExitCancelled ==
  /\ phase = "exiting"
  /\ worker = "idle"
  /\ phase' = "cancelled"
  /\ UNCHANGED <<lock, settings, work, cancelling, generation, request>>

\* ... and then misc_deregister, which removes the attributes and waits for
\* the stores under way.  g_dawnhex and dh_tick_workfn are freed after it.
Deregister ==
  /\ phase = "cancelled"
  /\ cancelling = {}
  /\ phase' = "gone"
  /\ UNCHANGED <<lock, settings, work, cancelling, generation, request>>

Module == Register \/ SeedNodes \/ InitSchedule \/ ExitCancelled \/ Deregister

Init ==
  /\ phase = "loading"
  /\ lock = NoOwner
  /\ interactive = TRUE
  /\ tickMs = DefaultTickMs
  /\ timer = "idle"
  /\ delay = DefaultTickMs
  /\ worker = "idle"
  /\ cancelling = {}
  /\ generation = 0
  /\ request = [verb |-> "none", arg |-> 0]

Next ==
  \/ Work
  \/ Module \/ RegisterFails \/ ExitBegin
  \/ \E w \in Writers : Write(w) \/ SwitchOffEnd(w)

Spec == Init /\ [][Next]_vars

\* Timers fire and the workqueue runs what is queued; the mutex is handed over
\* to those who wait for it; a thread whose wait has ended goes on.  Nobody
\* has to send a command or to unload the module.
Fairness ==
  /\ WF_vars(TimerFires) /\ WF_vars(WorkStarts)
  /\ SF_vars(WorkTick) /\ WF_vars(WorkCheck) /\ WF_vars(WorkReschedule)
  /\ WF_vars(Register) /\ SF_vars(SeedNodes) /\ WF_vars(InitSchedule)
  /\ WF_vars(ExitCancelled) /\ WF_vars(Deregister)
  /\ \A w \in Writers : WF_vars(SwitchOffEnd(w))

FairSpec == Spec /\ Fairness

-----------------------------------------------------------------------------
(* Properties                                                              *)

\* Types; tick_ms and the delay the work is armed with stay in their limits.
TypeOK ==
  /\ phase \in {"loading", "registered", "seeded", "running", "exiting", "cancelled", "gone"}
  /\ lock \in Writers \cup {NoOwner}
  /\ interactive \in BOOLEAN
  /\ tickMs \in MinTickMs .. MaxTickMs
  /\ timer \in {"idle", "armed", "queued"}
  /\ delay \in MinTickMs .. MaxTickMs
  /\ worker \in {"idle", "lock", "check", "schedule"}
  /\ cancelling \subseteq Writers
  /\ generation \in 0 .. GenerationModulus - 1
  /\ request.verb \in {"none", "tick", "tick_ms", "tick_ms_store", "interactive"}

\* When "interactive 0" returns, or the cancellation in dawnhex_exit, the tick
\* work is neither pending nor running, whatever a work instance that had
\* already read interactive as 1, the schedule at the end of dawnhex_init, or a
\* store of 1 tried in the meantime.
CancelReturnsQuiet ==
  [][/\ \A w \in cancelling : w \notin cancelling' =>
          ~interactive' /\ timer' = "idle" /\ worker' = "idle"
     /\ phase = "exiting" /\ phase' = "cancelled" =>
          timer' = "idle" /\ worker' = "idle"]_vars

\* "interactive 0" waits with the lock held for a work instance that itself
\* waits for the lock: neither goes on, and every later command blocks.
CancelDeadlock == cancelling # {} /\ worker = "lock"

\* That is the only way to get stuck: if the work instance is elsewhere when
\* "interactive 0" starts to wait, the command returns.
CancelReturnsUnlessTickWaits ==
  \A w \in Writers : w \in cancelling /\ worker # "lock" ~> w \notin cancelling

\* Ticking goes on for as long as the module is interactive: no interleaving
\* of "interactive 1", "interactive 0" and the work's own two reads of the
\* flag ends the chain of work instances that schedule themselves.
TicksContinue ==
  []~CancelDeadlock /\ <>[](interactive /\ phase = "running") => []<><<WorkTick>>_vars

\* And it dies out when the module is not interactive, the instance that
\* dawnhex_init schedules regardless included.
TicksDieOut ==
  []~CancelDeadlock /\ <>[](~interactive /\ phase = "running")
    => <>[](timer = "idle" /\ worker = "idle")

\* Ticking follows the switch both ways, however often it was moved before and
\* wherever the work instances were then.
TicksFollowSwitch == TicksContinue /\ TicksDieOut

\* What the code's own texts say, and the code does not do: that the commands
\* "interactive" and "tick_ms" work.
InteractiveOffReturns ==
  \A w \in FileWriters : w \in cancelling ~> w \notin cancelling

TickMsCommandSetsTickMs ==
  [][request' # request /\ request'.verb = "tick_ms"
       => tickMs' = Clamp(request'.arg, MinTickMs, MaxTickMs)]_vars
=============================================================================
