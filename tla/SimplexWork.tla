----------------------------- MODULE SimplexWork -----------------------------
(***************************************************************************)
(* simplex_adalter_kmod.c: calls that write the configuration or the base  *)
(* and wait for the report to be recomputed by a work item, the life of    *)
(* the work queue, and the loading and unloading of the module.  A section *)
(* under g_sa.lock is one step.  The ladder the work item computes is a    *)
(* parameter here; SimplexLadder computes it.                              *)
(***************************************************************************)
EXTENDS Naturals, FiniteSets

CONSTANTS Clients,   \* callers of the ioctls, each with a file of its own
          Stores,    \* writers of the sysfs attribute last_key
          Loader,    \* the thread that runs simplex_init and simplex_exit
          LoadCfg,   \* the configuration made of the module parameters
          LoadBase,  \* the base simplex_init sets
          Cfgs,      \* configurations SIMPLEX_ADALTER_IOC_SET_CFG accepts
          BadCfgs,   \* configurations of another version, or with no or too many levels or nodes
          Keys,      \* keys of a base
          Ratios,    \* retained, crosshatch and coldness of a base
          Ladder,    \* the ladder of each configuration and ratios
          NoReport   \* the zeroed report before the first recomputation

Threads == Clients \union Stores \union {Loader}
Bases == [key : Keys, ratios : Ratios]

ASSUME ThreadsAssumption ==
  /\ Clients \intersect Stores = {} /\ Loader \notin Clients \union Stores
ASSUME LoadAssumption == LoadBase \in Bases

VARIABLES cfg, base, report,   \* the state under g_sa.lock
          wq,       \* the work queue: none, alive, draining, destroyed; freed
                    \* when freed memory was used, after which nothing is known
          work,     \* recalc_work: none, queued, or dropped, marked as pending
                    \* but refused by a draining queue
          worker,   \* the instance that runs: idle, started, reported
          device,   \* the device and its attributes are registered
          module,   \* coming, live, going, gone
          pc,       \* where each thread is
          owed      \* history: threads whose write no report has in it yet
locked == <<cfg, base, report, owed>>
vars == <<locked, wq, work, worker, device, module, pc>>

At(t, label) == pc[t] = label /\ wq # "freed"
Goto(t, label) == pc' = [pc EXCEPT ![t] = label]

(* sa_recompute_locked: the key is copied with the ladder of the ratios.   *)
Reported(i) == [key |-> i[2].key, ladder |-> Ladder[i[1], i[2].ratios]]

-----------------------------------------------------------------------------
(* The work queue, as the kernel implements it.  flush_work waits for the  *)
(* instance queued last: for the pending one, else for the one that runs.  *)

Queued == IF work # "none" THEN work
          ELSE IF wq = "alive" THEN "queued" ELSE "dropped"

QueueWork(t) ==
  /\ At(t, "written")
  /\ IF wq = "destroyed" /\ work = "none"
     THEN wq' = "freed" /\ UNCHANGED <<work, pc>>
     ELSE work' = Queued /\ Goto(t, "queued") /\ UNCHANGED wq
  /\ UNCHANGED <<locked, worker, device, module>>

Flushing == IF work = "queued" THEN "waitQueued"
            ELSE IF worker # "idle" THEN "waitRunning" ELSE "idle"

(* Mutant: the call returns without waiting. *)
FlushWorkOmitted(t) ==
  /\ At(t, "queued") /\ Goto(t, "idle")
  /\ UNCHANGED <<locked, wq, work, worker, device, module>>

FlushWork(t) ==
  /\ At(t, "queued")
  /\ Goto(t, Flushing)
  /\ UNCHANGED <<locked, wq, work, worker, device, module>>

(* A work item is no longer pending when its function is called.           *)
StartWork ==
  /\ work = "queued" /\ worker = "idle"
  /\ work' = "none" /\ worker' = "started"
  /\ pc' = [t \in Threads |-> IF pc[t] = "waitQueued" THEN "waitRunning" ELSE pc[t]]
  /\ UNCHANGED <<locked, wq, device, module>>

(* Mutant: callers hold g_sa.lock while they flush. *)
RecomputeWhileHeld ==
  /\ \A t \in Threads : pc[t] \notin {"queued", "waitQueued", "waitRunning"}
  /\ worker = "started" /\ worker' = "reported"
  /\ report' = Reported(<<cfg, base>>) /\ owed' = {}
  /\ UNCHANGED <<cfg, base, wq, work, device, module, pc>>

(* sa_recalc_workfn. *)
Recompute ==
  /\ worker = "started" /\ worker' = "reported"
  /\ report' = Reported(<<cfg, base>>) /\ owed' = {}
  /\ UNCHANGED <<cfg, base, wq, work, device, module, pc>>

EndWork ==
  /\ worker = "reported" /\ worker' = "idle"
  /\ pc' = [t \in Threads |-> IF pc[t] = "waitRunning" THEN "idle" ELSE pc[t]]
  /\ UNCHANGED <<locked, wq, work, device, module>>

-----------------------------------------------------------------------------
(* The callers.  A file can be opened once misc_register has run and keeps *)
(* the module loaded; an attribute does not.                               *)

Open(t) ==
  /\ At(t, "closed") /\ device /\ module \in {"coming", "live"}
  /\ Goto(t, "idle")
  /\ UNCHANGED <<locked, wq, work, worker, device, module>>

Close(t) ==
  /\ At(t, "idle") /\ Goto(t, "closed")
  /\ UNCHANGED <<locked, wq, work, worker, device, module>>

Wrote(t) ==
  /\ At(t, "idle") /\ Goto(t, "written")
  /\ owed' = owed \union {t}
  /\ UNCHANGED <<report, wq, work, worker, device, module>>

Accepted(c) == c \in Cfgs

SetCfg(t) == /\ Wrote(t) /\ UNCHANGED base
             /\ \E c \in Cfgs \union BadCfgs : Accepted(c) /\ cfg' = c

RunBase(t) == Wrote(t) /\ base' \in Bases /\ UNCHANGED cfg

(* Mutant: the new key is not worth a recomputation. *)
StoreKeyQuiet(t) ==
  /\ device /\ At(t, "idle") /\ owed' = owed \union {t}
  /\ \E key \in Keys : base' = [base EXCEPT !.key = key]
  /\ UNCHANGED <<cfg, report, wq, work, worker, device, module, pc>>

StoreKey(t) == /\ device /\ Wrote(t) /\ UNCHANGED cfg
               /\ \E key \in Keys : base' = [base EXCEPT !.key = key]

-----------------------------------------------------------------------------
(* simplex_init and simplex_exit. *)

AllocQueue ==
  /\ At(Loader, "alloc")
  /\ \/ wq' = "alive" /\ Goto(Loader, "register") /\ UNCHANGED module
     \/ module' = "gone" /\ Goto(Loader, "idle") /\ UNCHANGED wq
  /\ UNCHANGED <<locked, work, worker, device>>

Register ==
  /\ At(Loader, "register")
  /\ \/ device' = TRUE /\ Goto(Loader, "written") /\ UNCHANGED <<wq, module>>
     \/ wq' = "destroyed" /\ module' = "gone" /\ Goto(Loader, "idle") /\ UNCHANGED device
  /\ UNCHANGED <<locked, work, worker>>

Loaded ==
  /\ At(Loader, "idle") /\ module = "coming" /\ module' = "live"
  /\ UNCHANGED <<locked, wq, work, worker, device, pc>>

(* Mutant: open files hold no reference to the module. *)
UnloadForced ==
  /\ At(Loader, "idle") /\ module = "live"
  /\ module' = "going" /\ Goto(Loader, "queued")
  /\ UNCHANGED <<locked, wq, work, worker, device>>

(* rmmod waits for nobody: it is refused while a file is open.  The first  *)
(* thing simplex_exit does is to flush the queue.                          *)
Unload ==
  /\ At(Loader, "idle") /\ module = "live" /\ \A t \in Clients : pc[t] = "closed"
  /\ module' = "going" /\ Goto(Loader, "queued")
  /\ UNCHANGED <<locked, wq, work, worker, device>>

(* destroy_workqueue: refuse new work, wait for the old, free the queue.   *)
Drain ==
  /\ At(Loader, "idle") /\ module = "going" /\ wq = "alive" /\ wq' = "draining"
  /\ UNCHANGED <<locked, work, worker, device, module, pc>>

(* Mutant: the work need not have run. *)
DrainedAtOnce == TRUE

Drained == work # "queued" /\ worker = "idle"

Destroy ==
  /\ wq = "draining" /\ Drained /\ wq' = "destroyed"
  /\ UNCHANGED <<locked, work, worker, device, module, pc>>

(* misc_deregister takes the attributes away, then waits for the stores    *)
(* that are inside.                                                        *)
Deregister ==
  /\ wq = "destroyed" /\ device /\ device' = FALSE
  /\ UNCHANGED <<locked, wq, work, worker, module, pc>>

Deregistered ==
  /\ wq = "destroyed" /\ module = "going" /\ ~device /\ \A t \in Stores : pc[t] = "idle"
  /\ module' = "gone"
  /\ UNCHANGED <<locked, wq, work, worker, device, pc>>

-----------------------------------------------------------------------------
Init ==
  /\ cfg = LoadCfg /\ base = LoadBase /\ report = NoReport /\ owed = {Loader}
  /\ wq = "none" /\ work = "none" /\ worker = "idle"
  /\ device = FALSE /\ module = "coming"
  /\ pc = [t \in Threads |-> IF t = Loader THEN "alloc"
                             ELSE IF t \in Clients THEN "closed" ELSE "idle"]

Thread(t) == QueueWork(t) \/ FlushWork(t)
Ioctl(t) == Open(t) \/ Close(t) \/ SetCfg(t) \/ RunBase(t)
Worker == StartWork \/ Recompute \/ EndWork
Life == AllocQueue \/ Register \/ Loaded \/ Unload \/ Drain \/ Destroy
        \/ Deregister \/ Deregistered

Next == \/ \E t \in Threads : Thread(t)
        \/ \E t \in Clients : Ioctl(t)
        \/ \E t \in Stores : StoreKey(t)
        \/ Worker
        \/ Life

Spec == Init /\ [][Next]_vars

(* The queue's worker and a thread inside a call are scheduled; nobody has *)
(* to call, or to unload the module, but an unloading goes on.             *)
Fairness == /\ WF_vars(Worker)
            /\ \A t \in Threads : WF_vars(Thread(t))
            /\ WF_vars(AllocQueue) /\ WF_vars(Register) /\ WF_vars(Loaded)
            /\ WF_vars(Drain) /\ WF_vars(Destroy)
            /\ WF_vars(Deregister) /\ WF_vars(Deregistered)

FairSpec == Spec /\ Fairness

-----------------------------------------------------------------------------
InCall == {"written", "queued", "waitQueued", "waitRunning"}
Calling(t) == pc[t] \in InCall
Loading == At(Loader, "alloc") \/ At(Loader, "register")

(* Types of the variables. *)
TypeOK ==
  /\ cfg \in Cfgs \union {LoadCfg} /\ base \in Bases
  /\ report = NoReport \/ \E c \in Cfgs \union {LoadCfg}, b \in Bases : report = Reported(<<c, b>>)
  /\ wq \in {"none", "alive", "draining", "destroyed", "freed"}
  /\ work \in {"none", "queued", "dropped"} /\ worker \in {"idle", "started", "reported"}
  /\ device \in BOOLEAN /\ module \in {"coming", "live", "going", "gone"}
  /\ pc \in [Threads -> InCall \union {"closed", "idle", "alloc", "register"}]
  /\ owed \subseteq Threads

(* The report is always made of one configuration and one base, and when   *)
(* every write has been followed by a recomputation, of the current ones.  *)
ReportCurrent == owed = {} => report = Reported(<<cfg, base>>)

(* queue_work, which does nothing when the work is already pending, and    *)
(* flush_work suffice: an ioctl that has returned has its write in a       *)
(* report, and so has any write before the module is unloaded.             *)
ReturnedWritesReported ==
  /\ \A t \in owed \intersect Clients : Calling(t)
  /\ module \in {"coming", "live"} => \A t \in owed : Calling(t) \/ (t = Loader /\ Loading)

(* simplex_exit destroys the queue before the device is removed, but no    *)
(* open file ever meets a queue that is not there: only a store can.       *)
FilesKeepQueue == \A t \in Clients : pc[t] # "closed" => wq = "alive"

(* No work runs or waits on a queue that is destroyed, and nothing of the  *)
(* module runs, waits or can be reached once the module is gone.           *)
GoneIsQuiet ==
  /\ wq \in {"destroyed", "freed"} => worker = "idle" /\ work # "queued"
  /\ module = "gone" => /\ ~device /\ worker = "idle" /\ work # "queued"
                        /\ \A t \in Threads : pc[t] \in {"idle", "closed"}

(* No call waits for ever for its report, whoever else writes, and loading *)
(* and unloading end; the one exception is after a store that used the     *)
(* freed queue.                                                            *)
CallsReturn ==
  /\ \A t \in Threads : Calling(t) ~> (~Calling(t) \/ wq = "freed")
  /\ module \in {"coming", "going"} ~> (module \in {"live", "gone"} \/ wq = "freed")

(* The module keeps the promise of RecalcService until it is unloaded or   *)
(* its loading fails.                                                      *)
Serving == module \in {"coming", "live"}
Inside == {t \in Threads : Calling(t) /\ (t = Loader => Serving)}
          \union (IF Loading THEN {Loader} ELSE {})

Service == INSTANCE RecalcService WITH
  Callers <- Threads, Inputs <- (Cfgs \union {LoadCfg}) \X Bases,
  serving <- Serving, input <- <<cfg, base>>, inside <- Inside

ImplementsService == Service!Spec
=============================================================================
