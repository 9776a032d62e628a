-------------------------- MODULE SimplexWork_proofs --------------------------
(***************************************************************************)
(* Proofs about SimplexWork, for any callers, inputs and ladder; then      *)
(* about the ladders of SimplexLadder and DuoLadder, for all the numbers   *)
(* they are made of, up to LaddersSound and ReportsAddUp at the end.       *)
(***************************************************************************)
EXTENDS SimplexReports, SequenceTheorems, WellFoundedInduction, TLAPS

(* Where the loader is decides what exists.                                *)
LifeInv ==
  /\ \A t \in Threads : pc[t] \in {"alloc", "register"} => t = Loader
  /\ \A t \in Threads : pc[t] = "closed" => t \in Clients
  /\ pc[Loader] = "alloc" => wq = "none" /\ module = "coming"
  /\ pc[Loader] = "register" => wq = "alive" /\ module = "coming" /\ ~device
  /\ wq = "none" => ~device /\ (pc[Loader] = "alloc" \/ module = "gone")
  /\ module = "coming" => /\ wq \in {"none", "alive"}
                          /\ device \/ pc[Loader] \in {"alloc", "register"}
  /\ module = "live" => wq = "alive" /\ device
  /\ module = "going" => wq # "none"
  /\ module = "gone" => ~device /\ pc[Loader] = "idle" /\ wq \in {"none", "destroyed"}
  /\ wq \in {"draining", "destroyed", "freed"} => module \in {"going", "gone"} /\ pc[Loader] = "idle"
  /\ wq = "draining" => module = "going"
  /\ ~device /\ module # "going" => \A t \in Stores : pc[t] = "idle"
  /\ ~device \/ module \in {"going", "gone"} => \A t \in Clients : pc[t] = "closed"

(* Where the work item is. *)
WorkInv ==
  /\ work = "queued" => wq \in {"alive", "draining"}
  /\ worker # "idle" => wq \in {"alive", "draining"}
  /\ work = "dropped" => wq # "alive"
  /\ pc[Loader] \in {"alloc", "register"} => work = "none" /\ worker = "idle"

(* Whoever is owed a report waits for an instance that has yet to make it. *)
OwedInv == wq = "alive" => \A t \in owed :
  /\ pc[t] = "queued" => work = "queued" \/ worker = "started"
  /\ pc[t] = "waitQueued" => work = "queued"
  /\ pc[t] = "waitRunning" => worker = "started"

Inv == /\ TypeOK /\ LifeInv /\ WorkInv /\ OwedInv
       /\ ReportCurrent /\ ReturnedWritesReported /\ FilesKeepQueue /\ GoneIsQuiet
-----------------------------------------------------------------------------
(* One lemma an action: it preserves each conjunct of the invariant.       *)

LEMMA QueueWorkStep ==
  ASSUME Inv, NEW t \in Threads, QueueWork(t)
  PROVE  Inv'
<1> USE DEF Inv, TypeOK, QueueWork, Queued, At, Goto, locked
<1>1. TypeOK'
  BY DEF InCall
<1>2. LifeInv'
  BY DEF LifeInv, Threads
<1>3. WorkInv'
  BY DEF WorkInv, LifeInv, Threads
<1>4. OwedInv'
  BY ThreadsAssumption DEF OwedInv, LifeInv, WorkInv, Threads
<1>5. ReportCurrent'
  BY DEF ReportCurrent
<1>6. ReturnedWritesReported'
  BY DEF ReturnedWritesReported, Calling, InCall, Loading, LifeInv, Threads
<1>7. FilesKeepQueue'
  BY DEF FilesKeepQueue, LifeInv, Threads
<1>8. GoneIsQuiet'
  BY DEF GoneIsQuiet
<1> QED BY <1>1, <1>2, <1>3, <1>4, <1>5, <1>6, <1>7, <1>8 DEF Inv

LEMMA FlushWorkStep ==
  ASSUME Inv, NEW t \in Threads, FlushWork(t)
  PROVE  Inv'
<1> USE DEF Inv, TypeOK, FlushWork, Flushing, At, Goto, locked
<1>1. TypeOK'
  BY DEF InCall
<1>2. LifeInv'
  BY DEF LifeInv
<1>3. WorkInv'
  BY DEF WorkInv
<1>4. OwedInv'
  BY DEF OwedInv
<1>5. ReportCurrent'
  BY DEF ReportCurrent
<1>6. ReturnedWritesReported'
  BY ThreadsAssumption DEF ReturnedWritesReported, Calling, InCall, Loading,
      LifeInv, WorkInv, OwedInv, Threads
<1>7. FilesKeepQueue'
  BY DEF FilesKeepQueue
<1>8. GoneIsQuiet'
  BY DEF GoneIsQuiet
<1> QED BY <1>1, <1>2, <1>3, <1>4, <1>5, <1>6, <1>7, <1>8 DEF Inv

LEMMA StartWorkStep ==
  ASSUME Inv, StartWork
  PROVE  Inv'
<1> USE DEF Inv, TypeOK, StartWork, locked
<1>1. TypeOK'
  BY DEF InCall
<1>2. LifeInv'
  BY DEF LifeInv, Threads
<1>3. WorkInv'
  BY DEF WorkInv, LifeInv, Threads
<1>4. OwedInv'
  BY DEF OwedInv
<1>5. ReportCurrent'
  BY DEF ReportCurrent
<1>6. ReturnedWritesReported'
  <2>1. \A t \in Threads : Calling(t)' <=> Calling(t)
    BY DEF Calling, InCall
  <2>2. Loading' <=> Loading
    BY DEF Loading, At, LifeInv, Threads
  <2> QED BY <2>1, <2>2 DEF ReturnedWritesReported, Threads
<1>7. FilesKeepQueue'
  BY DEF FilesKeepQueue, LifeInv, Threads
<1>8. GoneIsQuiet'
  BY DEF GoneIsQuiet
<1> QED BY <1>1, <1>2, <1>3, <1>4, <1>5, <1>6, <1>7, <1>8 DEF Inv

LEMMA RecomputeStep ==
  ASSUME Inv, Recompute
  PROVE  Inv'
<1> USE DEF Inv, TypeOK, Recompute
<1>1. TypeOK'
  BY DEF InCall
<1>2. LifeInv'
  BY DEF LifeInv
<1>3. WorkInv'
  BY DEF WorkInv
<1>4. OwedInv'
  BY DEF OwedInv
<1>5. ReportCurrent'
  BY DEF ReportCurrent
<1>6. ReturnedWritesReported'
  BY DEF ReturnedWritesReported, Calling, InCall, Loading
<1>7. FilesKeepQueue'
  BY DEF FilesKeepQueue
<1>8. GoneIsQuiet'
  BY DEF GoneIsQuiet
<1> QED BY <1>1, <1>2, <1>3, <1>4, <1>5, <1>6, <1>7, <1>8 DEF Inv

LEMMA EndWorkStep ==
  ASSUME Inv, EndWork
  PROVE  Inv'
<1> USE DEF Inv, TypeOK, EndWork, locked
<1>1. TypeOK'
  BY DEF InCall
<1>2. LifeInv'
  BY DEF LifeInv, Threads
<1>3. WorkInv'
  BY DEF WorkInv, LifeInv, Threads
<1>4. OwedInv'
  BY DEF OwedInv
<1>5. ReportCurrent'
  BY DEF ReportCurrent
<1>6. ReturnedWritesReported'
  <2>1. Loading' <=> Loading
    BY DEF Loading, At, LifeInv, Threads
  <2>2. ASSUME NEW t \in Threads, Calling(t), pc[t] # "waitRunning" PROVE Calling(t)'
    BY <2>2 DEF Calling, InCall
  <2>3. wq = "alive" => \A t \in owed : pc[t] # "waitRunning"
    BY DEF OwedInv
  <2>4. \A t \in owed \intersect Clients : Calling(t) /\ wq = "alive"
    BY DEF ReturnedWritesReported, FilesKeepQueue, Calling, InCall
  <2>5. module \in {"coming", "live"} /\ ~Loading => wq = "alive"
    BY DEF LifeInv, Loading, At, WorkInv
  <2>6. ~Loading
    BY DEF Loading, At, WorkInv
  <2> QED BY <2>1, <2>2, <2>3, <2>4, <2>5, <2>6 DEF ReturnedWritesReported, Threads
<1>7. FilesKeepQueue'
  BY DEF FilesKeepQueue, LifeInv, Threads
<1>8. GoneIsQuiet'
  BY DEF GoneIsQuiet
<1> QED BY <1>1, <1>2, <1>3, <1>4, <1>5, <1>6, <1>7, <1>8 DEF Inv

LEMMA OpenStep ==
  ASSUME Inv, NEW t \in Clients, Open(t)
  PROVE  Inv'
<1> USE DEF Inv, TypeOK, Open, At, Goto, locked
<1>1. TypeOK'
  BY DEF InCall
<1>2. LifeInv'
  BY DEF LifeInv
<1>3. WorkInv'
  BY DEF WorkInv
<1>4. OwedInv'
  BY DEF OwedInv
<1>5. ReportCurrent'
  BY DEF ReportCurrent
<1>6. ReturnedWritesReported'
  BY DEF ReturnedWritesReported, Calling, InCall, Loading
<1>7. FilesKeepQueue'
  BY DEF FilesKeepQueue, LifeInv, Threads
<1>8. GoneIsQuiet'
  BY DEF GoneIsQuiet
<1> QED BY <1>1, <1>2, <1>3, <1>4, <1>5, <1>6, <1>7, <1>8 DEF Inv

LEMMA CloseStep ==
  ASSUME Inv, NEW t \in Clients, Close(t)
  PROVE  Inv'
<1> USE DEF Inv, TypeOK, Close, At, Goto, locked
<1>1. TypeOK'
  BY ThreadsAssumption DEF InCall
<1>2. LifeInv'
  BY ThreadsAssumption DEF LifeInv
<1>3. WorkInv'
  BY ThreadsAssumption DEF WorkInv
<1>4. OwedInv'
  BY ThreadsAssumption DEF OwedInv
<1>5. ReportCurrent'
  BY ThreadsAssumption DEF ReportCurrent
<1>6. ReturnedWritesReported'
  BY ThreadsAssumption DEF ReturnedWritesReported, Calling, InCall, Loading
<1>7. FilesKeepQueue'
  BY ThreadsAssumption DEF FilesKeepQueue
<1>8. GoneIsQuiet'
  BY ThreadsAssumption DEF GoneIsQuiet
<1> QED BY <1>1, <1>2, <1>3, <1>4, <1>5, <1>6, <1>7, <1>8 DEF Inv

LEMMA SetCfgStep ==
  ASSUME Inv, NEW t \in Clients, SetCfg(t)
  PROVE  Inv'
<1> USE DEF Inv, TypeOK, SetCfg, Wrote, Accepted, At, Goto
<1>1. TypeOK'
  BY DEF InCall, LifeInv, Threads
<1>2. LifeInv'
  BY DEF LifeInv
<1>3. WorkInv'
  BY DEF WorkInv
<1>4. OwedInv'
  BY DEF OwedInv
<1>5. ReportCurrent'
  BY DEF ReportCurrent
<1>6. ReturnedWritesReported'
  BY DEF ReturnedWritesReported, Calling, InCall, Loading, LifeInv, Threads
<1>7. FilesKeepQueue'
  BY DEF FilesKeepQueue
<1>8. GoneIsQuiet'
  BY DEF GoneIsQuiet, LifeInv, Threads
<1> QED BY <1>1, <1>2, <1>3, <1>4, <1>5, <1>6, <1>7, <1>8 DEF Inv

LEMMA RunBaseStep ==
  ASSUME Inv, NEW t \in Clients, RunBase(t)
  PROVE  Inv'
<1> USE DEF Inv, TypeOK, RunBase, Wrote, At, Goto
<1>1. TypeOK'
  BY DEF InCall, LifeInv, Threads
<1>2. LifeInv'
  BY DEF LifeInv
<1>3. WorkInv'
  BY DEF WorkInv
<1>4. OwedInv'
  BY DEF OwedInv
<1>5. ReportCurrent'
  BY DEF ReportCurrent
<1>6. ReturnedWritesReported'
  BY DEF ReturnedWritesReported, Calling, InCall, Loading, LifeInv, Threads
<1>7. FilesKeepQueue'
  BY DEF FilesKeepQueue
<1>8. GoneIsQuiet'
  BY DEF GoneIsQuiet, LifeInv, Threads
<1> QED BY <1>1, <1>2, <1>3, <1>4, <1>5, <1>6, <1>7, <1>8 DEF Inv

LEMMA StoreKeyStep ==
  ASSUME Inv, NEW t \in Stores, StoreKey(t)
  PROVE  Inv'
<1> USE DEF Inv, TypeOK, StoreKey, Wrote, At, Goto
<1>1. TypeOK'
  BY ThreadsAssumption DEF InCall, LifeInv, WorkInv, OwedInv,
      ReturnedWritesReported, Calling, Loading, FilesKeepQueue, GoneIsQuiet,
      Threads, Bases, ReportCurrent
<1>2. LifeInv'
  BY ThreadsAssumption DEF LifeInv, WorkInv, OwedInv, Threads
<1>3. WorkInv'
  BY DEF WorkInv
<1>4. OwedInv'
  BY DEF OwedInv
<1>5. ReportCurrent'
  BY DEF ReportCurrent
<1>6. ReturnedWritesReported'
  BY DEF ReturnedWritesReported, Calling, InCall, Loading, LifeInv, Threads
<1>7. FilesKeepQueue'
  BY DEF FilesKeepQueue
<1>8. GoneIsQuiet'
  BY DEF GoneIsQuiet
<1> QED BY <1>1, <1>2, <1>3, <1>4, <1>5, <1>6, <1>7, <1>8 DEF Inv

LEMMA AllocQueueStep ==
  ASSUME Inv, AllocQueue
  PROVE  Inv'
<1> USE DEF Inv, TypeOK, AllocQueue, At, Goto, locked
<1>1. TypeOK'
  BY DEF InCall
<1>2. LifeInv'
  BY DEF LifeInv, Threads
<1>3. WorkInv'
  BY DEF WorkInv
<1>4. OwedInv'
  BY DEF OwedInv, LifeInv, Threads
<1>5. ReportCurrent'
  BY DEF ReportCurrent
<1>6. ReturnedWritesReported'
  BY DEF ReturnedWritesReported, Calling, InCall, Loading
<1>7. FilesKeepQueue'
  BY DEF FilesKeepQueue, LifeInv, Threads
<1>8. GoneIsQuiet'
  BY ThreadsAssumption DEF GoneIsQuiet, LifeInv, WorkInv, OwedInv, Threads
<1> QED BY <1>1, <1>2, <1>3, <1>4, <1>5, <1>6, <1>7, <1>8 DEF Inv

LEMMA RegisterStep ==
  ASSUME Inv, Register
  PROVE  Inv'
<1> USE DEF Inv, TypeOK, Register, At, Goto, locked
<1>1. TypeOK'
  BY DEF InCall
<1>2. LifeInv'
  BY DEF LifeInv, Threads
<1>3. WorkInv'
  BY DEF WorkInv
<1>4. OwedInv'
  BY DEF OwedInv
<1>5. ReportCurrent'
  BY DEF ReportCurrent
<1>6. ReturnedWritesReported'
  BY DEF ReturnedWritesReported, Calling, InCall, Loading
<1>7. FilesKeepQueue'
  BY DEF FilesKeepQueue, LifeInv, Threads
<1>8. GoneIsQuiet'
  BY ThreadsAssumption DEF GoneIsQuiet, LifeInv, WorkInv, OwedInv, Threads
<1> QED BY <1>1, <1>2, <1>3, <1>4, <1>5, <1>6, <1>7, <1>8 DEF Inv

LEMMA LoadedStep ==
  ASSUME Inv, Loaded
  PROVE  Inv'
<1> USE DEF Inv, TypeOK, Loaded, At, locked
<1>1. TypeOK'
  BY DEF InCall
<1>2. LifeInv'
  BY DEF LifeInv
<1>3. WorkInv'
  BY DEF WorkInv
<1>4. OwedInv'
  BY DEF OwedInv
<1>5. ReportCurrent'
  BY DEF ReportCurrent
<1>6. ReturnedWritesReported'
  BY DEF ReturnedWritesReported, Calling, InCall, Loading
<1>7. FilesKeepQueue'
  BY DEF FilesKeepQueue
<1>8. GoneIsQuiet'
  BY DEF GoneIsQuiet
<1> QED BY <1>1, <1>2, <1>3, <1>4, <1>5, <1>6, <1>7, <1>8 DEF Inv

LEMMA UnloadStep ==
  ASSUME Inv, Unload
  PROVE  Inv'
<1> USE DEF Inv, TypeOK, Unload, At, Goto, locked
<1>1. TypeOK'
  BY DEF InCall
<1>2. LifeInv'
  BY DEF LifeInv
<1>3. WorkInv'
  BY DEF WorkInv
<1>4. OwedInv'
  BY ThreadsAssumption DEF OwedInv, LifeInv, WorkInv, ReturnedWritesReported,
      Calling, InCall, Loading, FilesKeepQueue, GoneIsQuiet, Threads, Bases,
      ReportCurrent
<1>5. ReportCurrent'
  BY DEF ReportCurrent
<1>6. ReturnedWritesReported'
  BY DEF ReturnedWritesReported, Calling, InCall, Loading
<1>7. FilesKeepQueue'
  BY DEF FilesKeepQueue
<1>8. GoneIsQuiet'
  BY DEF GoneIsQuiet
<1> QED BY <1>1, <1>2, <1>3, <1>4, <1>5, <1>6, <1>7, <1>8 DEF Inv

LEMMA DrainStep ==
  ASSUME Inv, Drain
  PROVE  Inv'
<1> USE DEF Inv, TypeOK, Drain, At, locked
<1>1. TypeOK'
  BY DEF InCall
<1>2. LifeInv'
  BY DEF LifeInv
<1>3. WorkInv'
  BY DEF WorkInv
<1>4. OwedInv'
  BY DEF OwedInv
<1>5. ReportCurrent'
  BY DEF ReportCurrent
<1>6. ReturnedWritesReported'
  BY DEF ReturnedWritesReported, Calling, InCall, Loading
<1>7. FilesKeepQueue'
  BY DEF FilesKeepQueue, LifeInv, Threads
<1>8. GoneIsQuiet'
  BY DEF GoneIsQuiet
<1> QED BY <1>1, <1>2, <1>3, <1>4, <1>5, <1>6, <1>7, <1>8 DEF Inv

LEMMA DestroyStep ==
  ASSUME Inv, Destroy
  PROVE  Inv'
<1> USE DEF Inv, TypeOK, Destroy, Drained, locked
<1>1. TypeOK'
  BY DEF InCall
<1>2. LifeInv'
  BY DEF LifeInv
<1>3. WorkInv'
  BY DEF WorkInv
<1>4. OwedInv'
  BY DEF OwedInv
<1>5. ReportCurrent'
  BY DEF ReportCurrent
<1>6. ReturnedWritesReported'
  <2>1. module \in {"going", "gone"}
    BY DEF LifeInv
  <2> QED BY <2>1 DEF ReturnedWritesReported, Calling
<1>7. FilesKeepQueue'
  BY DEF FilesKeepQueue
<1>8. GoneIsQuiet'
  BY DEF GoneIsQuiet
<1> QED BY <1>1, <1>2, <1>3, <1>4, <1>5, <1>6, <1>7, <1>8 DEF Inv

LEMMA DeregisterStep ==
  ASSUME Inv, Deregister
  PROVE  Inv'
<1> USE DEF Inv, TypeOK, Deregister, locked
<1>1. TypeOK'
  BY DEF InCall
<1>2. LifeInv'
  BY DEF LifeInv
<1>3. WorkInv'
  BY DEF WorkInv
<1>4. OwedInv'
  BY DEF OwedInv
<1>5. ReportCurrent'
  BY DEF ReportCurrent
<1>6. ReturnedWritesReported'
  <2>1. module \in {"going", "gone"}
    BY DEF LifeInv
  <2> QED BY <2>1 DEF ReturnedWritesReported, Calling
<1>7. FilesKeepQueue'
  BY DEF FilesKeepQueue
<1>8. GoneIsQuiet'
  BY DEF GoneIsQuiet
<1> QED BY <1>1, <1>2, <1>3, <1>4, <1>5, <1>6, <1>7, <1>8 DEF Inv

LEMMA DeregisteredStep ==
  ASSUME Inv, Deregistered
  PROVE  Inv'
<1> USE DEF Inv, TypeOK, Deregistered, locked
<1>1. TypeOK'
  BY DEF InCall
<1>2. LifeInv'
  BY DEF LifeInv
<1>3. WorkInv'
  BY DEF WorkInv
<1>4. OwedInv'
  BY DEF OwedInv
<1>5. ReportCurrent'
  BY DEF ReportCurrent
<1>6. ReturnedWritesReported'
  BY DEF ReturnedWritesReported, Calling, InCall, Loading
<1>7. FilesKeepQueue'
  BY DEF FilesKeepQueue
<1>8. GoneIsQuiet'
  BY DEF GoneIsQuiet, LifeInv, Threads
<1> QED BY <1>1, <1>2, <1>3, <1>4, <1>5, <1>6, <1>7, <1>8 DEF Inv
-----------------------------------------------------------------------------
LEMMA InitInv == Init => Inv
  BY ThreadsAssumption, LoadAssumption
     DEF Init, Inv, TypeOK, LifeInv, WorkInv, OwedInv, ReportCurrent, ReturnedWritesReported,
         FilesKeepQueue, GoneIsQuiet, Calling, InCall, Loading, At, Threads

LEMMA NextInv == Inv /\ [Next]_vars => Inv'
<1> SUFFICES ASSUME Inv, [Next]_vars PROVE Inv'
  OBVIOUS
<1>1. ASSUME NEW t \in Threads, Thread(t) PROVE Inv'
  BY <1>1, QueueWorkStep, FlushWorkStep DEF Thread
<1>2. ASSUME NEW t \in Clients, Ioctl(t) PROVE Inv'
  BY <1>2, OpenStep, CloseStep, SetCfgStep, RunBaseStep DEF Ioctl
<1>3. ASSUME NEW t \in Stores, StoreKey(t) PROVE Inv'
  BY <1>3, StoreKeyStep
<1>4. CASE Worker
  BY <1>4, StartWorkStep, RecomputeStep, EndWorkStep DEF Worker
<1>5. CASE Life
  BY <1>5, AllocQueueStep, RegisterStep, LoadedStep, UnloadStep, DrainStep, DestroyStep,
     DeregisterStep, DeregisteredStep DEF Life
<1>6. CASE UNCHANGED vars
  BY <1>6 DEF vars, locked, Inv, TypeOK, LifeInv, WorkInv, OwedInv, ReportCurrent,
              ReturnedWritesReported, FilesKeepQueue, GoneIsQuiet, Calling, Loading, At
<1> QED BY <1>1, <1>2, <1>3, <1>4, <1>5, <1>6 DEF Next

(* The inductive invariant holds throughout. *)
THEOREM Invariance == Spec => []Inv
  BY InitInv, NextInv, PTL DEF Spec

(* Every variable keeps to its type, for any callers and inputs. *)
THEOREM TypeCorrectness == Spec => []TypeOK
<1>1. Inv => TypeOK
  BY DEF Inv
<1> QED BY <1>1, Invariance, PTL

(* The report is of the current input once every write was followed by a   *)
(* recomputation, whatever the ladder computes.                            *)
THEOREM ReportStaysCurrent == Spec => []ReportCurrent
<1>1. Inv => ReportCurrent
  BY DEF Inv
<1> QED BY <1>1, Invariance, PTL

(* No call returns before its write is in a report, however many callers   *)
(* share one work item.                                                    *)
THEOREM ReturnedCallsAreReported == Spec => []ReturnedWritesReported
<1>1. Inv => ReturnedWritesReported
  BY DEF Inv
<1> QED BY <1>1, Invariance, PTL

(* An open file is never without the queue its ioctls use. *)
THEOREM OpenFilesKeepQueue == Spec => []FilesKeepQueue
<1>1. Inv => FilesKeepQueue
  BY DEF Inv
<1> QED BY <1>1, Invariance, PTL

(* Nothing is left running or waiting when the module is gone. *)
THEOREM UnloadingLeavesNothing == Spec => []GoneIsQuiet
<1>1. Inv => GoneIsQuiet
  BY DEF Inv
<1> QED BY <1>1, Invariance, PTL

-----------------------------------------------------------------------------
(* Each step is one of RecalcService, or none that it shows.  Only what the *)
(* step does to the callers inside has to be looked at.                    *)

LEMMA ServiceInit == Init => Service!Init
  BY ThreadsAssumption, LoadAssumption
     DEF Init, Service!Init, Serving, Inside, Loading, Calling, InCall, At, Threads

LEMMA SameService ==
  ASSUME Inv, UNCHANGED <<locked, Serving, Inside>>
  PROVE  UNCHANGED Service!vars
  BY DEF Service!vars, locked

LEMMA WriteServes ==
  ASSUME Inv, NEW t \in Clients \union Stores, Wrote(t),
         cfg' \in Cfgs \union {LoadCfg}, base' \in Bases
  PROVE  Service!Write
<1>1. t \in Threads \ Inside /\ Inside' = Inside \union {t}
  BY ThreadsAssumption
     DEF Inv, TypeOK, Wrote, At, Goto, Inside, Serving, Calling, InCall, Loading, Threads
<1>2. <<cfg, base>>' \in (Cfgs \union {LoadCfg}) \X Bases
  OBVIOUS
<1>3. Serving' = Serving
  BY DEF Wrote, Serving
<1> QED BY <1>1, <1>2, <1>3 DEF Service!Write, Wrote

LEMMA ServiceNext == Inv /\ [Next]_vars => [Service!Next]_(Service!vars)
<1> SUFFICES ASSUME Inv, [Next]_vars PROVE Service!Next \/ UNCHANGED Service!vars
  OBVIOUS
<1> USE DEF Inv, TypeOK
<1>1. ASSUME NEW t \in Threads, QueueWork(t) PROVE UNCHANGED Service!vars
  <2>1. Inside' = Inside /\ Serving' = Serving
    BY <1>1 DEF QueueWork, At, Goto, Inside, Serving, Calling, InCall, Loading, LifeInv, Threads
  <2> QED BY <1>1, <2>1, SameService DEF QueueWork
<1>2. ASSUME NEW t \in Threads, FlushWork(t) PROVE Service!Return
  <2>1. Inside' \subseteq Inside /\ (Inside \ Inside') \subseteq {t} /\ Serving' = Serving
    BY <1>2 DEF FlushWork, Flushing, At, Goto, Inside, Serving, Calling, InCall, Loading, Threads
  <2>2. Serving /\ t \in owed => t \in Inside'
    BY <1>2, FlushWorkStep
       DEF FlushWork, Flushing, At, Goto, Inside, Serving, Calling, InCall, Loading,
           OwedInv, LifeInv, Threads
  <2> QED BY <1>2, <2>1, <2>2 DEF FlushWork, locked, Service!Return
<1>3. CASE StartWork
  <2>1. Inside' = Inside /\ Serving' = Serving
    BY <1>3 DEF StartWork, Inside, Serving, Calling, InCall, Loading, At, Threads
  <2> QED BY <1>3, <2>1, SameService DEF StartWork
<1>4. CASE Recompute
  <2>1. Inside' = Inside /\ Serving' = Serving
    BY <1>4 DEF Recompute, Inside, Serving, Calling, Loading, At
  <2> QED BY <1>4, <2>1 DEF Recompute, Service!Next, Service!Recompute
<1>5. CASE EndWork
  <2>1. Inside' \subseteq Inside /\ Serving' = Serving
    BY <1>5 DEF EndWork, Inside, Serving, Calling, InCall, Loading, At, Threads
  <2>2. ASSUME NEW t \in owed, t \in Inside, Serving PROVE t \in Inside'
    BY <1>5, <2>2 DEF EndWork, Inside, Serving, Calling, InCall, Loading, At, Threads,
                      OwedInv, LifeInv
  <2> QED BY <1>5, <2>1, <2>2 DEF EndWork, locked, Service!Next, Service!Return
<1>6. ASSUME NEW t \in Clients, Open(t) \/ Close(t) PROVE UNCHANGED Service!vars
  <2>1. Inside' = Inside /\ Serving' = Serving
    BY <1>6, ThreadsAssumption
       DEF Open, Close, At, Goto, Inside, Serving, Calling, InCall, Loading, Threads
  <2> QED BY <1>6, <2>1, SameService DEF Open, Close
<1>7. ASSUME NEW t \in Clients, SetCfg(t) \/ RunBase(t) PROVE Service!Write
  BY <1>7, WriteServes DEF SetCfg, RunBase, Accepted
<1>8. ASSUME NEW t \in Stores, StoreKey(t) PROVE Service!Write
  <2>1. base' \in Bases
    BY <1>8 DEF StoreKey, Bases
  <2> QED BY <1>8, <2>1, WriteServes DEF StoreKey
<1>9. CASE AllocQueue \/ Register \/ Unload
  <2>1. Serving
    BY <1>9 DEF AllocQueue, Register, Unload, At, Serving, LifeInv
  <2>2. CASE Serving'
    <3>1. Inside' = Inside
      BY <1>9, <2>2 DEF AllocQueue, Register, Unload, At, Goto, Inside, Serving, Calling,
                        InCall, Loading, LifeInv, Threads
    <3> QED BY <1>9, <2>1, <2>2, <3>1, SameService DEF AllocQueue, Register, Unload, Serving
  <2>3. CASE ~Serving'
    <3>1. Inside' \subseteq Inside
      BY <1>9, <2>3 DEF AllocQueue, Register, Unload, At, Goto, Inside, Serving, Calling,
                        InCall, Loading, LifeInv, Threads
    <3> QED BY <1>9, <2>1, <2>3, <3>1
            DEF AllocQueue, Register, Unload, locked, Serving, Service!Next, Service!Close
  <2> QED BY <2>2, <2>3
<1>10. CASE Loaded \/ Drain \/ Destroy \/ Deregister \/ Deregistered
  <2>1. Inside' = Inside /\ Serving' = Serving
    BY <1>10 DEF Loaded, Drain, Destroy, Deregister, Deregistered, At, Inside, Serving,
                 Calling, InCall, Loading, LifeInv, Threads
  <2> QED BY <1>10, <2>1, SameService DEF Loaded, Drain, Destroy, Deregister, Deregistered
<1>11. CASE UNCHANGED vars
  <2>1. Inside' = Inside /\ Serving' = Serving
    BY <1>11 DEF vars, Inside, Serving, Calling, Loading, At
  <2> QED BY <1>11, <2>1, SameService DEF vars
<1> QED
  BY <1>1, <1>2, <1>3, <1>4, <1>5, <1>6, <1>7, <1>8, <1>9, <1>10, <1>11
     DEF Next, Thread, Ioctl, Worker, Life, Service!Next

(* The module implements RecalcService, for any callers, inputs and ladder. *)
THEOREM Refinement == Spec => ImplementsService
  BY ServiceInit, ServiceNext, Invariance, PTL DEF Spec, ImplementsService, Service!Spec

-----------------------------------------------------------------------------
(* Sums                                                                    *)

\* A set of numbers that is not empty has a least one.
LEMMA Least ==
  ASSUME NEW S, S \subseteq Nat, S # {}
  PROVE  \E x \in S : \A y \in S : x <= y
<1> DEFINE R == OpToRel(<, Nat)
<1>1. IsWellFoundedOn(R, Nat)
  BY NatLessThanWellFounded
<1>2. \A x, y \in Nat : <<x, y>> \in R <=> x < y
  BY DEF OpToRel
<1> HIDE DEF R
<1>3. PICK x \in S : \A y \in S : ~(<<y, x>> \in R)
  BY <1>1, WFMin
<1>4. \A y \in S : x <= y
  <2> TAKE y \in S
  <2>1. x \in Nat /\ y \in Nat /\ ~(<<y, x>> \in R)
    BY <1>3
  <2>2. ~(y < x)
    BY <2>1, <1>2, Zenon
  <2> QED
    BY <2>1, <2>2
<1> QED
  BY <1>4

\* A set that has a first number, and with each the next one, has them all.
LEMMA Reaches ==
  ASSUME NEW m \in Nat, NEW n \in Nat, NEW S, m \in S, \A k \in m..n - 1 : k \in S => k + 1 \in S
  PROVE  \A k \in m..n : k \in S
<1> DEFINE Missed == {k \in m..n : k \notin S}
<1> SUFFICES ASSUME Missed # {} PROVE FALSE
  OBVIOUS
<1>1. Missed \subseteq Nat
  OBVIOUS
<1>2. PICK k \in Missed : \A l \in Missed : k <= l
  BY <1>1, Least
<1>3. k \in m..n /\ k # m /\ k \notin S
  BY <1>2
<1>4. k - 1 \in m..n - 1 /\ k - 1 \in S
  BY <1>2, <1>3
<1> QED
  BY <1>3, <1>4

\* What the function behind a sum satisfies.
Summing(sum, f, n) == sum = [k \in 0..n |-> IF k = 0 THEN 0 ELSE sum[k - 1] + f[k]]

LEMMA SummingExists == ASSUME NEW f, NEW n \in Nat PROVE \E sum : Summing(sum, f, n)
<1> DEFINE S == {k \in Nat : \E sum : Summing(sum, f, k)}
<1>1. 0 \in S
  <2>1. Summing([k \in 0..0 |-> 0], f, 0)
    BY DEF Summing
  <2> QED
    BY <2>1
<1>2. ASSUME NEW m \in 0..n - 1, m \in S PROVE m + 1 \in S
  <2>1. PICK old : Summing(old, f, m)
    BY <1>2
  <2> DEFINE sum == [k \in 0..m + 1 |-> IF k = m + 1 THEN old[m] + f[m + 1] ELSE old[k]]
  <2>2. \A k \in 0..m : old[k] = IF k = 0 THEN 0 ELSE old[k - 1] + f[k]
    BY <2>1 DEF Summing
  <2>3. \A k \in 0..m + 1 : sum[k] = IF k = 0 THEN 0 ELSE sum[k - 1] + f[k]
    BY <2>2
  <2>4. sum = [k \in 0..m + 1 |-> sum[k]]
    OBVIOUS
  <2> HIDE DEF sum
  <2>5. Summing(sum, f, m + 1)
    BY <2>3, <2>4 DEF Summing
  <2> QED
    BY <2>5
<1> HIDE DEF S
<1>3. n \in S
  BY <1>1, <1>2, Reaches
<1> QED
  BY <1>3 DEF S

\* A sum is the last of the partial sums.
LEMMA SumIs ==
  ASSUME NEW f, NEW n \in Nat
  PROVE  \E sum : /\ sum[0] = 0 /\ SumUpTo(f, n) = sum[n]
                  /\ \A k \in 1..n : sum[k] = sum[k - 1] + f[k]
<1> DEFINE sum == CHOOSE s : Summing(s, f, n)
<1>1. SumUpTo(f, n) = sum[n]
  BY DEF SumUpTo, Summing
<1>2. Summing(sum, f, n)
  BY SummingExists
<1> HIDE DEF sum
<1>3. \A k \in 0..n : sum[k] = IF k = 0 THEN 0 ELSE sum[k - 1] + f[k]
  BY <1>2 DEF Summing
<1> QED
  BY <1>1, <1>3

Ints(f, n) == \A k \in 1..n : f[k] \in Int

LEMMA SumIsInt ==
  ASSUME NEW f, NEW n \in Nat, Ints(f, n)
  PROVE  SumUpTo(f, n) \in Int
<1>1. PICK sum : /\ sum[0] = 0 /\ SumUpTo(f, n) = sum[n]
                 /\ \A k \in 1..n : sum[k] = sum[k - 1] + f[k]
  BY SumIs
<1> DEFINE S == {k \in Nat : sum[k] \in Int}
<1>2. \A k \in 0..n - 1 : k \in S => k + 1 \in S
  BY <1>1 DEF Ints
<1>3. 0 \in S
  BY <1>1
<1> HIDE DEF S
<1>4. n \in S
  BY <1>2, <1>3, Reaches
<1> QED
  BY <1>1, <1>4 DEF S

\* What relates the terms of two sums relates the sums.
LEMMA SumsRelate ==
  ASSUME NEW f, NEW g, NEW n \in Nat, Ints(f, n), Ints(g, n),
         NEW a \in Int, NEW b \in Int, NEW c \in Int,
         \A k \in 1..n : a * f[k] <= b * g[k] + c
  PROVE  a * SumUpTo(f, n) <= b * SumUpTo(g, n) + n * c
<1>1. PICK sf : /\ sf[0] = 0 /\ SumUpTo(f, n) = sf[n]
                /\ \A k \in 1..n : sf[k] = sf[k - 1] + f[k]
  BY SumIs
<1>2. PICK sg : /\ sg[0] = 0 /\ SumUpTo(g, n) = sg[n]
                /\ \A k \in 1..n : sg[k] = sg[k - 1] + g[k]
  BY SumIs
<1> DEFINE S == {k \in Nat : sf[k] \in Int /\ sg[k] \in Int /\ a * sf[k] <= b * sg[k] + k * c}
<1>3. ASSUME NEW k \in 0..n - 1, k \in S PROVE k + 1 \in S
  <2>1. sf[k] \in Int /\ sg[k] \in Int /\ a * sf[k] <= b * sg[k] + k * c
    BY <1>3
  <2>2. k + 1 \in 1..n /\ f[k + 1] \in Int /\ g[k + 1] \in Int
    BY DEF Ints
  <2>3. a * f[k + 1] <= b * g[k + 1] + c
    BY <2>2
  <2>4. sf[k + 1] = sf[k] + f[k + 1] /\ sg[k + 1] = sg[k] + g[k + 1]
    BY <1>1, <1>2, <2>2
  <2>5. /\ a * (sf[k] + f[k + 1]) = a * sf[k] + a * f[k + 1]
        /\ b * (sg[k] + g[k + 1]) = b * sg[k] + b * g[k + 1]
        /\ (k + 1) * c = k * c + c
    BY <2>1, <2>2
  <2>6. a * sf[k] \in Int /\ a * f[k + 1] \in Int /\ b * sg[k] \in Int /\ b * g[k + 1] \in Int
        /\ k * c \in Int
    BY <2>1, <2>2
  <2>7. a * sf[k + 1] <= b * sg[k + 1] + (k + 1) * c
    BY <2>1, <2>3, <2>4, <2>5, <2>6
  <2>8. sf[k + 1] \in Int /\ sg[k + 1] \in Int /\ k + 1 \in Nat
    BY <2>1, <2>2, <2>4
  <2> QED
    BY <2>7, <2>8
<1>4. 0 \in S
  BY <1>1, <1>2
<1> HIDE DEF S
<1>5. n \in S
  BY <1>3, <1>4, Reaches
<1> QED
  BY <1>1, <1>2, <1>5 DEF S

\* A sum of numbers from zero is at least each of them.
LEMMA SumCovers ==
  ASSUME NEW f, NEW n \in Nat, \A k \in 1..n : f[k] \in Nat
  PROVE  SumUpTo(f, n) \in Nat /\ \A k \in 1..n : f[k] <= SumUpTo(f, n)
<1>1. PICK sum : /\ sum[0] = 0 /\ SumUpTo(f, n) = sum[n]
                 /\ \A k \in 1..n : sum[k] = sum[k - 1] + f[k]
  BY SumIs
<1> DEFINE S == {k \in Nat : sum[k] \in Nat /\ \A i \in 1..k : f[i] <= sum[k]}
<1>2. ASSUME NEW k \in 0..n - 1, k \in S PROVE k + 1 \in S
  <2>1. k + 1 \in 1..n /\ f[k + 1] \in Nat /\ sum[k] \in Nat /\ sum[k + 1] = sum[k] + f[k + 1]
    BY <1>1, <1>2
  <2>2. \A i \in 1..k : f[i] \in Nat /\ f[i] <= sum[k]
    BY <1>2
  <2>3. \A i \in 1..k + 1 : i \in 1..k \/ i = k + 1
    OBVIOUS
  <2>4. \A i \in 1..k + 1 : f[i] <= sum[k + 1]
    BY <2>1, <2>2, <2>3
  <2> QED
    BY <2>1, <2>4
<1>3. 0 \in S
  BY <1>1
<1> HIDE DEF S
<1>4. \A k \in 0..n : k \in S
  BY <1>2, <1>3, Reaches
<1> QED
  BY <1>1, <1>4 DEF S

-----------------------------------------------------------------------------
(* Divisions                                                               *)

LEMMA DivIs ==
  ASSUME NEW a \in Int, NEW d \in Nat, d > 0
  PROVE  /\ a \div d \in Int /\ a % d \in 0..d - 1
         /\ a = d * (a \div d) + (a % d)
  OBVIOUS

LEMMA Multiplied == \A k, x, y, z \in Int : (k * x + y) * z = k * (x * z) + y * z
  OBVIOUS

LEMMA DivAtLeast ==
  ASSUME NEW a \in Int, NEW d \in Nat, d > 0, NEW q \in Int
  PROVE  (a \div d >= q <=> a >= d * q) /\ (a \div d < q <=> a < d * q)
<1>1. /\ a \div d \in Int /\ a % d \in 0..d - 1
      /\ a = d * (a \div d) + (a % d)
  BY DivIs
<1> DEFINE z == a \div d
<1> HIDE DEF z
<1>2. z \in Int /\ z = a \div d
  BY <1>1 DEF z
<1>3. CASE z >= q
  <2>1. z - q \in Nat
    BY <1>2, <1>3
  <2>2. d * (z - q) \in Nat /\ d * (z - q) = d * z - d * q
    BY <2>1, <1>2
  <2>3. d * z \in Int /\ d * q \in Int
    BY <1>2
  <2>4. a >= d * q
    BY <1>1, <1>2, <2>2, <2>3
  <2> QED
    BY <1>2, <1>3, <2>3, <2>4
<1>4. CASE z < q
  <2>1. q - z - 1 \in Nat
    BY <1>2, <1>4
  <2>2. d * (q - z - 1) \in Nat /\ d * (q - z - 1) = d * q - d * z - d
    BY <2>1, <1>2
  <2>3. d * z \in Int /\ d * q \in Int
    BY <1>2
  <2>4. a < d * q
    BY <1>1, <1>2, <2>2, <2>3
  <2> QED
    BY <1>2, <1>4, <2>3, <2>4
<1> QED
  BY <1>2, <1>3, <1>4

LEMMA DivMonotone ==
  ASSUME NEW a \in Int, NEW b \in Int, a <= b, NEW d \in Nat, d > 0
  PROVE  a \div d \in Int /\ b \div d \in Int /\ a \div d <= b \div d
<1>1. a \div d \in Int /\ b \div d \in Int
  BY DivIs
<1>2. d * (a \div d) \in Int /\ a >= d * (a \div d)
  BY <1>1, DivAtLeast
<1>3. b >= d * (a \div d)
  BY <1>2
<1> QED
  BY <1>1, <1>3, DivAtLeast

LEMMA DivUnique ==
  ASSUME NEW d \in Nat, NEW q \in Int, NEW e \in 0..d - 1
  PROVE  (d * q + e) \div d = q /\ (d * q + e) % d = e
<1> DEFINE a == d * q + e
<1>1. d * q \in Int /\ d * (q + 1) = d * q + d /\ d > 0
  OBVIOUS
<1>2. a \in Int /\ a >= d * q /\ a < d * (q + 1) /\ a = d * q + e
  BY <1>1
<1> HIDE DEF a
<1>3. a \div d >= q /\ a \div d < q + 1 /\ a \div d \in Int
  BY <1>1, <1>2, DivAtLeast, DivIs
<1>4. a \div d = q
  BY <1>3
<1>5. a = d * q + (a % d) /\ a % d \in Int
  BY <1>1, <1>2, <1>4, DivIs
<1>6. a % d = e
  BY <1>1, <1>2, <1>5
<1> QED
  BY <1>4, <1>6 DEF a

LEMMA DivShifted ==
  ASSUME NEW d \in Nat, d > 0, NEW k \in Int, NEW m \in Int
  PROVE  (d * k + m) \div d = k + (m \div d)
<1> DEFINE q == m \div d
           e == m % d
<1>1. q \in Int /\ e \in 0..d - 1 /\ m = d * q + e
  BY DivIs
<1> HIDE DEF q, e
<1>2. d * k \in Int /\ d * q \in Int /\ d * (k + q) = d * k + d * q
  BY <1>1
<1>3. d * k + m = d * (k + q) + e /\ k + q \in Int
  BY <1>1, <1>2
<1>4. (d * (k + q) + e) \div d = k + q
  BY <1>1, <1>3, DivUnique
<1> QED
  BY <1>3, <1>4 DEF q

\* The parts of a product put together: Scaled rounds a * b.
LEMMA ScaledIs ==
  ASSUME NEW a \in Nat, NEW b \in Nat, NEW r \in Nat, r > 0, NEW u, u = r * r
  PROVE  Scaled(a, b, r) = (a * b + (u \div 2)) \div u
<1> DEFINE A == a \div u
           s == a % u
           B == b \div u
           c == b % u
           d == c \div r
           e == c % r
           x == s * d
           y == x \div r
           z == x % r
           h == u \div 2
<1>1. u \in Nat /\ u > 0
  OBVIOUS
<1>2. /\ A \in Int /\ s \in Int /\ a = u * A + s
      /\ B \in Int /\ c \in Int /\ b = u * B + c
      /\ h \in Int
  BY <1>1, DivIs
<1> HIDE DEF A, s, B, c, h
<1>3. d \in Int /\ e \in 0..r - 1 /\ c = r * d + e
  BY <1>2, DivIs
<1>4. u * B = r * (r * B)
  BY <1>2
<1>5. r * B \in Int /\ r * d \in Int /\ r * (r * B) \in Int /\ r * (r * B + d) = r * (r * B) + r * d
  BY <1>2, <1>3
<1>6. b = r * (r * B + d) + e /\ r * B + d \in Int
  BY <1>2, <1>3, <1>4, <1>5
<1>7. b % r = e
  BY <1>3, <1>6, DivUnique
<1> HIDE DEF d, e
<1>8. x \in Int /\ A * b \in Int /\ s * B \in Int /\ s * e \in Int
  BY <1>2, <1>3
<1>9. y \in Int /\ z \in Int /\ x = r * y + z
  BY <1>8, DivIs
<1>10. Scaled(a, b, r) = A * b + s * B + y + ((z * r + s * e + h) \div u)
  BY <1>7 DEF Scaled, A, s, B, c, d, x, y, z, h
<1> HIDE DEF y, z
<1>11. a * b = u * (A * b) + s * b
  BY <1>1, <1>2, Multiplied
<1>12. s * b = u * (s * B) + s * c
  BY <1>1, <1>2
<1>13. s * c = r * (s * d) + s * e
  BY <1>2, <1>3
<1>14. r * x = u * y + z * r
  BY <1>9
<1>15. u * (A * b + s * B + y) = u * (A * b) + u * (s * B) + u * y
  BY <1>1, <1>8, <1>9
<1>16. /\ u * (A * b) \in Int /\ u * (s * B) \in Int /\ u * y \in Int /\ z * r \in Int
       /\ s * b \in Int /\ s * c \in Int
  BY <1>1, <1>2, <1>8, <1>9
<1>17. r * x = r * (s * d)
  OBVIOUS
<1> DEFINE k == A * b + s * B + y
           m == z * r + s * e + h
<1>18. k \in Int /\ m \in Int
  BY <1>2, <1>8, <1>9, <1>16
<1>19. a * b + h = u * k + m
  <2>1. a * b = u * (A * b) + u * (s * B) + u * y + z * r + s * e
    BY <1>8, <1>11, <1>12, <1>13, <1>14, <1>16, <1>17
  <2> QED
    BY <2>1, <1>2, <1>8, <1>15, <1>16
<1> HIDE DEF k, m
<1>20. (u * k + m) \div u = k + (m \div u)
  BY <1>1, <1>18, DivShifted
<1> QED
  BY <1>10, <1>19, <1>20 DEF k, m, h

LEMMA MulPpmIs ==
  ASSUME NEW a \in Nat, NEW b \in Nat
  PROVE  MulPpm(a, b) = (a * b + 500000) \div 1000000
<1>1. 1000 \in Nat /\ 1000 > 0 /\ 1000000 = 1000 * 1000 /\ 1000000 \div 2 = 500000
  BY SMT
<1> QED
  BY <1>1, ScaledIs, SMT DEF MulPpm

LEMMA MulQ16Is ==
  ASSUME NEW a \in Nat, NEW b \in Nat
  PROVE  MulQ16(a, b) = (a * b + 32768) \div 65536
<1>1. 256 \in Nat /\ 256 > 0 /\ 65536 = 256 * 256 /\ 65536 \div 2 = 32768
  BY SMT
<1> QED
  BY <1>1, ScaledIs, SMT DEF MulQ16

LEMMA ProductsGrow ==
  ASSUME NEW a \in Nat, NEW b \in Nat, NEW c \in Nat, NEW d \in Nat, a <= c, b <= d
  PROVE  a * b \in Nat /\ c * d \in Nat /\ a * b <= c * d
<1>1. c - a \in Nat /\ d - b \in Nat
  OBVIOUS
<1>2. (c - a) * b \in Nat /\ (c - a) * b = c * b - a * b
  BY <1>1
<1>3. c * (d - b) \in Nat /\ c * (d - b) = c * d - c * b
  BY <1>1
<1> QED
  BY <1>2, <1>3

LEMMA MulPpmGrows ==
  ASSUME NEW a \in Nat, NEW b \in Nat, NEW c \in Nat, NEW d \in Nat, a <= c, b <= d
  PROVE  MulPpm(a, b) \in Nat /\ MulPpm(c, d) \in Nat /\ MulPpm(a, b) <= MulPpm(c, d)
<1>1. a * b \in Nat /\ c * d \in Nat /\ a * b <= c * d
  BY ProductsGrow
<1> QED
  BY <1>1, MulPpmIs, SMT

LEMMA MulPpmRises ==
  \A a, c, b \in Nat : a <= c => /\ MulPpm(a, b) \in Nat /\ MulPpm(c, b) \in Nat
                                /\ MulPpm(a, b) <= MulPpm(c, b)
  BY MulPpmGrows

LEMMA MulQ16Grows ==
  ASSUME NEW a \in Nat, NEW b \in Nat, NEW c \in Nat, NEW d \in Nat, a <= c, b <= d
  PROVE  MulQ16(a, b) \in Nat /\ MulQ16(c, d) \in Nat /\ MulQ16(a, b) <= MulQ16(c, d)
<1>1. a * b \in Nat /\ c * d \in Nat /\ a * b <= c * d
  BY ProductsGrow
<1> QED
  BY <1>1, MulQ16Is, SMT

LEMMA ProductsAreInts ==
  ASSUME NEW a \in Int, NEW b \in Int
  PROVE  MulPpm(a, b) \in Int /\ MulQ16(a, b) \in Int
<1>1. \A x, y \in Int : x * y \in Int
  OBVIOUS
<1>2. ASSUME NEW r \in Nat, r > 0 PROVE Scaled(a, b, r) \in Int
  <2> DEFINE u == r * r
  <2>1. u \in Nat /\ u > 0
    BY <1>2
  <2> HIDE DEF u
  <2>2. /\ a % u \in Int /\ b % u \in Int /\ a \div u \in Int /\ b \div u \in Int
        /\ b % r \in Int /\ u \div 2 \in Int
    BY <1>2, <2>1, DivIs
  <2>3. (b % u) \div r \in Int
    BY <1>2, <2>2, DivIs
  <2> DEFINE x == (a % u) * ((b % u) \div r)
  <2>4. x \in Int
    BY <1>1, <2>2, <2>3
  <2> HIDE DEF x
  <2>5. x \div r \in Int /\ x % r \in Int
    BY <1>2, <2>4, DivIs
  <2>6. (x % r) * r + (a % u) * (b % r) + (u \div 2) \in Int
    BY <1>1, <2>2, <2>5
  <2>7. ((x % r) * r + (a % u) * (b % r) + (u \div 2)) \div u \in Int
    BY <2>1, <2>6, DivIs
  <2>8. (a \div u) * b + (a % u) * (b \div u) \in Int
    BY <1>1, <2>2
  <2>9. Scaled(a, b, r) = (a \div u) * b + (a % u) * (b \div u) + (x \div r)
          + (((x % r) * r + (a % u) * (b % r) + (u \div 2)) \div u)
    BY DEF Scaled, u, x
  <2> QED
    BY <2>5, <2>7, <2>8, <2>9
<1>3. 1000 \in Nat /\ 1000 > 0 /\ 256 \in Nat /\ 256 > 0
  OBVIOUS
<1> QED
  BY <1>2, <1>3 DEF MulPpm, MulQ16

LEMMA MulPpmByOne == ASSUME NEW a \in Nat PROVE MulPpm(a, Ppm) = a
<1>1. MulPpm(a, 1000000) = (a * 1000000 + 500000) \div 1000000
  BY MulPpmIs, SMT
<1>2. (1000000 * a + 500000) \div 1000000 = a
  BY SMT
<1>3. a * 1000000 = 1000000 * a
  BY SMT
<1> QED
  BY <1>1, <1>2, <1>3, SMT DEF Ppm

LEMMA MulPpmByLess ==
  ASSUME NEW a \in Nat, NEW b \in Nat, b <= Ppm
  PROVE  MulPpm(a, b) \in 0..a
<1>1. Ppm \in Nat /\ MulPpm(a, b) \in Nat /\ MulPpm(a, b) <= MulPpm(a, Ppm)
  BY MulPpmGrows, SMT DEF Ppm
<1> QED
  BY <1>1, MulPpmByOne

-----------------------------------------------------------------------------
(* Weights                                                                 *)

LEMMA Cancels ==
  ASSUME NEW d \in Nat, d > 0, NEW x \in Int, NEW y \in Int
  PROVE  (d * x <= d * y => x <= y) /\ (d * x < d * y => x < y)
<1>1. ASSUME x > y PROVE d * x > d * y
  <2>1. x - y - 1 \in Nat
    BY <1>1
  <2>2. d * (x - y - 1) \in Nat /\ d * (x - y - 1) = d * x - d * y - d
    BY <2>1
  <2>3. d * x \in Int /\ d * y \in Int
    OBVIOUS
  <2> QED
    BY <2>2, <2>3
<1>2. d * x \in Int /\ d * y \in Int /\ (x = y => d * x = d * y)
  OBVIOUS
<1> QED
  BY <1>1, <1>2

\* The function FibPair is one that its definition describes.
Fibbing(f, n) ==
  f = [i \in 1..n |-> IF i = 1 THEN <<0, 1>> ELSE LET last == f[i - 1] IN <<last[2], last[1] + last[2]>>]

LEMMA FibbingExists == \E f : Fibbing(f, MaxLevels)
<1> DEFINE S == {n \in Nat : \E f : Fibbing(f, n)}
<1>1. 1 \in S
  <2>1. Fibbing([i \in 1..1 |-> <<0, 1>>], 1)
    BY DEF Fibbing
  <2> QED
    BY <2>1
<1>2. ASSUME NEW n \in 1..MaxLevels - 1, n \in S PROVE n + 1 \in S
  <2>1. PICK old : Fibbing(old, n)
    BY <1>2
  <2>2. \A i \in 1..n : old[i] = IF i = 1 THEN <<0, 1>>
                                 ELSE <<old[i - 1][2], old[i - 1][1] + old[i - 1][2]>>
    BY <2>1 DEF Fibbing
  <2> DEFINE f == [i \in 1..n + 1 |-> IF i = n + 1 THEN <<old[n][2], old[n][1] + old[n][2]>> ELSE old[i]]
  <2>3. n \in Nat /\ n >= 1
    OBVIOUS
  <2>4. \A i \in 1..n + 1 : f[i] = IF i = 1 THEN <<0, 1>>
                                   ELSE <<f[i - 1][2], f[i - 1][1] + f[i - 1][2]>>
    <3> TAKE i \in 1..n + 1
    <3>1. CASE i = n + 1
      <4>1. f[i] = <<old[n][2], old[n][1] + old[n][2]>> /\ i # 1 /\ i - 1 = n
        BY <2>3, <3>1
      <4>2. f[n] = old[n]
        BY <2>3
      <4> HIDE DEF f
      <4> QED
        BY <4>1, <4>2
    <3>2. CASE i # n + 1
      <4>1. i \in 1..n /\ f[i] = old[i]
        BY <2>3, <3>2
      <4>2. i # 1 => i - 1 \in 1..n /\ f[i - 1] = old[i - 1]
        BY <2>3, <4>1
      <4> HIDE DEF f
      <4> QED
        BY <2>2, <4>1, <4>2
    <3> QED
      BY <3>1, <3>2
  <2>5. f = [i \in 1..n + 1 |-> f[i]]
    OBVIOUS
  <2> HIDE DEF f
  <2>6. Fibbing(f, n + 1)
    BY <2>4, <2>5 DEF Fibbing
  <2> QED
    BY <2>3, <2>6
<1> HIDE DEF S
<1>3. MaxLevels \in Nat /\ 1 \in Nat /\ MaxLevels \in 1..MaxLevels
  BY DEF MaxLevels
<1>4. \A n \in 1..MaxLevels : n \in S
  BY <1>1, <1>2, <1>3, Reaches
<1> QED
  BY <1>3, <1>4 DEF S

LEMMA FibIs == \A i \in 1..MaxLevels : Fib(i) \in Nat /\ Fib(i) > 0
<1>1. Fibbing(FibPair, MaxLevels)
  BY FibbingExists DEF Fibbing, FibPair
<1>2. \A i \in 1..MaxLevels :
        FibPair[i] = IF i = 1 THEN <<0, 1>>
                     ELSE <<FibPair[i - 1][2], FibPair[i - 1][1] + FibPair[i - 1][2]>>
  BY <1>1 DEF Fibbing
<1> DEFINE S == {i \in Nat : FibPair[i][1] \in Nat /\ FibPair[i][2] \in Nat /\ FibPair[i][2] > 0}
<1>3. MaxLevels \in Nat /\ 1 \in 1..MaxLevels
  BY DEF MaxLevels
<1>4. 1 \in S
  <2>1. FibPair[1] = <<0, 1>>
    BY <1>2, <1>3
  <2> QED
    BY <2>1
<1>5. ASSUME NEW i \in 1..MaxLevels - 1, i \in S PROVE i + 1 \in S
  <2>1. i + 1 \in 1..MaxLevels /\ i + 1 # 1 /\ i + 1 - 1 = i
    BY <1>3
  <2>2. FibPair[i + 1] = <<FibPair[i][2], FibPair[i][1] + FibPair[i][2]>>
    <3> DEFINE j == i + 1
    <3>1. j \in 1..MaxLevels /\ j # 1 /\ j - 1 = i
      BY <2>1
    <3> HIDE DEF j
    <3>2. FibPair[j] = <<FibPair[j - 1][2], FibPair[j - 1][1] + FibPair[j - 1][2]>>
      BY <1>2, <3>1
    <3> QED
      BY <3>1, <3>2 DEF j
  <2>3. FibPair[i][1] \in Nat /\ FibPair[i][2] \in Nat /\ FibPair[i][2] > 0
    BY <1>5
  <2> QED
    BY <2>1, <2>2, <2>3
<1> HIDE DEF S
<1>6. \A i \in 1..MaxLevels : i \in S
  BY <1>3, <1>4, <1>5, Reaches
<1> QED
  BY <1>6 DEF S, Fib

LEMMA FibTotalIs ==
  ASSUME NEW levels \in 1..MaxLevels
  PROVE  /\ FibTotal(levels) \in Nat /\ FibTotal(levels) > 0
         /\ \A i \in 1..levels : Fib(i) \in Nat /\ Fib(i) <= FibTotal(levels)
<1> DEFINE f == [i \in 1..levels |-> Fib(i)]
<1>1. levels \in Nat /\ 1 \in 1..levels /\ \A i \in 1..levels : i \in 1..MaxLevels
  BY DEF MaxLevels
<1>2. \A i \in 1..levels : Fib(i) \in Nat /\ Fib(i) > 0
  BY <1>1, FibIs
<1>3. \A i \in 1..levels : f[i] = Fib(i)
  OBVIOUS
<1>4. FibTotal(levels) = SumUpTo(f, levels)
  BY DEF FibTotal
<1> HIDE DEF f
<1>5. SumUpTo(f, levels) \in Nat /\ \A i \in 1..levels : f[i] <= SumUpTo(f, levels)
  BY <1>1, <1>2, <1>3, SumCovers
<1> QED
  BY <1>1, <1>2, <1>3, <1>4, <1>5

LEMMA PpmIs == Ppm \in Nat /\ Ppm > 0
  BY SMT DEF Ppm

LEMMA PpmInSteps == \A k \in Nat : (k * 1000) * 1000 = Ppm * k
  BY SMT DEF Ppm

\* The weight of a level is its share of the total, rounded down.
LEMMA WeightIs ==
  ASSUME NEW levels \in 1..MaxLevels, NEW i \in 1..levels
  PROVE  LET w == FibWeight(i, levels)
             t == FibTotal(levels)
         IN  /\ w \in Share
             /\ t * w <= Ppm * Fib(i) /\ Ppm * Fib(i) <= t * w + t
<1> DEFINE t == FibTotal(levels)
           x == Fib(i) * 1000
           q == x \div t
           e == x % t
           w == FibWeight(i, levels)
<1>1. t \in Nat /\ t > 0 /\ Fib(i) \in Nat /\ Fib(i) <= t
  BY FibTotalIs
<1>2. w = 1000 * q + ((e * 1000) \div t)
  BY DEF FibWeight
<1> HIDE DEF t, w
<1>3. x \in Nat
  BY <1>1
<1>4. q \in Int /\ e \in Int /\ x = t * q + e
  BY <1>1, <1>3, DivIs
<1> HIDE DEF q, e
<1>5. (t * (1000 * q) + e * 1000) \div t = 1000 * q + ((e * 1000) \div t)
  BY <1>1, <1>4, DivShifted
<1>6. t * (1000 * q) + e * 1000 = x * 1000
  BY <1>1, <1>4
<1>7. x * 1000 = Ppm * Fib(i)
  BY <1>1, PpmInSteps
<1> HIDE DEF x
<1>8. w = (Ppm * Fib(i)) \div t
  BY <1>2, <1>5, <1>6, <1>7
<1> DEFINE p == Ppm * Fib(i)
<1>9. p \in Nat /\ p <= t * Ppm
  BY <1>1, PpmIs, ProductsGrow
<1> HIDE DEF p
<1>10. p \div t \in Int /\ p % t \in 0..t - 1 /\ p = t * (p \div t) + (p % t)
  BY <1>1, <1>9, DivIs
<1>16. w = p \div t
  BY <1>8 DEF p
<1>11. w \in Int /\ p - t * w \in 0..t - 1 /\ t * w \in Int
  <2>1. w \in Int /\ p % t \in 0..t - 1 /\ p = t * w + (p % t)
    BY <1>10, <1>16
  <2>2. t * w \in Int
    BY <1>1, <2>1
  <2> DEFINE rest == p % t
  <2> HIDE DEF rest
  <2>3. rest \in 0..t - 1 /\ p = t * w + rest
    BY <2>1 DEF rest
  <2> QED
    BY <1>1, <2>1, <2>2, <2>3
<1>12. p >= t * 0 /\ p < t * (Ppm + 1)
  BY <1>1, <1>9, PpmIs
<1>13. w >= 0 /\ w < Ppm + 1
  <2>1. 0 \in Int /\ Ppm + 1 \in Int /\ p \in Int /\ w = p \div t
    BY <1>8, <1>9, PpmIs DEF p
  <2> QED
    BY <1>1, <1>12, <2>1, DivAtLeast
<1>14. w \in Share
  BY <1>11, <1>13, PpmIs DEF Share
<1>15. t * w <= p /\ p <= t * w + t
  BY <1>1, <1>9, <1>11
<1> QED
  BY <1>14, <1>15 DEF p, t, w

\* The weights of the levels share the whole out, but for their rounding.
LEMMA WeightsShareOut ==
  ASSUME NEW levels \in 1..MaxLevels, NEW f,
         \A i \in 1..levels : f[i] = FibWeight(i, levels)
  PROVE  Ppm - SumUpTo(f, levels) \in 0..levels
<1> DEFINE t == FibTotal(levels)
           g == [i \in 1..levels |-> Fib(i)]
           sum == SumUpTo(f, levels)
<1>1. t \in Nat /\ t > 0 /\ \A i \in 1..levels : Fib(i) \in Nat
  BY FibTotalIs
<1>2. \A i \in 1..levels : /\ f[i] \in Share
                           /\ t * f[i] <= Ppm * Fib(i) /\ Ppm * Fib(i) <= t * f[i] + t
  BY WeightIs
<1>3. t = SumUpTo(g, levels) /\ \A i \in 1..levels : g[i] = Fib(i)
  BY DEF FibTotal
<1> HIDE DEF t, g
<1>4. levels \in Nat /\ 0 \in Int /\ t \in Int /\ Ppm \in Int
  BY <1>1, PpmIs
<1>5. Ints(f, levels) /\ Ints(g, levels)
  BY <1>1, <1>2, <1>3, PpmIs DEF Ints, Share
<1>6. \A i \in 1..levels : t * f[i] <= Ppm * g[i] + 0 /\ Ppm * g[i] <= t * f[i] + t
  <2> TAKE i \in 1..levels
  <2>1. t * f[i] <= Ppm * Fib(i) /\ Ppm * Fib(i) <= t * f[i] + t /\ Fib(i) \in Nat
    BY <1>1, <1>2
  <2>2. Ppm * Fib(i) \in Int
    BY <2>1, PpmIs
  <2> QED
    BY <1>3, <2>1, <2>2
<1>7. t * sum <= Ppm * t + levels * 0
  BY <1>3, <1>4, <1>5, <1>6, SumsRelate
<1>8. Ppm * t <= t * sum + levels * t
  BY <1>3, <1>4, <1>5, <1>6, SumsRelate
<1>9. sum \in Int
  BY <1>4, <1>5, SumIsInt
<1> HIDE DEF sum
<1>10. t * Ppm = Ppm * t /\ t * sum + levels * t = t * (sum + levels) /\ levels * 0 = 0 /\ t * Ppm \in Int
  BY <1>4, <1>9
<1>11. t * sum <= t * Ppm /\ t * Ppm <= t * (sum + levels)
  BY <1>7, <1>8, <1>10
<1>12. sum <= Ppm
  BY <1>1, <1>4, <1>9, <1>11, Cancels
<1>13. Ppm <= sum + levels
  <2>1. sum + levels \in Int
    BY <1>4, <1>9
  <2> QED
    BY <1>1, <1>4, <1>11, <2>1, Cancels
<1> QED
  BY <1>4, <1>9, <1>12, <1>13 DEF sum

-----------------------------------------------------------------------------
(* Ladders add up                                                          *)

\* A sequence is itself when its elements have been computed.
LEMMA ComputedIs ==
  ASSUME NEW n \in Nat, NEW f, f = [i \in 1..n |-> f[i]]
  PROVE  Computed(f) = f /\ Len(f) = n
<1> DEFINE S == {f[i] : i \in 1..n}
<1>1. f \in Seq(S) /\ Len(f) = n
  <2>1. f \in [1..n -> S]
    OBVIOUS
  <2> QED
    BY <2>1
<1> HIDE DEF S
<1> QED
  BY <1>1, ConcatEmptySeq DEF Computed

LEMMA ClampIs ==
  ASSUME NEW v \in Int, NEW lo \in Share, NEW hi \in Share
  PROVE  Clamp(v, lo, hi) \in Share
  BY PpmIs DEF Clamp, Share

\* Two means of n terms that add up to between n * lo and n * hi.
LEMMA MeansAddUp ==
  ASSUME NEW n \in Nat, n > 0, NEW a \in Int, NEW b \in Int, NEW lo \in Int, NEW hi \in Int,
         n * lo <= a + b, a + b <= n * hi
  PROVE  (a \div n) + (b \div n) \in lo - 1..hi
<1> DEFINE p == a \div n
           q == b \div n
           r == a % n
           s == b % n
<1>1. p \in Int /\ q \in Int /\ r \in 0..n - 1 /\ s \in 0..n - 1 /\ a = n * p + r /\ b = n * q + s
  BY DivIs
<1> HIDE DEF p, q, r, s
<1>2. n * (p + q) = n * p + n * q /\ n * (p + q + 2) = n * p + n * q + 2 * n
  BY <1>1
<1>3. n * p \in Int /\ n * q \in Int /\ n * lo \in Int /\ n * hi \in Int
  BY <1>1
<1>4. n * (p + q) <= n * hi /\ n * lo < n * (p + q + 2)
  BY <1>1, <1>2, <1>3
<1>5. p + q \in Int /\ p + q + 2 \in Int
  BY <1>1
<1>6. p + q <= hi
  BY <1>4, <1>5, Cancels
<1>7. lo < p + q + 2
  BY <1>4, <1>5, Cancels
<1> QED
  BY <1>5, <1>6, <1>7 DEF p, q

\* So do the means of two sums whose terms do.
LEMMA MeansOfSums ==
  ASSUME NEW n \in Nat, n > 0, NEW f, NEW g, Ints(f, n), Ints(g, n), NEW lo \in Int, NEW hi \in Int,
         \A i \in 1..n : f[i] + g[i] \in lo..hi
  PROVE  (SumUpTo(f, n) \div n) + (SumUpTo(g, n) \div n) \in lo - 1..hi
<1> DEFINE a == SumUpTo(f, n)
           b == SumUpTo(g, n)
<1>1. a \in Int /\ b \in Int
  BY SumIsInt
<1>2. \A i \in 1..n : /\ (-1) * f[i] <= 1 * g[i] + (-lo)
                      /\ 1 * f[i] <= (-1) * g[i] + hi
  BY DEF Ints
<1>3. -1 \in Int /\ 1 \in Int /\ -lo \in Int
  OBVIOUS
<1>4. (-1) * a <= 1 * b + n * (-lo)
  BY <1>2, <1>3, SumsRelate
<1>5. 1 * a <= (-1) * b + n * hi
  BY <1>2, <1>3, SumsRelate
<1> HIDE DEF a, b
<1>6. n * (-lo) = -(n * lo) /\ n * lo \in Int /\ n * hi \in Int
  OBVIOUS
<1>7. n * lo <= a + b /\ a + b <= n * hi
  BY <1>1, <1>4, <1>5, <1>6
<1> QED
  BY <1>1, <1>7, MeansAddUp DEF a, b

\* What a node retains is a share: it is clamped to two of them.
LEMMA RetainedIs ==
  ASSUME NEW c \in Configurations, NEW retained \in Share, NEW w \in Share,
         NEW i \in Nat, NEW n \in Nat, NEW nodes \in Nat, n > 0, nodes > 0
  PROVE  Retained(c, retained, w, i, n, nodes) \in Share
<1> DEFINE k1 == 940000
           k2 == 980000
           Limit(v) == Clamp(v, c.min, c.max)
           armed == Limit(MulQ16(MulQ16(retained, c.arm), c.uScalar))
           added == Limit(armed + MulQ16(10200 + ((n - 1) % 4) * 1275, c.adder))
           levelScalar == Ppm - MulPpm(w, c.levelGain)
           nodeScalar == NodeScalar(c, n, nodes)
           phaseScalar == PhaseScalar(c, i, n)
           shaped == MulPpm(MulPpm(MulPpm(MulQ16(added, c.modifier), levelScalar), nodeScalar), phaseScalar)
           super == IF "supercompute" \in c.flags THEN MulPpm(shaped, k1) ELSE shaped
           relay == IF "chip_relay" \in c.flags THEN MulPpm(super, k2) ELSE super
<1>1. Share \subseteq Int /\ Factor \subseteq Int
  <2>1. Share \subseteq Int
    BY PpmIs, SMT DEF Share
  <2>2. \A m : 0..m \subseteq Int
    BY SMT
  <2>3. Factor \subseteq Int
    BY <2>2, Zenon DEF Factor
  <2> QED
    BY <2>1, <2>3, SMT
<1>2. /\ c.min \in Share /\ c.max \in Share /\ c.levelGain \in Int /\ c.nodeGain \in Int
      /\ c.phaseGain \in Int /\ c.arm \in Int /\ c.adder \in Int /\ c.modifier \in Int
      /\ c.uScalar \in Int /\ retained \in Int /\ w \in Int
  BY <1>1 DEF Configurations
<1>3. armed \in Int
  <2>1. MulQ16(MulQ16(retained, c.arm), c.uScalar) \in Int
    BY <1>2, ProductsAreInts
  <2> QED
    BY <1>1, <1>2, <2>1, ClampIs
<1>4. added \in Int
  <2>1. 10200 + ((n - 1) % 4) * 1275 \in Int
    BY SMT
  <2> DEFINE slot == 10200 + ((n - 1) % 4) * 1275
             sum == armed + MulQ16(slot, c.adder)
  <2>2. slot \in Int
    BY <2>1, SMT
  <2> HIDE DEF slot
  <2>3. MulQ16(slot, c.adder) \in Int
    BY <1>2, <2>2, ProductsAreInts
  <2> HIDE DEF armed
  <2>4. sum \in Int
    BY <1>3, <2>3, SMT
  <2> HIDE DEF sum
  <2>5. Limit(sum) \in Share
    BY <1>2, <2>4, ClampIs
  <2> QED
    <3>1. added = Limit(sum)
      BY SMT DEF sum, slot
    <3> HIDE DEF added
    <3> QED
      BY <1>1, <2>5, <3>1
<1>5. levelScalar \in Int
  <2>1. MulPpm(w, c.levelGain) \in Int
    BY <1>2, ProductsAreInts
  <2> QED
    BY <2>1, PpmIs, SMT
<1>6. nodeScalar \in Int
  <2>1. CASE nodes > 1
    <3>1. (n - 1) * c.nodeGain \in Int /\ nodes - 1 \in Nat /\ nodes - 1 > 0
      BY <1>2, <2>1, SMT
    <3>2. ((n - 1) * c.nodeGain) \div (nodes - 1) \in Int
      BY <3>1, DivIs, SMT
    <3> QED
      BY <2>1, <3>2, PpmIs, SMT DEF NodeScalar
  <2>2. CASE ~(nodes > 1)
    BY <2>2, PpmIs, SMT DEF NodeScalar
  <2> QED
    BY <2>1, <2>2, SMT
<1>7. phaseScalar \in Int
  <2>1. (i * c.phaseGain) \in Int /\ ((n - 1) * c.phaseGain) \in Int
    BY <1>2, SMT
  <2>2. (i * c.phaseGain) \div 100 \in Int /\ ((n - 1) * c.phaseGain) \div 200 \in Int
    BY <2>1, DivIs, SMT
  <2> QED
    BY <2>2, PpmIs, SMT DEF PhaseScalar
<1> HIDE DEF added, levelScalar, nodeScalar, phaseScalar
<1>8. shaped \in Int
  BY <1>2, <1>4, <1>5, <1>6, <1>7, ProductsAreInts
<1> HIDE DEF shaped
<1>9. k1 \in Int /\ k2 \in Int
  BY SMT
<1> HIDE DEF k1, k2
<1>10. super \in Int
  BY <1>8, <1>9, ProductsAreInts
<1> HIDE DEF super
<1>11. relay \in Int
  BY <1>9, <1>10, ProductsAreInts
<1> HIDE DEF relay
<1>12. Limit(relay) \in Share
  BY <1>2, <1>11, ClampIs
<1>13. Retained(c, retained, w, i, n, nodes) = Limit(relay)
  BY SMT DEF Retained, armed, added, levelScalar, nodeScalar, phaseScalar, shaped, super, relay,
                k1, k2
<1> QED
  BY <1>12, <1>13, SMT

-----------------------------------------------------------------------------

LEMMA ClampGrows ==
  ASSUME NEW v \in Int, NEW w \in Int, v <= w, NEW lo \in Int, NEW hi \in Int, lo <= hi
  PROVE  Clamp(v, lo, hi) \in lo..hi /\ Clamp(w, lo, hi) \in lo..hi /\ Clamp(v, lo, hi) <= Clamp(w, lo, hi)
  BY DEF Clamp

LEMMA MipWeightsFall ==
  \A m \in 1..8 : MipWeights[m] \in Nat /\ MipWeights[m + 1] \in Nat /\ MipWeights[m + 1] <= MipWeights[m]
<1> TAKE m \in 1..8
<1>1. m = 1 \/ m = 2 \/ m = 3 \/ m = 4 \/ m = 5 \/ m = 6 \/ m = 7 \/ m = 8
  OBVIOUS
<1> QED
  BY <1>1, SMT DEF MipWeights

\* No mip keeps more than the one before it.
LEMMA MipsFall ==
  ASSUME NEW retained \in Nat
  PROVE  \A m \in 1..8 : Mips(retained)[m] >= Mips(retained)[m + 1]
<1> DEFINE mip == [m \in 1..9 |-> Clamp(MulPpm(retained, MipWeights[m]), 1000, Ppm)]
<1>1. mip = [m \in 1..9 |-> mip[m]]
  BY SMT
<1>2. \A m \in 1..9 : mip[m] = Clamp(MulPpm(retained, MipWeights[m]), 1000, Ppm)
  BY SMT
<1>3. Mips(retained) = Computed(mip)
  BY SMT DEF Mips
<1> HIDE DEF mip
<1>4. Mips(retained) = mip
  BY <1>1, <1>3, ComputedIs
<1>5. 1000 \in Int /\ Ppm \in Int /\ 1000 <= Ppm
  BY SMT DEF Ppm
<1>6. ASSUME NEW m \in 1..8 PROVE mip[m] >= mip[m + 1]
  <2> DEFINE less == MipWeights[m + 1]
             more == MipWeights[m]
             v == MulPpm(retained, less)
             u == MulPpm(retained, more)
  <2>1. mip[m] = Clamp(u, 1000, Ppm) /\ mip[m + 1] = Clamp(v, 1000, Ppm)
    BY <1>2, SMT
  <2>2. more \in Nat /\ less \in Nat /\ less <= more
    BY MipWeightsFall, SMT
  <2> HIDE DEF less, more
  <2>3. v \in Int /\ u \in Int /\ v <= u
    BY <2>2, MulPpmGrows, SMT
  <2> HIDE DEF u, v
  <2>5. /\ Clamp(v, 1000, Ppm) \in Int /\ Clamp(u, 1000, Ppm) \in Int
        /\ Clamp(v, 1000, Ppm) <= Clamp(u, 1000, Ppm)
    BY <1>5, <2>3, ClampGrows, SMT
  <2> QED
    BY <2>1, <2>5, SMT
<1> QED
  BY <1>4, <1>6, SMT

Count == 1..NodesPerLevel

\* What a level retains and what it reduces add up, but for one millionth.
LEMMA LevelAddsUp ==
  ASSUME NEW c \in Configurations, NEW r \in Triples,
         NEW levels \in 1..MaxLevels, NEW i \in 1..levels, NEW nodes \in Count
  PROVE  LET l == Level(c, r, i, levels, nodes)
         IN  /\ l.weight = FibWeight(i, levels)
             /\ l.retained \in Nat /\ l.reduction \in Int
             /\ l.retained + l.reduction \in Ppm - 1..Ppm
             /\ \A m \in 1..8 : l.mips[m] >= l.mips[m + 1]
<1> DEFINE w == FibWeight(i, levels)
           made == [n \in 1..nodes |-> Retained(c, r.retained, w, i, n, nodes)]
           ret == Computed(made)
           red == [n \in 1..nodes |-> Ppm - ret[n]]
           retained == SumUpTo(ret, nodes) \div nodes
           reduction == SumUpTo(red, nodes) \div nodes
           l == Level(c, r, i, levels, nodes)
<1>1. nodes \in Nat /\ nodes > 0 /\ i \in Nat /\ r.retained \in Share
  BY DEF Count, NodesPerLevel, Triples, MaxLevels
<1>2. w \in Share
  BY WeightIs
<1>3. /\ l.weight = w /\ l.retained = retained /\ l.reduction = reduction
      /\ l.mips = Mips(retained)
  BY DEF Level
<1> HIDE DEF l, w
<1>4. \A n \in 1..nodes : made[n] \in Share
  BY <1>1, <1>2, RetainedIs
<1>5. made = [n \in 1..nodes |-> made[n]]
  OBVIOUS
<1> HIDE DEF made
<1>6. ret = made
  BY <1>1, <1>5, ComputedIs
<1>7. \A n \in 1..nodes : ret[n] \in Nat /\ ret[n] <= Ppm /\ red[n] = Ppm - ret[n]
  BY <1>4, <1>6, PpmIs DEF Share
<1> HIDE DEF ret, red
<1>8. Ints(ret, nodes) /\ Ints(red, nodes)
  BY <1>7, PpmIs DEF Ints
<1>9. \A n \in 1..nodes : ret[n] + red[n] \in Ppm..Ppm
  BY <1>7, PpmIs
<1>10. retained + reduction \in Ppm - 1..Ppm
  <2>1. Ppm \in Int
    BY PpmIs
  <2> QED
    BY <1>1, <1>8, <1>9, <2>1, MeansOfSums
<1>11. retained \in Nat /\ reduction \in Int
  <2>1. SumUpTo(ret, nodes) \in Nat /\ SumUpTo(red, nodes) \in Int
    BY <1>1, <1>7, <1>8, SumCovers, SumIsInt
  <2>2. retained \in Int /\ reduction \in Int
    BY <1>1, <2>1, DivIs
  <2>3. SumUpTo(ret, nodes) >= nodes * 0
    BY <1>1, <2>1
  <2>4. retained >= 0
    BY <1>1, <2>1, <2>3, DivAtLeast
  <2> QED
    BY <2>2, <2>4
<1>12. \A m \in 1..8 : Mips(retained)[m] >= Mips(retained)[m + 1]
  BY <1>11, MipsFall
<1> QED
  BY <1>3, <1>10, <1>11, <1>12 DEF l, w

LEMMA OrDefaultIs ==
  ASSUME NEW v \in Nat, NEW default \in Nat, default > 0
  PROVE  OrDefault(v, default) \in 1..default
  BY DEF OrDefault

\* Whatever numbers a configuration and a base have, the ladder adds up.
LEMMA LadderSums ==
  ASSUME NEW c \in Configurations, NEW r \in Triples
  PROVE  AddsUp(LadderOf(c, r))
<1> DEFINE levels == OrDefault(c.levels, MaxLevels)
           nodes == OrDefault(c.nodes, NodesPerLevel)
           made == [i \in 1..levels |-> Level(c, r, i, levels, nodes)]
           lvl == Computed(made)
           ret == [i \in 1..levels |-> lvl[i].retained]
           red == [i \in 1..levels |-> lvl[i].reduction]
           weights == [i \in 1..levels |-> lvl[i].weight]
           retained == SumUpTo(ret, levels) \div levels
           reduction == SumUpTo(red, levels) \div levels
           l == LadderOf(c, r)
<1>1. levels \in 1..MaxLevels /\ nodes \in Count
  <2>1. c.levels \in Nat /\ c.nodes \in Nat
    BY DEF Configurations
  <2> QED
    <3>1. MaxLevels \in Nat /\ MaxLevels > 0 /\ NodesPerLevel \in Nat /\ NodesPerLevel > 0
      BY DEF MaxLevels, NodesPerLevel
    <3> QED
      BY <2>1, <3>1, OrDefaultIs DEF Count
<1>2. l.levels = lvl /\ l.retained = retained /\ l.reduction = reduction
  BY DEF LadderOf
<1> HIDE DEF levels, nodes, l
<1>3. levels \in Nat /\ levels > 0
  BY <1>1 DEF MaxLevels
<1>4. made = [i \in 1..levels |-> made[i]]
  OBVIOUS
<1>5. \A i \in 1..levels : made[i] = Level(c, r, i, levels, nodes)
  OBVIOUS
<1> HIDE DEF made
<1>6. lvl = made /\ Len(lvl) = levels
  BY <1>3, <1>4, ComputedIs
<1> HIDE DEF lvl
<1>7. \A i \in 1..levels : /\ lvl[i].weight = FibWeight(i, levels)
                           /\ lvl[i].retained \in Nat /\ lvl[i].reduction \in Int
                           /\ lvl[i].retained + lvl[i].reduction \in Ppm - 1..Ppm
                           /\ \A m \in 1..8 : lvl[i].mips[m] >= lvl[i].mips[m + 1]
  <2> TAKE i \in 1..levels
  <2> DEFINE one == Level(c, r, i, levels, nodes)
  <2>1. /\ one.weight = FibWeight(i, levels)
        /\ one.retained \in Nat /\ one.reduction \in Int
        /\ one.retained + one.reduction \in Ppm - 1..Ppm
        /\ \A m \in 1..8 : one.mips[m] >= one.mips[m + 1]
    BY <1>1, LevelAddsUp
  <2>2. lvl[i] = one
    BY <1>5, <1>6
  <2> HIDE DEF one
  <2> QED
    BY <2>1, <2>2
<1>8. /\ \A i \in 1..levels : ret[i] = lvl[i].retained
      /\ \A i \in 1..levels : red[i] = lvl[i].reduction
      /\ \A i \in 1..levels : weights[i] = lvl[i].weight
  OBVIOUS
<1> HIDE DEF ret, red, weights
<1>9. Ints(ret, levels) /\ Ints(red, levels)
  BY <1>7, <1>8 DEF Ints
<1>10. \A i \in 1..levels : ret[i] + red[i] \in Ppm - 1..Ppm
  BY <1>7, <1>8
<1>11. retained + reduction \in Ppm - 1 - 1..Ppm
  <2>1. Ppm - 1 \in Int /\ Ppm \in Int
    BY PpmIs
  <2> QED
    BY <1>3, <1>9, <1>10, <2>1, MeansOfSums
<1>12. retained \in Int /\ reduction \in Int
  BY <1>3, <1>9, SumIsInt, DivIs
<1> HIDE DEF retained, reduction
<1>13. Ppm - (retained + reduction) \in 0..2
  BY <1>11, <1>12, PpmIs
<1>14. Ppm - SumUpTo(weights, levels) \in 0..levels
  BY <1>1, <1>7, <1>8, WeightsShareOut
<1>15. \A i \in 1..levels : Ppm - (lvl[i].retained + lvl[i].reduction) \in 0..1
  BY <1>7, PpmIs
<1> QED
  <2>1. [i \in 1..Len(l.levels) |-> l.levels[i].weight] = weights /\ Len(l.levels) = levels
    BY <1>2, <1>6 DEF weights
  <2>2. \A i \in 1..levels : \A m \in 1..8 : l.levels[i].mips[m] >= l.levels[i].mips[m + 1]
    BY <1>2, <1>7
  <2>3. AddsUp(l)
    BY <1>2, <1>13, <1>14, <1>15, <2>1, <2>2 DEF AddsUp
  <2> QED
    BY <2>3 DEF l

-----------------------------------------------------------------------------
(* The ladder of a pair                                                    *)

LevelIndex == 1..MaxLevels

LEMMA SizesAre == MaxLevels = 22 /\ NodesPerLevel = 12
  BY DEF MaxLevels, NodesPerLevel

\* What the levels and nodes take off is less than the whole.
LEMMA FactorsAre ==
  ASSUME NEW w \in Share, NEW i \in LevelIndex, NEW n \in Count
  PROVE  /\ Ppm - MulPpm(w, 144000) \in Nat
         /\ Ppm - ((n - 1) * 21000) \div (NodesPerLevel - 1) \in Nat
         /\ Ppm - (i * 10200) \div 100 - ((n - 1) * 10200) \div 200 \in Nat
         /\ 10200 + ((n - 1) % 4) * 1275 \in Nat
<1>1. w \in Nat /\ w <= Ppm /\ 144000 \in Nat /\ 144000 <= Ppm
  <2>1. w \in Nat /\ w <= Ppm
    BY PpmIs, SMT DEF Share
  <2>2. 144000 \in Nat /\ 144000 <= Ppm
    BY SMT DEF Ppm
  <2> QED
    BY <2>1, <2>2, SMT
<1>2. MulPpm(w, 144000) \in Nat /\ MulPpm(w, 144000) <= Ppm
  <2>1. MulPpm(w, 144000) \in 0..w
    BY <1>1, MulPpmByLess, SMT
  <2> QED
    BY <1>1, <2>1, PpmIs, SMT
<1>3. n \in 1..12 /\ i \in 1..22
  BY SizesAre, SMT DEF Count, LevelIndex
<1>4. Ppm - ((n - 1) * 21000) \div (NodesPerLevel - 1) \in Nat
  BY <1>3, SizesAre, SMT DEF Ppm
<1>5. Ppm - (i * 10200) \div 100 - ((n - 1) * 10200) \div 200 \in Nat
  BY <1>3, SMT DEF Ppm
<1>6. 10200 + ((n - 1) % 4) * 1275 \in Nat
  BY <1>3, SMT
<1> QED
  BY <1>2, <1>4, <1>5, <1>6, PpmIs, SMT

Between(v) == v \in Nat /\ 10200 <= v /\ v <= 120000

LEMMA LimitGrows ==
  ASSUME NEW v \in Int, NEW w \in Int, v <= w
  PROVE  /\ Between(Clamp(v, 10200, 120000)) /\ Between(Clamp(w, 10200, 120000))
         /\ Clamp(v, 10200, 120000) <= Clamp(w, 10200, 120000)
  BY SMT DEF Clamp, Between

\* A pair's own part of a node: how it goes from a base to what is retained.
Shaped(b, w, i, n) ==
  LET Limit(v) == Clamp(v, 10200, 120000)
      armed == Limit(MulQ16(MulQ16(b, 77857), 114688))
      added == Limit(armed + MulQ16(10200 + ((n - 1) % 4) * 1275, 27525))
      leveled == MulPpm(MulQ16(added, 67830), Ppm - MulPpm(w, 144000))
      noded == MulPpm(leveled, Ppm - ((n - 1) * 21000) \div (NodesPerLevel - 1))
  IN MulPpm(noded, Ppm - (i * 10200) \div 100 - ((n - 1) * 10200) \div 200)

LEMMA ShapedGrows ==
  ASSUME NEW a \in Nat, NEW b \in Nat, a <= b, NEW w \in Share, NEW i \in LevelIndex, NEW n \in Count
  PROVE  /\ Shaped(a, w, i, n) \in Nat /\ Shaped(b, w, i, n) \in Nat
         /\ Shaped(a, w, i, n) <= Shaped(b, w, i, n)
<1> DEFINE Limit(v) == Clamp(v, 10200, 120000)
           lvlF == Ppm - MulPpm(w, 144000)
           nodF == Ppm - ((n - 1) * 21000) \div (NodesPerLevel - 1)
           phaF == Ppm - (i * 10200) \div 100 - ((n - 1) * 10200) \div 200
           slot == 10200 + ((n - 1) % 4) * 1275
           more == MulQ16(slot, 27525)
           Arm(v) == Limit(MulQ16(MulQ16(v, 77857), 114688))
           Add(v) == Limit(v + more)
           Lvl(v) == MulPpm(MulQ16(v, 67830), lvlF)
<1>1. lvlF \in Nat /\ nodF \in Nat /\ phaF \in Nat /\ slot \in Nat
  BY FactorsAre, SMT
<1>2. \A v : Shaped(v, w, i, n) = MulPpm(MulPpm(Lvl(Add(Arm(v))), nodF), phaF)
  BY SMT DEF Shaped
<1> HIDE DEF lvlF, nodF, phaF, slot
<1>3. 77857 \in Nat /\ 114688 \in Nat /\ 27525 \in Nat /\ 67830 \in Nat
  BY SMT
<1>4. more \in Nat
  BY <1>1, <1>3, MulQ16Grows, SMT
<1> HIDE DEF more
<1>5. ASSUME NEW u \in Nat, NEW v \in Nat, u <= v
      PROVE  Arm(u) \in Nat /\ Arm(v) \in Nat /\ Arm(u) <= Arm(v)
  <2> DEFINE u1 == MulQ16(u, 77857)
             v1 == MulQ16(v, 77857)
             u2 == MulQ16(u1, 114688)
             v2 == MulQ16(v1, 114688)
  <2>1. u1 \in Nat /\ v1 \in Nat /\ u1 <= v1
    BY <1>3, <1>5, MulQ16Grows, SMT
  <2> HIDE DEF u1, v1
  <2>2. u2 \in Nat /\ v2 \in Nat /\ u2 <= v2
    BY <1>3, <2>1, MulQ16Grows, SMT
  <2> HIDE DEF u2, v2
  <2>3. /\ Limit(u2) \in Nat /\ Limit(v2) \in Nat /\ Limit(u2) <= Limit(v2)
    BY <2>2, LimitGrows, SMT DEF Between
  <2> QED
    BY <2>3, SMT DEF u2, v2, u1, v1
<1>6. ASSUME NEW u \in Nat, NEW v \in Nat, u <= v
      PROVE  Add(u) \in Nat /\ Add(v) \in Nat /\ Add(u) <= Add(v)
  <2> DEFINE u1 == u + more
             v1 == v + more
  <2>1. u1 \in Int /\ v1 \in Int /\ u1 <= v1
    BY <1>4, <1>6, SMT
  <2> HIDE DEF u1, v1
  <2>2. Limit(u1) \in Nat /\ Limit(v1) \in Nat /\ Limit(u1) <= Limit(v1)
    BY <2>1, LimitGrows, SMT DEF Between
  <2> QED
    BY <2>2, SMT DEF u1, v1
<1>7. ASSUME NEW u \in Nat, NEW v \in Nat, u <= v
      PROVE  Lvl(u) \in Nat /\ Lvl(v) \in Nat /\ Lvl(u) <= Lvl(v)
  <2> DEFINE u1 == MulQ16(u, 67830)
             v1 == MulQ16(v, 67830)
  <2>1. u1 \in Nat /\ v1 \in Nat /\ u1 <= v1
    BY <1>3, <1>7, MulQ16Grows, SMT
  <2> HIDE DEF u1, v1
  <2>2. MulPpm(u1, lvlF) \in Nat /\ MulPpm(v1, lvlF) \in Nat /\ MulPpm(u1, lvlF) <= MulPpm(v1, lvlF)
    BY <1>1, <2>1, MulPpmGrows, SMT
  <2> QED
    BY <2>2, SMT DEF u1, v1
<1> HIDE DEF Arm, Add, Lvl
<1>8. Arm(a) \in Nat /\ Arm(b) \in Nat /\ Arm(a) <= Arm(b)
  BY <1>5, SMT
<1>9. Add(Arm(a)) \in Nat /\ Add(Arm(b)) \in Nat /\ Add(Arm(a)) <= Add(Arm(b))
  BY <1>6, <1>8, SMT
<1>10. /\ Lvl(Add(Arm(a))) \in Nat /\ Lvl(Add(Arm(b))) \in Nat
       /\ Lvl(Add(Arm(a))) <= Lvl(Add(Arm(b)))
  BY <1>7, <1>9, SMT
<1> DEFINE x == Lvl(Add(Arm(a)))
           y == Lvl(Add(Arm(b)))
           x1 == MulPpm(x, nodF)
           y1 == MulPpm(y, nodF)
<1>11. x \in Nat /\ y \in Nat /\ x <= y
  BY <1>10, SMT
<1>12. Shaped(a, w, i, n) = MulPpm(x1, phaF) /\ Shaped(b, w, i, n) = MulPpm(y1, phaF)
  BY <1>2, SMT
<1> HIDE DEF x, y
<1>13. x1 \in Nat /\ y1 \in Nat /\ x1 <= y1
  BY <1>1, <1>11, MulPpmGrows, SMT
<1> HIDE DEF x1, y1
<1>14. MulPpm(x1, phaF) \in Nat /\ MulPpm(y1, phaF) \in Nat /\ MulPpm(x1, phaF) <= MulPpm(y1, phaF)
  BY <1>1, <1>13, MulPpmGrows, SMT
<1> QED
  BY <1>12, <1>14, SMT

\* The factors a pair adds to the shaped value, and the last limit.
Biased(p, v) ==
  LET refracted == MulPpm(v, Clamp(p.refraction, 900000, 1200000))
      biased == MulPpm(refracted, Clamp(p.quotient, 800000, 1250000))
      crossed == IF p.mode = "crossed" THEN MulPpm(biased, 970000) ELSE biased
  IN Clamp(MulPpm(MulPpm(crossed, 940000), 980000), 10200, 120000)

LEMMA DuoNodeIs ==
  ASSUME NEW p, NEW w, NEW i, NEW n
  PROVE  DuoNode(p, w, i, n) = Biased(p, Shaped(BaseRetained(p), w, i, n))
  BY SMT DEF DuoNode, Biased, Shaped

LEMMA FactorIsNat ==
  ASSUME NEW x \in Int, NEW lo \in Nat, NEW hi \in Nat
  PROVE  Clamp(x, lo, hi) \in Nat
  BY DEF Clamp

LEMMA BiasedGrows ==
  ASSUME NEW p, NEW q, p.mode = q.mode, p.refraction = q.refraction, p.quotient = q.quotient,
         p.refraction \in Int, p.quotient \in Int,
         NEW u \in Nat, NEW v \in Nat, u <= v
  PROVE  Between(Biased(p, u)) /\ Between(Biased(q, v)) /\ Biased(p, u) <= Biased(q, v)
<1> DEFINE k3 == 970000
           k4 == 940000
           k5 == 980000
           rf == Clamp(p.refraction, 900000, 1200000)
           qf == Clamp(p.quotient, 800000, 1250000)
           u1 == MulPpm(u, rf)
           v1 == MulPpm(v, rf)
           u2 == MulPpm(u1, qf)
           v2 == MulPpm(v1, qf)
           u3 == IF p.mode = "crossed" THEN MulPpm(u2, k3) ELSE u2
           v3 == IF p.mode = "crossed" THEN MulPpm(v2, k3) ELSE v2
           u4 == MulPpm(u3, k4)
           v4 == MulPpm(v3, k4)
           u5 == MulPpm(u4, k5)
           v5 == MulPpm(v4, k5)
<1>1. rf \in Nat /\ qf \in Nat
  <2> DEFINE r1 == 900000
             r2 == 1200000
             q1 == 800000
             q2 == 1250000
  <2>1. r1 \in Nat /\ r2 \in Nat /\ q1 \in Nat /\ q2 \in Nat
    BY SMT
  <2> HIDE DEF r1, r2, q1, q2
  <2>2. Clamp(p.refraction, r1, r2) \in Nat
    BY <2>1, SMTT(30) DEF Clamp
  <2>3. Clamp(p.quotient, q1, q2) \in Nat
    BY <2>1, SMTT(30) DEF Clamp
  <2> QED
    BY <2>2, <2>3, SMTT(30) DEF r1, r2, q1, q2
<1>2. Biased(p, u) = Clamp(u5, 10200, 120000) /\ Biased(q, v) = Clamp(v5, 10200, 120000)
  BY SMT DEF Biased
<1>3. k3 \in Nat /\ k4 \in Nat /\ k5 \in Nat
  BY SMT
<1> HIDE DEF rf, qf, k3, k4, k5
<1>4. u1 \in Nat /\ v1 \in Nat /\ u1 <= v1
  BY <1>1, MulPpmRises
<1> HIDE DEF u1, v1
<1>5. u2 \in Nat /\ v2 \in Nat /\ u2 <= v2
  BY <1>1, <1>4, MulPpmRises
<1> HIDE DEF u2, v2
<1>6. u3 \in Nat /\ v3 \in Nat /\ u3 <= v3
  <2>1. MulPpm(u2, k3) \in Nat /\ MulPpm(v2, k3) \in Nat
        /\ MulPpm(u2, k3) <= MulPpm(v2, k3)
    BY <1>3, <1>5, MulPpmRises
  <2> QED
    BY <1>5, <2>1
<1> HIDE DEF u3, v3
<1>7. u4 \in Nat /\ v4 \in Nat /\ u4 <= v4
  BY <1>3, <1>6, MulPpmRises
<1> HIDE DEF u4, v4
<1>8. u5 \in Nat /\ v5 \in Nat /\ u5 <= v5
  BY <1>3, <1>7, MulPpmRises
<1> HIDE DEF u5, v5
<1>9. /\ Between(Clamp(u5, 10200, 120000)) /\ Between(Clamp(v5, 10200, 120000))
      /\ Clamp(u5, 10200, 120000) <= Clamp(v5, 10200, 120000)
  BY <1>8, LimitGrows, SMT
<1> QED
  BY <1>2, <1>9, SMT

Pairs == [mode : Modes, quotient : Nat, refraction : Nat, energy : Share, pressure : Share]

LEMMA PairOfIs ==
  ASSUME NEW mode \in Modes, NEW e \in Share, NEW u \in Share
  PROVE  /\ PairOf(mode, e, u) \in Pairs /\ NeutralPair(mode, e, u) \in Pairs
         /\ LET p == PairOf(mode, e, u)
            IN  /\ p.mode = mode /\ p.energy = e /\ p.pressure = u
                /\ p.quotient = Quotient(mode) /\ p.refraction = Refraction(mode)
         /\ LET p == NeutralPair(mode, e, u)
            IN  p.mode = mode /\ p.quotient = Ppm /\ p.refraction = Ppm
<1>1. 1250000 \in Nat /\ 1010200 \in Nat /\ 1020300 \in Nat /\ 1044400 \in Nat
  BY SMT
<1>2. Quotient(mode) \in Nat /\ Refraction(mode) \in Nat
  BY <1>1, PpmIs, SMT DEF Quotient, Refraction, Modes
<1> QED
  BY <1>2, PpmIs DEF PairOf, NeutralPair, Pairs

LEMMA BaseFactorIs == \A mode \in Modes : BaseFactor(mode) \in Nat
<1>1. 980000 \in Nat /\ 1020000 \in Nat /\ 960000 \in Nat
  BY SMT
<1> QED
  BY <1>1, PpmIs, SMT DEF BaseFactor, Modes

\* A pair with more energy and no more pressure starts from no more.
LEMMA BaseFollows ==
  ASSUME NEW p \in Pairs, NEW q \in Pairs, p.mode = q.mode,
         p.energy >= q.energy, p.pressure <= q.pressure
  PROVE  Between(BaseRetained(p)) /\ Between(BaseRetained(q)) /\ BaseRetained(p) <= BaseRetained(q)
<1> DEFINE f == BaseFactor(p.mode)
           a == 10200 + (Ppm - p.energy) \div 20 + p.pressure \div 25
           b == 10200 + (Ppm - q.energy) \div 20 + q.pressure \div 25
           u == MulPpm(a, f)
           v == MulPpm(b, f)
<1>1. f \in Nat
  BY BaseFactorIs, SMT DEF Pairs
<1>2. /\ p.energy \in Nat /\ q.energy \in Nat /\ p.pressure \in Nat /\ q.pressure \in Nat
      /\ Ppm - p.energy \in Nat /\ Ppm - q.energy \in Nat
  BY PpmIs, SMT DEF Pairs, Share
<1>3. a \in Nat /\ b \in Nat /\ a <= b
  BY <1>2, PpmIs, SMT
<1>4. BaseRetained(p) = Clamp(u, 10200, 120000) /\ BaseRetained(q) = Clamp(v, 10200, 120000)
  BY SMT DEF BaseRetained
<1> HIDE DEF f, a, b
<1>5. u \in Nat /\ v \in Nat /\ u <= v
  BY <1>1, <1>3, MulPpmGrows, SMT
<1> HIDE DEF u, v
<1>6. /\ Between(Clamp(u, 10200, 120000)) /\ Between(Clamp(v, 10200, 120000))
      /\ Clamp(u, 10200, 120000) <= Clamp(v, 10200, 120000)
  BY <1>5, LimitGrows, SMT
<1> QED
  BY <1>4, <1>6, SMT

LEMMA NodeFollows ==
  ASSUME NEW p \in Pairs, NEW q \in Pairs, p.mode = q.mode,
         p.refraction = q.refraction, p.quotient = q.quotient,
         p.energy >= q.energy, p.pressure <= q.pressure,
         NEW w \in Share, NEW i \in LevelIndex, NEW n \in Count
  PROVE  /\ DuoNode(p, w, i, n) \in Nat /\ DuoNode(q, w, i, n) \in Nat
         /\ DuoNode(p, w, i, n) <= DuoNode(q, w, i, n)
<1> DEFINE a == BaseRetained(p)
           b == BaseRetained(q)
           u == Shaped(a, w, i, n)
           v == Shaped(b, w, i, n)
<1>1. a \in Nat /\ b \in Nat /\ a <= b
  BY BaseFollows, SMT DEF Between
<1>2. DuoNode(p, w, i, n) = Biased(p, u) /\ DuoNode(q, w, i, n) = Biased(q, v)
  BY DuoNodeIs, SMT
<1> HIDE DEF a, b
<1>3. u \in Nat /\ v \in Nat /\ u <= v
  BY <1>1, ShapedGrows, SMT
<1> HIDE DEF u, v
<1>4. p.refraction \in Int /\ p.quotient \in Int
  BY SMT DEF Pairs
<1>5. Between(Biased(p, u)) /\ Between(Biased(q, v)) /\ Biased(p, u) <= Biased(q, v)
  BY <1>3, <1>4, BiasedGrows, SMT
<1> QED
  BY <1>2, <1>5, SMT DEF Between

\* The ladder of a pair, level by level.
LEMMA DuoRetainedIs ==
  ASSUME NEW p, NEW i \in LevelIndex
  PROVE  DuoRetained(p)[i] = DuoLevel(p, i)
<1> DEFINE made == [j \in 1..MaxLevels |-> DuoLevel(p, j)]
<1>1. MaxLevels \in Nat
  BY SizesAre
<1>2. made = [j \in 1..MaxLevels |-> made[j]] /\ made[i] = DuoLevel(p, i)
  BY DEF LevelIndex
<1>3. DuoRetained(p) = Computed(made)
  BY DEF DuoRetained
<1> HIDE DEF made
<1>4. Computed(made) = made
  BY <1>1, <1>2, ComputedIs
<1> QED
  BY <1>2, <1>3, <1>4

LEMMA WeightOfLevel ==
  ASSUME NEW i \in LevelIndex
  PROVE  FibWeight(i, MaxLevels) \in Share
<1>1. MaxLevels \in 1..MaxLevels
  BY SizesAre
<1> QED
  BY <1>1, WeightIs DEF LevelIndex

\* More energy and no more pressure retain no more, at every level.
LEMMA PairsFollow ==
  ASSUME NEW mode \in Modes, NEW e \in Share, NEW f \in Share, NEW u \in Share, NEW v \in Share,
         e >= f, u <= v
  PROVE  LadderFollows(PairOf(mode, e, u), PairOf(mode, f, v))
<1> DEFINE p == PairOf(mode, e, u)
           q == PairOf(mode, f, v)
<1>1. /\ p \in Pairs /\ q \in Pairs /\ p.mode = q.mode
      /\ p.refraction = q.refraction /\ p.quotient = q.quotient
      /\ p.energy >= q.energy /\ p.pressure <= q.pressure
  BY PairOfIs
<1> HIDE DEF p, q
<1>2. ASSUME NEW i \in LevelIndex PROVE DuoLevel(p, i) <= DuoLevel(q, i)
  <2> DEFINE w == FibWeight(i, MaxLevels)
             less == [n \in 1..NodesPerLevel |-> DuoNode(p, w, i, n)]
             more == [n \in 1..NodesPerLevel |-> DuoNode(q, w, i, n)]
             a == SumUpTo(less, NodesPerLevel)
             b == SumUpTo(more, NodesPerLevel)
  <2>1. DuoLevel(p, i) = a \div NodesPerLevel /\ DuoLevel(q, i) = b \div NodesPerLevel
    BY DEF DuoLevel
  <2>2. w \in Share
    BY WeightOfLevel
  <2>3. \A n \in 1..NodesPerLevel : less[n] = DuoNode(p, w, i, n) /\ more[n] = DuoNode(q, w, i, n)
    OBVIOUS
  <2> HIDE DEF w, less, more
  <2>4. \A n \in 1..NodesPerLevel : less[n] \in Nat /\ more[n] \in Nat /\ less[n] <= more[n]
    BY <1>1, <2>2, <2>3, NodeFollows DEF Count
  <2>5. NodesPerLevel \in Nat /\ NodesPerLevel > 0 /\ 1 \in Int /\ 0 \in Int
    BY SizesAre
  <2>6. Ints(less, NodesPerLevel) /\ Ints(more, NodesPerLevel)
    BY <2>4 DEF Ints
  <2>7. \A n \in 1..NodesPerLevel : 1 * less[n] <= 1 * more[n] + 0
    BY <2>4
  <2>8. 1 * a <= 1 * b + NodesPerLevel * 0
    BY <2>5, <2>6, <2>7, SumsRelate
  <2>9. a \in Int /\ b \in Int
    BY <2>5, <2>6, SumIsInt
  <2> HIDE DEF a, b
  <2>10. a <= b
    BY <2>5, <2>8, <2>9
  <2> QED
    BY <2>1, <2>5, <2>9, <2>10, DivMonotone
<1>3. \A i \in LevelIndex : DuoRetained(p)[i] <= DuoRetained(q)[i]
  BY <1>2, DuoRetainedIs
<1> QED
  BY <1>3 DEF LadderFollows, LevelIndex, p, q

\* What the adalter module retains at a level, before the mean.
LEMMA LadderRetains ==
  ASSUME NEW r, NEW i \in LevelIndex
  PROVE  LadderOf(Defaults, r).levels[i].retained =
           SumUpTo([n \in 1..NodesPerLevel |->
                      Retained(Defaults, r.retained, FibWeight(i, MaxLevels), i, n, NodesPerLevel)],
                   NodesPerLevel) \div NodesPerLevel
<1> DEFINE made == [j \in 1..MaxLevels |-> Level(Defaults, r, j, MaxLevels, NodesPerLevel)]
           w == FibWeight(i, MaxLevels)
           ret == [n \in 1..NodesPerLevel |-> Retained(Defaults, r.retained, w, i, n, NodesPerLevel)]
<1>1. MaxLevels \in Nat /\ NodesPerLevel \in Nat
  BY SizesAre
<1>2. OrDefault(Defaults.levels, MaxLevels) = MaxLevels
      /\ OrDefault(Defaults.nodes, NodesPerLevel) = NodesPerLevel
  BY DEF OrDefault, Defaults
<1>3. LadderOf(Defaults, r).levels = Computed(made)
  BY <1>2 DEF LadderOf
<1>4. made = [j \in 1..MaxLevels |-> made[j]]
      /\ made[i] = Level(Defaults, r, i, MaxLevels, NodesPerLevel)
  BY DEF LevelIndex
<1> HIDE DEF made
<1>5. LadderOf(Defaults, r).levels[i] = Level(Defaults, r, i, MaxLevels, NodesPerLevel)
  BY <1>1, <1>3, <1>4, ComputedIs
<1>6. ret = [n \in 1..NodesPerLevel |-> ret[n]]
  OBVIOUS
<1>7. Level(Defaults, r, i, MaxLevels, NodesPerLevel).retained
        = SumUpTo(Computed(ret), NodesPerLevel) \div NodesPerLevel
  BY DEF Level
<1> HIDE DEF ret
<1>8. Computed(ret) = ret
  BY <1>1, <1>6, ComputedIs
<1> QED
  BY <1>5, <1>7, <1>8 DEF ret

\* With the default configuration a node of the adalter module shapes its
\* base as DawnHex does.
LEMMA RetainedShapes ==
  ASSUME NEW b, NEW w, NEW i, NEW n
  PROVE  Retained(Defaults, b, w, i, n, NodesPerLevel) =
           Clamp(MulPpm(MulPpm(Shaped(b, w, i, n), 940000), 980000), 10200, 120000)
<1>1. /\ Defaults.min = 10200 /\ Defaults.max = 120000 /\ Defaults.levelGain = 144000
      /\ Defaults.nodeGain = 21000 /\ Defaults.phaseGain = 10200 /\ Defaults.arm = 77857
      /\ Defaults.adder = 27525 /\ Defaults.modifier = 67830 /\ Defaults.uScalar = 114688
      /\ "supercompute" \in Defaults.flags /\ "chip_relay" \in Defaults.flags
  BY SMT DEF Defaults
<1>2. NodeScalar(Defaults, n, NodesPerLevel) = Ppm - ((n - 1) * 21000) \div (NodesPerLevel - 1)
  BY <1>1, SizesAre, SMT DEF NodeScalar
<1>3. PhaseScalar(Defaults, i, n) = Ppm - (i * 10200) \div 100 - ((n - 1) * 10200) \div 200
  BY <1>1, SMT DEF PhaseScalar
<1> QED
  BY <1>1, <1>2, <1>3, SMT DEF Retained, Shaped

\* A pair with neutral factors adds nothing.
LEMMA NeutralBiased ==
  ASSUME NEW p, p.mode # "crossed", p.quotient = Ppm, p.refraction = Ppm, NEW v \in Nat
  PROVE  Biased(p, v) = Clamp(MulPpm(MulPpm(v, 940000), 980000), 10200, 120000)
<1>1. Clamp(Ppm, 900000, 1200000) = Ppm /\ Clamp(Ppm, 800000, 1250000) = Ppm
  BY SMT DEF Clamp, Ppm
<1>2. MulPpm(v, Ppm) = v
  BY MulPpmByOne, SMT
<1> QED
  BY <1>1, <1>2, SMT DEF Biased

\* The two implementations of the ladder agree.
LEMMA PairsAgree ==
  ASSUME NEW mode \in Modes, mode # "crossed", NEW e \in Share, NEW u \in Share
  PROVE  LaddersAgree(NeutralPair(mode, e, u))
<1> DEFINE p == NeutralPair(mode, e, u)
           b == BaseRetained(p)
           r == [LoadRatios EXCEPT !.retained = b]
<1>1. p \in Pairs /\ p.mode # "crossed" /\ p.quotient = Ppm /\ p.refraction = Ppm
  BY PairOfIs, SMT
<1> HIDE DEF p
<1>2. b \in Nat
  <2>1. p.energy >= p.energy /\ p.pressure <= p.pressure
    BY <1>1, PpmIs, SMT DEF Pairs, Share
  <2> QED
    BY <1>1, <2>1, BaseFollows, SMT DEF Between
<1>3. r.retained = b
  BY SMT DEF LoadRatios
<1> HIDE DEF r
<1>4. ASSUME NEW i \in LevelIndex PROVE LadderOf(Defaults, r).levels[i].retained = DuoRetained(p)[i]
  <2> DEFINE w == FibWeight(i, MaxLevels)
             one == [n \in 1..NodesPerLevel |-> Retained(Defaults, b, w, i, n, NodesPerLevel)]
             two == [n \in 1..NodesPerLevel |-> DuoNode(p, w, i, n)]
  <2>1. w \in Share
    BY WeightOfLevel, SMT
  <2>2. LadderOf(Defaults, r).levels[i].retained = SumUpTo(one, NodesPerLevel) \div NodesPerLevel
    BY <1>3, LadderRetains
  <2>3. DuoRetained(p)[i] = SumUpTo(two, NodesPerLevel) \div NodesPerLevel
    BY DuoRetainedIs, SMT DEF DuoLevel
  <2> HIDE DEF w, b
  <2>4. ASSUME NEW n \in Count
        PROVE  Retained(Defaults, b, w, i, n, NodesPerLevel) = DuoNode(p, w, i, n)
    <3> DEFINE v == Shaped(b, w, i, n)
    <3>1. v \in Nat
      BY <1>2, <2>1, ShapedGrows, SMT
    <3>2. Retained(Defaults, b, w, i, n, NodesPerLevel) =
            Clamp(MulPpm(MulPpm(v, 940000), 980000), 10200, 120000)
      BY RetainedShapes, SMT
    <3>3. DuoNode(p, w, i, n) = Biased(p, v)
      BY DuoNodeIs, SMT DEF b
    <3> HIDE DEF v
    <3>4. Biased(p, v) = Clamp(MulPpm(MulPpm(v, 940000), 980000), 10200, 120000)
      BY <1>1, <3>1, NeutralBiased, SMT
    <3> QED
      BY <3>2, <3>3, <3>4, SMT
  <2>5. one = two
    BY <2>4, SMT DEF Count
  <2> QED
    BY <2>2, <2>3, <2>5
<1> QED
  BY <1>4, SMT DEF LaddersAgree, LevelIndex, p, r, b

\* EveryPairSound, for any energies and pressures.
LEMMA PairsSound == EveryPairSound
<1>1. \A x \in Levels : x \in Share
  BY LevelsAssumption
<1>2. \A mode \in Modes \ {"crossed"}, e, u \in Levels : LaddersAgree(NeutralPair(mode, e, u))
  BY <1>1, PairsAgree
<1>3. \A mode \in Modes, e, f, u, v \in Levels :
        e >= f /\ u <= v => LadderFollows(PairOf(mode, e, u), PairOf(mode, f, v))
  BY <1>1, PairsFollow
<1> QED
  BY <1>2, <1>3 DEF EveryPairSound

(* The two kernel modules compute one ladder: DawnHex makes of a pair with *)
(* neutral factors what the adalter module makes of the same base; and a   *)
(* pair with more energy and no more pressure retains no more at any level. *)
THEOREM LaddersSound == Spec => DuoLadderSound
<1>1. [report' # report => EveryPairSound]_vars
  BY PairsSound
<1> QED
  BY <1>1, PTL DEF DuoLadderSound

(* Every report adds up, whatever configurations and bases the callers     *)
(* gave before it was made: only the work item writes a report, and what   *)
(* it writes is the ladder of the input at that moment.                    *)
THEOREM ReportsAddUp == Spec => LadderAddsUp
<1>1. ASSUME Inv, Next, report' # report PROVE AddsUp(report'.ladder)
  <2>1. Recompute
    BY <1>1 DEF Next, Thread, QueueWork, FlushWork, Ioctl, Open, Close, SetCfg, RunBase, Wrote,
                StoreKey, Worker, StartWork, EndWork, Life, AllocQueue, Register, Loaded, Unload,
                Drain, Destroy, Deregister, Deregistered, locked
  <2>2. cfg \in Cfgs \union {LoadCfg} /\ base.ratios \in Ratios
    BY <1>1 DEF Inv, TypeOK, Bases
  <2>3. report'.ladder = Ladder[cfg, base.ratios]
    BY <2>1 DEF Recompute, Reported
  <2>4. /\ Ladder[cfg, base.ratios] = LadderOf(cfg, base.ratios)
        /\ cfg \in Configurations /\ base.ratios \in Triples
    BY <2>2, LadderAssumption
  <2> QED
    BY <2>3, <2>4, LadderSums
<1>2. Inv /\ [Next]_vars => [report' # report => AddsUp(report'.ladder)]_vars
  BY <1>1
<1> QED
  BY <1>2, Invariance, PTL DEF Spec, LadderAddsUp
=============================================================================
