-------------------------- MODULE EventRing_proofs --------------------------
(***************************************************************************)
(* Proofs about EventRing, for any ring of two slots or more, any readers  *)
(* and any number of events: what the ring holds, that no reader sleeps    *)
(* past an event, and that the ring is the bounded queue of EventLog.      *)
(***************************************************************************)
EXTENDS EventRing, SequenceTheorems, TLAPS

\* The handler between its steps: it has the lock from its first event to its
\* last, and a slot is free when it writes one.
EmitInv ==
  /\ lock = NoOwner <=> emitter = "idle"
  /\ emitter = "publish" => emitted < MaxEvents /\ After(head) # tail
  /\ Waiting <= emitted

\* A reader on the wait queue that nobody woke: what it loaded of the
\* condition makes it sleep only when the ring is empty.
LoadedWell(r) ==
  \/ seen[r] = <<>>
  \/ seen[r] = <<"head", head>>
  \/ \E t \in Slot : seen[r] = <<"tail", t>> /\ (t = head => tail = head)

WaitInv ==
  \A r \in Readers :
    /\ reading[r] \in {"check", "queued"} \/ seen[r] = <<>>
    /\ reading[r] = "queued" /\ ~woken[r] => LoadedWell(r) \/ emitter = "wake"

Inv == RingHoldsNewest /\ EmitInv /\ WaitInv /\ NoLostWakeup

-----------------------------------------------------------------------------
(* Arithmetic of the ring                                                  *)

LEMMA Wraps ==
  ASSUME NEW x \in Int
  PROVE  /\ 0 <= x /\ x < EventQ => x % EventQ = x
         /\ EventQ <= x /\ x < 2 * EventQ => x % EventQ = x - EventQ
         /\ -EventQ <= x /\ x < 0 => x % EventQ = x + EventQ
<1>1. EventQ \in Nat /\ EventQ >= 2
  BY RingAssumption
<1>2. 0 <= x /\ x < EventQ => x % EventQ = x
  BY <1>1, SMT
<1>3. EventQ <= x /\ x < 2 * EventQ => x % EventQ = x - EventQ
  BY <1>1, SMT
<1>4. -EventQ <= x /\ x < 0 => x % EventQ = x + EventQ
  BY <1>1, SMT
<1>5. QED
  BY <1>2, <1>3, <1>4

LEMMA AfterIs ==
  ASSUME NEW i \in Slot
  PROVE  /\ After(i) \in Slot
         /\ After(i) = IF i = EventQ - 1 THEN 0 ELSE i + 1
BY RingAssumption, Wraps, SMT DEF After, Slot

\* How far the head is before the tail.
LEMMA DistanceIs ==
  ASSUME NEW h \in Slot, NEW t \in Slot
  PROVE  (h - t) % EventQ = IF t <= h THEN h - t ELSE h - t + EventQ
BY RingAssumption, Wraps, SMT DEF Slot

\* The slot at distance k - 1 from the tail.
LEMMA PlaceIs ==
  ASSUME NEW t \in Slot, NEW k \in 1 .. EventQ
  PROVE  /\ (t + k - 1) % EventQ \in Slot
         /\ (t + k - 1) % EventQ =
              IF t + k - 1 < EventQ THEN t + k - 1 ELSE t + k - 1 - EventQ
BY RingAssumption, Wraps, SMT DEF Slot

LEMMA WaitingIs ==
  ASSUME head \in Slot, tail \in Slot
  PROVE  /\ Waiting \in 0 .. EventQ - 1
         /\ Waiting = 0 <=> head = tail
         /\ Waiting = EventQ - 1 <=> After(head) = tail
<1>1. Waiting = IF tail <= head THEN head - tail ELSE head - tail + EventQ
  BY DistanceIs DEF Waiting
<1>2. After(head) = IF head = EventQ - 1 THEN 0 ELSE head + 1
  BY AfterIs
<1>3. QED
  BY <1>1, <1>2, RingAssumption, SMT DEF Slot

\* The event a reader takes is the oldest one.
LEMMA OldestIs ==
  ASSUME RingHoldsNewest, head # tail
  PROVE  slots[tail] = Queued(1) /\ slots[tail] = emitted - Waiting + 1
<1>1. 1 \in 1 .. Waiting
  BY WaitingIs, RingAssumption, SMT DEF RingHoldsNewest, TypeOK
<1>2. (tail + 1 - 1) % EventQ = tail
  <2>1. tail \in 0 .. EventQ - 1 /\ EventQ \in Nat /\ EventQ >= 2
    BY RingAssumption DEF RingHoldsNewest, TypeOK, Slot
  <2>2. tail + 1 - 1 = tail
    BY <2>1, SMT
  <2>3. tail % EventQ = tail
    BY <2>1, SMT
  <2>4. QED
    BY <2>2, <2>3
<1>3. QED
  BY <1>1, <1>2 DEF RingHoldsNewest, Queued

-----------------------------------------------------------------------------
(* The two operations on the ring                                          *)

\* Moving the tail drops the oldest event and leaves the others in order.
LEMMA TailMoves ==
  ASSUME RingHoldsNewest, head # tail,
         slots' = slots, head' = head, tail' = After(tail), emitted' = emitted
  PROVE  /\ Waiting' = Waiting - 1
         /\ \A k \in 1 .. Waiting' : Queued(k)' = emitted' - Waiting' + k
<1> USE RingAssumption
<1>1. head \in Slot /\ tail \in Slot /\ emitted \in Nat
  BY DEF RingHoldsNewest, TypeOK
<1>2. tail' \in Slot /\ tail' = IF tail = EventQ - 1 THEN 0 ELSE tail + 1
  BY <1>1, AfterIs
<1>3. Waiting = IF tail <= head THEN head - tail ELSE head - tail + EventQ
  BY <1>1, DistanceIs DEF Waiting
<1>4. Waiting' = IF tail' <= head THEN head - tail' ELSE head - tail' + EventQ
  BY <1>1, <1>2, DistanceIs DEF Waiting
<1>5. Waiting' = Waiting - 1 /\ Waiting \in 1 .. EventQ - 1
  BY <1>1, <1>2, <1>3, <1>4, SMT DEF Slot
<1>6. ASSUME NEW k \in 1 .. Waiting'
      PROVE  Queued(k)' = emitted' - Waiting' + k
  <2>1. k \in 1 .. EventQ /\ k + 1 \in 1 .. Waiting /\ k + 1 \in 1 .. EventQ
    BY <1>5, <1>6, SMT
  <2>2. (tail' + k - 1) % EventQ =
          IF tail' + k - 1 < EventQ THEN tail' + k - 1 ELSE tail' + k - 1 - EventQ
    BY <1>2, <2>1, PlaceIs
  <2>3. (tail + (k + 1) - 1) % EventQ =
          IF tail + (k + 1) - 1 < EventQ THEN tail + (k + 1) - 1
                                         ELSE tail + (k + 1) - 1 - EventQ
    BY <1>1, <2>1, PlaceIs
  <2>4. (tail' + k - 1) % EventQ = (tail + (k + 1) - 1) % EventQ
    BY <1>1, <1>2, <2>1, <2>2, <2>3, SMT DEF Slot
  <2>5. Queued(k)' = Queued(k + 1)
    BY <2>4 DEF Queued
  <2>6. Queued(k + 1) = emitted - Waiting + (k + 1)
    BY <2>1 DEF RingHoldsNewest
  <2>7. QED
    BY <1>1, <1>5, <2>1, <2>5, <2>6, SMT
<1>7. QED
  BY <1>5, <1>6

\* Publishing an event in a ring that is not full adds it behind the others.
LEMMA HeadMoves ==
  ASSUME RingHoldsNewest, EmitInv, EmitPublish
  PROVE  /\ Waiting' = Waiting + 1
         /\ \A k \in 1 .. Waiting' : Queued(k)' = emitted' - Waiting' + k
<1> USE RingAssumption
<1>1. head \in Slot /\ tail \in Slot /\ emitted \in Nat /\ slots \in [Slot -> 0 .. MaxEvents]
  BY DEF RingHoldsNewest, TypeOK
<1>2. head' \in Slot /\ head' = IF head = EventQ - 1 THEN 0 ELSE head + 1
  BY <1>1, AfterIs DEF EmitPublish
<1>3. tail' = tail /\ head' # tail /\ emitted' = emitted + 1
  BY DEF EmitPublish, EmitInv
<1>4. Waiting = IF tail <= head THEN head - tail ELSE head - tail + EventQ
  BY <1>1, DistanceIs DEF Waiting
<1>5. Waiting' = IF tail <= head' THEN head' - tail ELSE head' - tail + EventQ
  BY <1>1, <1>2, <1>3, DistanceIs DEF Waiting
<1>6. Waiting' = Waiting + 1 /\ Waiting \in 0 .. EventQ - 2
  BY <1>1, <1>2, <1>3, <1>4, <1>5, SMT DEF Slot
<1>7. ASSUME NEW k \in 1 .. Waiting'
      PROVE  Queued(k)' = emitted' - Waiting' + k
  <2> DEFINE p == (tail + k - 1) % EventQ
  <2>1. k \in 1 .. EventQ
    BY <1>6, <1>7, SMT
  <2>2. p \in Slot /\ p = IF tail + k - 1 < EventQ THEN tail + k - 1 ELSE tail + k - 1 - EventQ
    BY <1>1, <2>1, PlaceIs
  <2> HIDE DEF p
  <2>3. Queued(k)' = slots'[p] /\ Queued(k) = slots[p]
    BY <1>3 DEF Queued, p
  <2>4. CASE k = Waiting + 1
    <3>1. p = head
      BY <1>1, <1>4, <1>6, <2>2, <2>4, SMT DEF Slot
    <3>2. slots'[head] = emitted'
      BY <1>1 DEF EmitPublish
    <3>3. QED
      BY <1>1, <1>3, <1>6, <2>3, <2>4, <3>1, <3>2, SMT
  <2>5. CASE k \in 1 .. Waiting
    <3>1. p # head
      BY <1>1, <1>4, <1>6, <2>2, <2>5, SMT DEF Slot
    <3>2. slots'[p] = slots[p]
      BY <1>1, <2>2, <3>1 DEF EmitPublish
    <3>3. Queued(k) = emitted - Waiting + k
      BY <2>5 DEF RingHoldsNewest
    <3>4. QED
      BY <1>1, <1>3, <1>6, <2>3, <2>5, <3>2, <3>3, SMT
  <2>6. QED
    BY <1>6, <1>7, <2>4, <2>5, SMT
<1>8. QED
  BY <1>6, <1>7

\* A step that leaves the ring alone leaves what it holds alone.
LEMMA RingStays ==
  ASSUME RingHoldsNewest, UNCHANGED <<ringVars, emitted>>
  PROVE  /\ Waiting' = Waiting
         /\ \A k \in 1 .. Waiting' : Queued(k)' = emitted' - Waiting' + k
BY DEF RingHoldsNewest, ringVars, Waiting, Queued

-----------------------------------------------------------------------------
(* The handler                                                             *)

LEMMA EmitRoomInv ==
  ASSUME Inv, EmitRoom
  PROVE  Inv'
<1> USE RingAssumption, OwnerAssumption
<1>1. head \in Slot /\ tail \in Slot /\ emitted \in 0 .. MaxEvents /\ Waiting <= emitted
  BY DEF Inv, RingHoldsNewest, TypeOK, EmitInv
<1>2. tail' \in Slot
  BY <1>1, AfterIs DEF EmitRoom
<1>3. TypeOK'
  BY <1>2 DEF Inv, RingHoldsNewest, TypeOK, EmitRoom, readVars
<1>4. CASE After(head) = tail
  <2>1. head # tail
    BY <1>1, <1>4, AfterIs, SMT DEF Slot
  <2>2. /\ Waiting' = Waiting - 1
        /\ \A k \in 1 .. Waiting' : Queued(k)' = emitted' - Waiting' + k
    BY <1>4, <2>1, TailMoves DEF Inv, EmitRoom
  <2>3. After(head') # tail'
    BY <1>1, <1>2, <1>4, AfterIs, SMT DEF Slot, EmitRoom
  <2>4. Waiting' <= emitted'
    BY <1>1, <2>2, WaitingIs, SMT DEF EmitRoom
  <2>5. EmitInv'
    BY <2>3, <2>4 DEF EmitInv, EmitRoom, Emitter
  <2>6. WaitInv' /\ NoLostWakeup'
    BY <1>1, <2>1, SMT DEF Inv, WaitInv, NoLostWakeup, LoadedWell, EmitRoom, readVars
  <2>7. QED
    BY <1>3, <2>2, <2>5, <2>6 DEF Inv, RingHoldsNewest
<1>5. CASE After(head) # tail
  <2>1. UNCHANGED <<ringVars, emitted>>
    BY <1>5 DEF EmitRoom, ringVars
  <2>2. /\ Waiting' = Waiting
        /\ \A k \in 1 .. Waiting' : Queued(k)' = emitted' - Waiting' + k
    BY <2>1, RingStays DEF Inv
  <2>3. EmitInv'
    BY <1>1, <1>5, <2>1, <2>2 DEF EmitInv, EmitRoom, Emitter, ringVars, After
  <2>4. WaitInv' /\ NoLostWakeup'
    BY <2>1 DEF Inv, WaitInv, NoLostWakeup, LoadedWell, EmitRoom, readVars, ringVars
  <2>5. QED
    BY <1>3, <2>2, <2>3, <2>4 DEF Inv, RingHoldsNewest
<1>6. QED
  BY <1>4, <1>5

LEMMA EmitPublishInv ==
  ASSUME Inv, EmitPublish
  PROVE  Inv'
<1> USE RingAssumption, OwnerAssumption
<1>1. head \in Slot /\ emitted \in 0 .. MaxEvents /\ emitted < MaxEvents /\ Waiting <= emitted
  BY DEF Inv, RingHoldsNewest, TypeOK, EmitInv, EmitPublish
<1>2. head' \in Slot /\ emitted' \in 0 .. MaxEvents
  BY <1>1, AfterIs DEF EmitPublish
<1>3. TypeOK'
  BY <1>1, <1>2 DEF Inv, RingHoldsNewest, TypeOK, EmitPublish, readVars
<1>4. /\ Waiting' = Waiting + 1
      /\ \A k \in 1 .. Waiting' : Queued(k)' = emitted' - Waiting' + k
  BY HeadMoves DEF Inv
<1>5. Waiting \in Int
  BY WaitingIs DEF Inv, RingHoldsNewest, TypeOK
<1>6. Waiting' <= emitted'
  BY <1>1, <1>4, <1>5, SMT DEF EmitPublish
<1>7. EmitInv'
  BY <1>6 DEF Inv, EmitInv, EmitPublish
<1>8. WaitInv' /\ NoLostWakeup'
  BY DEF Inv, WaitInv, NoLostWakeup, EmitPublish, readVars
<1>9. QED
  BY <1>3, <1>4, <1>7, <1>8 DEF Inv, RingHoldsNewest

LEMMA EmitEndInv ==
  ASSUME Inv, EmitWake \/ EmitUnlock
  PROVE  Inv'
<1>1. UNCHANGED <<ringVars, emitted>>
  BY DEF EmitWake, EmitUnlock
<1>2. TypeOK'
  BY DEF Inv, RingHoldsNewest, TypeOK, EmitWake, EmitUnlock, ringVars, readVars
<1>3. /\ Waiting' = Waiting
      /\ \A k \in 1 .. Waiting' : Queued(k)' = emitted' - Waiting' + k
  BY <1>1, RingStays DEF Inv
<1>4. EmitInv'
  BY <1>1, <1>3, OwnerAssumption DEF Inv, EmitInv, EmitWake, EmitUnlock, ringVars
<1>5. WaitInv' /\ NoLostWakeup'
  <2>1. CASE EmitWake
    <3>1. \A r \in Readers : reading[r] \in {"queued", "asleep"} => woken'[r]
      BY <2>1 DEF EmitWake
    <3>2. QED
      BY <2>1, <3>1 DEF Inv, WaitInv, NoLostWakeup, EmitWake
  <2>2. CASE EmitUnlock
    BY <2>2 DEF Inv, WaitInv, NoLostWakeup, LoadedWell, EmitUnlock, readVars, ringVars
  <2>3. QED
    BY <2>1, <2>2
<1>6. QED
  BY <1>2, <1>3, <1>4, <1>5 DEF Inv, RingHoldsNewest

-----------------------------------------------------------------------------
(* The readers                                                             *)

\* A step of a reader that pops nothing changes no ring and no handler, so
\* only its own place and what it loaded have to be looked at.
LEMMA ReaderKeeps ==
  ASSUME Inv, NEW r \in Readers, UNCHANGED <<ringVars, emitVars>>,
         TypeOK',
         \A q \in Readers \ {r} :
           reading'[q] = reading[q] /\ seen'[q] = seen[q] /\ woken'[q] = woken[q],
         reading'[r] \in {"check", "queued"} \/ seen'[r] = <<>>,
         reading'[r] = "queued" /\ ~woken'[r] => LoadedWell(r)' \/ emitter = "wake",
         reading'[r] = "asleep" /\ ~woken'[r] => head = tail \/ emitter = "wake"
  PROVE  Inv'
<1>1. /\ Waiting' = Waiting
      /\ \A k \in 1 .. Waiting' : Queued(k)' = emitted' - Waiting' + k
  BY RingStays DEF Inv, emitVars
<1>2. EmitInv'
  BY <1>1 DEF Inv, EmitInv, ringVars, emitVars, After
<1>3. \A q \in Readers \ {r} : LoadedWell(q)' <=> LoadedWell(q)
  BY DEF LoadedWell, ringVars
<1>4. WaitInv'
  BY <1>3 DEF Inv, WaitInv, emitVars
<1>5. NoLostWakeup'
  BY DEF Inv, NoLostWakeup, emitVars, ringVars
<1>6. QED
  BY <1>1, <1>2, <1>4, <1>5 DEF Inv, RingHoldsNewest

\* Before and around the wait.
LEMMA WaitStepInv ==
  ASSUME Inv, NEW r \in Readers,
         ReadCall(r) \/ Join(r) \/ WakeUp(r) \/ Signal(r) \/ CopyOut(r)
  PROVE  Inv'
<1>1. CASE ReadCall(r)
  <2>1. TypeOK'
    BY <1>1 DEF Inv, RingHoldsNewest, TypeOK, ReadCall, ringVars, emitVars
  <2>2. CASE reading' = [reading EXCEPT ![r] = "check"]
    BY <1>1, <2>1, <2>2, ReaderKeeps DEF Inv, RingHoldsNewest, TypeOK, ReadCall
  <2>3. CASE UNCHANGED reading
    <3>1. seen[r] = <<>> /\ reading'[r] = "idle" /\ UNCHANGED <<seen, woken>>
      BY <1>1, <2>3 DEF Inv, WaitInv, ReadCall
    <3>2. UNCHANGED <<ringVars, emitVars>>
      BY <1>1 DEF ReadCall
    <3> QED
      BY <2>1, <2>3, <3>1, <3>2, ReaderKeeps
  <2>4. QED
    BY <1>1, <2>2, <2>3 DEF ReadCall
<1>2. CASE Join(r)
  <2>1. TypeOK'
    BY <1>2 DEF Inv, RingHoldsNewest, TypeOK, Join, ringVars, emitVars
  <2>2. seen'[r] = <<>>
    BY <1>2 DEF Inv, WaitInv, Join
  <2>3. QED
    BY <1>2, <2>1, <2>2, ReaderKeeps DEF Inv, RingHoldsNewest, TypeOK, Join, LoadedWell
<1>3. CASE WakeUp(r)
  <2>1. TypeOK'
    BY <1>3 DEF Inv, RingHoldsNewest, TypeOK, WakeUp, ringVars, emitVars
  <2>2. seen'[r] = <<>>
    BY <1>3 DEF Inv, WaitInv, WakeUp
  <2>3. QED
    BY <1>3, <2>1, <2>2, ReaderKeeps DEF Inv, RingHoldsNewest, TypeOK, WakeUp
<1>4. CASE Signal(r)
  <2>1. TypeOK'
    BY <1>4 DEF Inv, RingHoldsNewest, TypeOK, Signal, ringVars, emitVars
  <2>2. seen'[r] = <<>> /\ woken'[r]
    BY <1>4 DEF Inv, RingHoldsNewest, TypeOK, WaitInv, Signal
  <2>3. QED
    BY <1>4, <2>1, <2>2, ReaderKeeps DEF Inv, RingHoldsNewest, TypeOK, Signal
<1>5. CASE CopyOut(r)
  <2>1. TypeOK'
    <3>1. tmp' \in [Readers -> 0 .. MaxEvents]
      BY <1>5, RingAssumption DEF Inv, RingHoldsNewest, TypeOK, CopyOut
    <3>2. result' \in [Readers -> {"pending", "nothing", "event", "EOF", "EFAULT", "EINTR"}]
      BY <1>5 DEF Inv, RingHoldsNewest, TypeOK, CopyOut
    <3>3. reading' \in [Readers -> {"idle", "check", "join", "queued", "asleep", "lock", "copy"}]
      BY <1>5 DEF Inv, RingHoldsNewest, TypeOK, CopyOut
    <3>4. QED
      BY <1>5, <3>1, <3>2, <3>3 DEF Inv, RingHoldsNewest, TypeOK, CopyOut, ringVars, emitVars
  <2>2. seen'[r] = <<>> /\ reading'[r] = "idle"
    BY <1>5 DEF Inv, RingHoldsNewest, TypeOK, WaitInv, CopyOut
  <2>3. QED
    BY <1>5, <2>1, <2>2, ReaderKeeps DEF CopyOut
<1>6. QED
  BY <1>1, <1>2, <1>3, <1>4, <1>5

\* The two loads of the wait condition.
LEMMA LoadInv ==
  ASSUME Inv, NEW r \in Readers, Load(r)
  PROVE  Inv'
<1>1. head \in Slot /\ tail \in Slot /\ seen \in [Readers -> {<<>>} \cup ({"head", "tail"} \X Slot)]
  BY DEF Inv, RingHoldsNewest, TypeOK
<1>2. seen'[r] = <<"head", head>> \/ seen'[r] = <<"tail", tail>>
  BY <1>1 DEF Load
<1>3. TypeOK'
  BY <1>1 DEF Inv, RingHoldsNewest, TypeOK, Load, ringVars, emitVars
<1>4. LoadedWell(r)'
  BY <1>1, <1>2 DEF Load, LoadedWell, ringVars
<1>5. reading'[r] \in {"check", "queued"}
  BY DEF Load
<1>6. /\ UNCHANGED <<ringVars, emitVars>>
      /\ \A q \in Readers \ {r} :
           reading'[q] = reading[q] /\ seen'[q] = seen[q] /\ woken'[q] = woken[q]
  BY <1>1 DEF Load
<1>7. QED
  BY <1>3, <1>4, <1>5, <1>6, ReaderKeeps

LEMMA TestInv ==
  ASSUME Inv, NEW r \in Readers, TestTrue(r) \/ TestFalse(r)
  PROVE  Inv'
<1>1. PICK pc \in {"lock", "join", "asleep", "idle"}, res \in {"pending", "EINTR"} :
        /\ Leave(r, pc, res)
        /\ pc = "asleep" => reading[r] = "queued" /\ seen[r] # <<>> /\ ~SeesEvent(r)
  BY DEF TestTrue, TestFalse
<1>2. TypeOK'
  <2>1. reading' \in [Readers -> {"idle", "check", "join", "queued", "asleep", "lock", "copy"}]
    BY <1>1 DEF Inv, RingHoldsNewest, TypeOK, Leave
  <2>2. seen' \in [Readers -> {<<>>} \cup ({"head", "tail"} \X Slot)]
    BY <1>1 DEF Inv, RingHoldsNewest, TypeOK, Leave
  <2>3. result' \in [Readers -> {"pending", "nothing", "event", "EOF", "EFAULT", "EINTR"}]
    BY <1>1 DEF Inv, RingHoldsNewest, TypeOK, Leave
  <2>4. QED
    BY <1>1, <2>1, <2>2, <2>3 DEF Inv, RingHoldsNewest, TypeOK, Leave, ringVars, emitVars
<1>3. seen'[r] = <<>> /\ reading'[r] = pc /\ woken'[r] = woken[r]
  BY <1>1 DEF Inv, RingHoldsNewest, TypeOK, Leave
<1>4. ASSUME pc = "asleep", ~woken[r], emitter # "wake"
      PROVE  head = tail
  <2>1. LoadedWell(r) /\ seen[r] # <<>> /\ ~SeesEvent(r)
    BY <1>1, <1>4 DEF Inv, WaitInv
  <2>2. QED
    BY <2>1 DEF LoadedWell, SeesEvent
<1>5. /\ UNCHANGED <<ringVars, emitVars>>
      /\ \A q \in Readers \ {r} :
           reading'[q] = reading[q] /\ seen'[q] = seen[q] /\ woken'[q] = woken[q]
  BY <1>1 DEF Inv, RingHoldsNewest, TypeOK, Leave
<1>6. QED
  BY <1>2, <1>3, <1>4, <1>5, ReaderKeeps

\* A pop finds the ring empty, or takes the oldest event.
LEMMA PopInv ==
  ASSUME Inv, NEW r \in Readers, Pop(r)
  PROVE  Inv'
<1> USE RingAssumption
<1>1. head \in Slot /\ tail \in Slot /\ emitted \in 0 .. MaxEvents /\ Waiting <= emitted
  BY DEF Inv, RingHoldsNewest, TypeOK, EmitInv
<1>2. CASE head = tail
  <2>1. TypeOK'
    BY <1>2 DEF Inv, RingHoldsNewest, TypeOK, Pop, ringVars, emitVars
  <2>2. reading'[r] = "idle" /\ seen'[r] = <<>>
    BY <1>2 DEF Inv, RingHoldsNewest, TypeOK, WaitInv, Pop
  <2>3. /\ UNCHANGED <<ringVars, emitVars>>
        /\ \A q \in Readers \ {r} :
             reading'[q] = reading[q] /\ seen'[q] = seen[q] /\ woken'[q] = woken[q]
    BY <1>2 DEF Inv, RingHoldsNewest, TypeOK, Pop, ringVars
  <2>4. QED
    BY <2>1, <2>2, <2>3, ReaderKeeps
<1>3. CASE head # tail
  <2>1. /\ Waiting' = Waiting - 1
        /\ \A k \in 1 .. Waiting' : Queued(k)' = emitted' - Waiting' + k
    BY <1>3, TailMoves DEF Inv, Pop, emitVars
  <2>2. Waiting \in 0 .. EventQ - 1 /\ Waiting # 0
    BY <1>1, <1>3, WaitingIs
  <2>3. slots[tail] \in 1 .. MaxEvents
    BY <1>1, <1>3, <2>2, OldestIs, SMT DEF Inv
  <2>4. TypeOK'
    <3>1. taken' \in Seq(1 .. MaxEvents)
      <4>1. taken' = Append(taken, slots[tail]) /\ taken \in Seq(1 .. MaxEvents)
        BY <1>3 DEF Inv, RingHoldsNewest, TypeOK, Pop
      <4>2. QED
        BY <2>3, <4>1, AppendProperties
    <3>2. tmp' \in [Readers -> 0 .. MaxEvents]
      BY <1>3, <2>3 DEF Inv, RingHoldsNewest, TypeOK, Pop
    <3>3. tail' \in Slot
      BY <1>1, <1>3, AfterIs DEF Pop
    <3>4. reading' \in [Readers -> {"idle", "check", "join", "queued", "asleep", "lock", "copy"}]
      BY <1>3 DEF Inv, RingHoldsNewest, TypeOK, Pop
    <3>5. QED
      BY <1>3, <3>1, <3>2, <3>3, <3>4 DEF Inv, RingHoldsNewest, TypeOK, Pop, emitVars
  <2>5. Waiting' <= emitted'
    BY <1>1, <2>1, <2>2, SMT DEF Pop, emitVars
  <2>6. EmitInv'
    BY <2>5, OwnerAssumption DEF Inv, EmitInv, Pop, emitVars
  <2>7. WaitInv' /\ NoLostWakeup'
    BY <1>3 DEF Inv, RingHoldsNewest, TypeOK, WaitInv, NoLostWakeup, LoadedWell, Pop, emitVars
  <2>8. QED
    BY <2>1, <2>4, <2>6, <2>7 DEF Inv, RingHoldsNewest
<1>4. QED
  BY <1>2, <1>3

-----------------------------------------------------------------------------
(* The theorems                                                            *)

\* Inv is inductive: what the ring holds, where the handler and the readers
\* are, and what a reader on the wait queue has loaded.
THEOREM Invariance == Spec => []Inv
<1>1. Init => Inv
  <2> SUFFICES ASSUME Init
               PROVE  Inv
    OBVIOUS
  <2>1. 0 \in Slot
    BY RingAssumption DEF Slot
  <2>2. Waiting = 0
    BY <2>1, WaitingIs DEF Init
  <2>3. TypeOK
    BY <2>1, RingAssumption DEF Init, TypeOK
  <2>4. RingHoldsNewest /\ EmitInv
    BY <2>2, <2>3, SMT DEF Init, RingHoldsNewest, EmitInv
  <2>5. WaitInv /\ NoLostWakeup
    BY DEF Init, WaitInv, NoLostWakeup
  <2>6. QED
    BY <2>4, <2>5 DEF Inv
<1>2. Inv /\ [Next]_vars => Inv'
  <2> SUFFICES ASSUME Inv, [Next]_vars
               PROVE  Inv'
    OBVIOUS
  <2>1. CASE Next
    BY <2>1, EmitRoomInv, EmitPublishInv, EmitEndInv, WaitStepInv, LoadInv, TestInv, PopInv
       DEF Next, Emit, ReadStep
  <2>2. CASE UNCHANGED vars
    <3>1. /\ Waiting' = Waiting
          /\ \A k \in 1 .. Waiting' : Queued(k)' = emitted' - Waiting' + k
      BY <2>2, RingStays DEF Inv, vars, emitVars
    <3>2. QED
      BY <2>2, <3>1 DEF vars, ringVars, emitVars, readVars, Inv, RingHoldsNewest, TypeOK,
                        EmitInv, After, WaitInv, LoadedWell, NoLostWakeup
  <2>3. QED
    BY <2>1, <2>2
<1>3. QED
  BY <1>1, <1>2, PTL DEF Spec

\* Whatever the size of the ring, and however often it wraps and overflows, it
\* holds the newest events in order.
THEOREM RingStaysNewest == Spec => []RingHoldsNewest
<1>1. Inv => RingHoldsNewest
  BY DEF Inv
<1>2. QED
  BY <1>1, Invariance, PTL

\* For any number of readers, one that sleeps past an event is about to be
\* woken by the handler that published it.
THEOREM WakeupsArrive == Spec => []NoLostWakeup
<1>1. Inv => NoLostWakeup
  BY DEF Inv
<1>2. QED
  BY <1>1, Invariance, PTL

-----------------------------------------------------------------------------
(* The ring implements EventLog                                            *)

\* The n numbers after a.
Consecutive(a, n) == [k \in 1 .. n |-> a + k]

LEMMA ConsecutiveIs ==
  ASSUME NEW a \in Int, NEW n \in Nat
  PROVE  /\ Consecutive(a, n) \in Seq(Int)
         /\ Len(Consecutive(a, n)) = n
         /\ \A k \in 1 .. n : Consecutive(a, n)[k] = a + k
BY DEF Consecutive

LEMMA ConsecutiveAppend ==
  ASSUME NEW a \in Int, NEW n \in Nat
  PROVE  Append(Consecutive(a, n), a + n + 1) = Consecutive(a, n + 1)
<1> DEFINE s == Append(Consecutive(a, n), a + n + 1)
           t == Consecutive(a, n + 1)
<1>1. /\ s \in Seq(Int) /\ Len(s) = n + 1
      /\ \A k \in 1 .. n : s[k] = a + k
      /\ s[n + 1] = a + n + 1
  <2> DEFINE q == Consecutive(a, n)
             e == a + n + 1
  <2>1. e \in Int
    BY SMT
  <2>2. q \in Seq(Int) /\ Len(q) = n /\ \A k \in 1 .. n : q[k] = a + k
    BY ConsecutiveIs
  <2> HIDE DEF q, e
  <2>3. /\ Append(q, e) \in Seq(Int) /\ Len(Append(q, e)) = n + 1
        /\ \A k \in 1 .. n : Append(q, e)[k] = q[k]
        /\ Append(q, e)[n + 1] = e
    BY <2>1, <2>2, AppendProperties
  <2>4. QED
    BY <2>2, <2>3 DEF q, e
<1>2. t \in Seq(Int) /\ Len(t) = n + 1 /\ \A k \in 1 .. n + 1 : t[k] = a + k
  BY ConsecutiveIs
<1> HIDE DEF s, t
<1>3. \A k \in 1 .. Len(s) : s[k] = t[k]
  BY <1>1, <1>2, SMT
<1>4. s = t
  BY <1>1, <1>2, <1>3, SeqEqual
<1>5. QED
  BY <1>4 DEF s, t

LEMMA ConsecutiveTail ==
  ASSUME NEW a \in Int, NEW n \in Nat, n # 0
  PROVE  /\ Consecutive(a, n) # <<>>
         /\ Head(Consecutive(a, n)) = a + 1
         /\ Tail(Consecutive(a, n)) = Consecutive(a + 1, n - 1)
<1> DEFINE q == Consecutive(a, n)
           t == Consecutive(a + 1, n - 1)
<1>1. q \in Seq(Int) /\ Len(q) = n /\ \A k \in 1 .. n : q[k] = a + k
  BY ConsecutiveIs
<1>2. t \in Seq(Int) /\ Len(t) = n - 1 /\ \A k \in 1 .. n - 1 : t[k] = a + 1 + k
  <2>1. a + 1 \in Int /\ n - 1 \in Nat
    BY SMT
  <2>2. QED
    BY <2>1, ConsecutiveIs
<1> HIDE DEF q, t
<1>3. q # <<>>
  BY <1>1
<1>4. Head(q) = q[1] /\ q[1] = a + 1
  BY <1>1, <1>3
<1>5. /\ Tail(q) \in Seq(Int) /\ Len(Tail(q)) = n - 1
      /\ \A k \in 1 .. n - 1 : Tail(q)[k] = q[k + 1]
  BY <1>1, <1>3, HeadTailProperties
<1>6. \A k \in 1 .. Len(Tail(q)) : Tail(q)[k] = t[k]
  BY <1>1, <1>2, <1>5, SMT
<1>7. Tail(q) = t
  BY <1>2, <1>5, <1>6, SeqEqual
<1>8. QED
  BY <1>3, <1>4, <1>7 DEF q, t

\* The queue that the ring stands for.
LogQueue == [k \in 1 .. Waiting |-> Queued(k)]

LEMMA QueueIs ==
  ASSUME Inv
  PROVE  LogQueue = Consecutive(emitted - Waiting, Waiting)
BY DEF Inv, RingHoldsNewest, LogQueue, Consecutive

LEMMA LogInit ==
  ASSUME Init
  PROVE  Log!Init
<1>1. Waiting = 0
  BY WaitingIs, RingAssumption DEF Init, Slot
<1>2. LogQueue = <<>>
  BY <1>1 DEF LogQueue
<1>3. QED
  BY <1>2 DEF Init, Log!Init, LogQueue

\* A handler's store of the new head is a Put, its making room an Evict, a
\* reader's pop a Take; every other step is a stutter.
LEMMA LogNext ==
  ASSUME Inv, Inv', [Next]_vars
  PROVE  [Log!Next]_(Log!vars)
<1> USE RingAssumption
<1> DEFINE a == emitted - Waiting
<1>1. /\ LogQueue = Consecutive(a, Waiting)
      /\ LogQueue' = Consecutive(emitted' - Waiting', Waiting')
  BY QueueIs DEF Inv, RingHoldsNewest, LogQueue, Consecutive
<1>2. /\ head \in Slot /\ tail \in Slot /\ emitted \in Nat
      /\ Waiting \in 0 .. EventQ - 1 /\ a \in Int
  BY WaitingIs, SMT DEF Inv, RingHoldsNewest, TypeOK
<1>3. Len(LogQueue) = Waiting
  BY <1>1, <1>2, ConsecutiveIs
<1>4. ASSUME LogQueue' = LogQueue, UNCHANGED <<emitted, taken>>
      PROVE  [Log!Next]_(Log!vars)
  BY <1>4 DEF Log!vars, LogQueue
<1>5. ASSUME UNCHANGED <<ringVars, emitted, taken>>
      PROVE  [Log!Next]_(Log!vars)
  BY <1>4, <1>5 DEF LogQueue, Waiting, Queued, ringVars
<1>6. ASSUME head # tail, UNCHANGED <<slots, head, emitted>>, tail' = After(tail)
      PROVE  /\ LogQueue # <<>> /\ LogQueue' = Tail(LogQueue)
             /\ Head(LogQueue) = slots[tail]
  <2>1. Waiting' = Waiting - 1
    BY <1>6, TailMoves DEF Inv
  <2>2. Waiting # 0
    BY <1>2, <1>6, WaitingIs
  <2>3. emitted' - Waiting' = a + 1
    BY <1>2, <1>6, <2>1, SMT
  <2>4. slots[tail] = a + 1
    BY <1>6, OldestIs DEF Inv
  <2>5. LogQueue' = Consecutive(a + 1, Waiting - 1)
    BY <1>1, <2>1, <2>3
  <2>6. a \in Int /\ Waiting \in Nat
    BY <1>2
  <2> HIDE DEF a
  <2>7. /\ Consecutive(a, Waiting) # <<>>
        /\ Head(Consecutive(a, Waiting)) = a + 1
        /\ Tail(Consecutive(a, Waiting)) = Consecutive(a + 1, Waiting - 1)
    BY <2>2, <2>6, ConsecutiveTail
  <2>8. QED
    BY <1>1, <2>4, <2>5, <2>7
<1>7. CASE EmitRoom
  <2>1. CASE After(head) = tail
    <3>1. head # tail
      BY <1>2, <2>1, AfterIs, SMT DEF Slot
    <3>2. LogQueue' = Tail(LogQueue)
      BY <1>6, <1>7, <2>1, <3>1 DEF EmitRoom
    <3>3. Len(LogQueue) = EventQ - 1
      BY <1>2, <1>3, <2>1, WaitingIs
    <3>4. QED
      BY <1>7, <3>2, <3>3 DEF EmitRoom, Log!Next, Log!Evict, LogQueue
  <2>2. CASE After(head) # tail
    BY <1>5, <1>7, <2>2 DEF EmitRoom, ringVars
  <2>3. QED
    BY <2>1, <2>2
<1>8. CASE EmitPublish
  <2>1. Waiting' = Waiting + 1
    BY <1>8, HeadMoves DEF Inv
  <2>2. emitted' = emitted + 1 /\ taken' = taken
    BY <1>8 DEF EmitPublish
  <2>3. Len(LogQueue) < EventQ - 1
    BY <1>2, <1>3, <1>8, WaitingIs, SMT DEF Inv, EmitInv, EmitPublish
  <2>4. emitted' - Waiting' = a /\ emitted' = a + Waiting + 1
    BY <1>2, <2>1, <2>2, SMT
  <2>5. LogQueue' = Append(LogQueue, emitted')
    <3>1. LogQueue' = Consecutive(a, Waiting + 1)
      BY <1>1, <2>1, <2>4
    <3>2. a \in Int /\ Waiting \in Nat
      BY <1>2
    <3> HIDE DEF a
    <3>3. Append(Consecutive(a, Waiting), a + Waiting + 1) = Consecutive(a, Waiting + 1)
      BY <3>2, ConsecutiveAppend
    <3>4. QED
      BY <1>1, <2>4, <3>1, <3>3
  <2>6. QED
    BY <2>2, <2>3, <2>5 DEF Log!Next, Log!Put, LogQueue
<1>9. CASE \E r \in Readers : Pop(r)
  <2>1. CASE head = tail
    BY <1>5, <1>9, <2>1 DEF Pop, ringVars, emitVars
  <2>2. CASE head # tail
    <3>1. /\ UNCHANGED <<slots, head, emitted>> /\ tail' = After(tail)
          /\ taken' = Append(taken, slots[tail])
      BY <1>9, <2>2 DEF Pop, emitVars
    <3>2. LogQueue # <<>> /\ LogQueue' = Tail(LogQueue) /\ Head(LogQueue) = slots[tail]
      BY <1>6, <2>2, <3>1
    <3>3. QED
      BY <3>1, <3>2 DEF Log!Next, Log!Take, LogQueue
  <2>3. QED
    BY <2>1, <2>2
<1>10. CASE EmitWake \/ EmitUnlock
  BY <1>5, <1>10 DEF EmitWake, EmitUnlock
<1>11. CASE \E r \in Readers : ReadCall(r) \/ ReadStep(r) \/ Signal(r)
  BY <1>5, <1>11
     DEF ReadCall, ReadStep, Load, TestTrue, TestFalse, Leave, Join, WakeUp, CopyOut, Signal,
         emitVars
<1>12. CASE UNCHANGED vars
  BY <1>5, <1>12 DEF vars, emitVars
<1>13. QED
  BY <1>7, <1>8, <1>9, <1>10, <1>11, <1>12 DEF Next, Emit

\* The ring is the bounded queue of EventLog, for any size, readers and
\* events: it loses only the oldest event of a full ring and hands out the
\* others once and in order.
THEOREM Refinement == Spec => ImplementsLog
  BY LogInit, LogNext, Invariance, PTL DEF Spec, ImplementsLog, Log!Spec

-----------------------------------------------------------------------------
(* The reader of a file nobody else reads                                  *)

OthersIdle(r) == \A q \in Readers \ {r} : reading[q] = "idle"

\* Once there is an event nobody but r takes it: a handler that makes room in
\* a full ring of two slots leaves it empty, but it holds the lock and is about
\* to publish.
Ready == head # tail \/ emitter = "publish"

\* Until the ring is ready, what r has loaded is what a second load finds.
SoleInv(r) ==
  /\ result[r] # "EOF"
  /\ reading[r] = "lock" => Ready
  /\ seen[r] # <<>> => Ready \/ seen[r][2] = head

\* No step of a handler takes away what makes the ring ready, or moves an end
\* of a ring that is not and stays so.
LEMMA EmitKeepsReady ==
  ASSUME Inv, Emit
  PROVE  /\ Ready => Ready'
         /\ ~Ready /\ ~Ready' => head' = head
<1>1. CASE EmitRoom
  BY <1>1 DEF EmitRoom, Ready
<1>2. CASE EmitPublish
  <2>1. After(head) # tail /\ head' = After(head) /\ tail' = tail
    BY <1>2 DEF Inv, EmitInv, EmitPublish
  <2> QED
    BY <2>1 DEF Ready
<1>3. CASE EmitWake
  BY <1>3 DEF EmitWake, Ready, ringVars
<1>4. CASE EmitUnlock
  BY <1>4 DEF EmitUnlock, Ready, ringVars
<1> QED
  BY <1>1, <1>2, <1>3, <1>4 DEF Emit

\* A step of r itself.
LEMMA SoleReaderStep ==
  ASSUME Inv, NEW r \in Readers, SoleInv(r),
         ReadCall(r) \/ ReadStep(r) \/ Pop(r) \/ Signal(r)
  PROVE  SoleInv(r)'
<1>1. /\ reading \in [Readers -> {"idle", "check", "join", "queued", "asleep", "lock", "copy"}]
      /\ seen \in [Readers -> {<<>>} \cup ({"head", "tail"} \X Slot)]
      /\ result \in [Readers -> {"pending", "nothing", "event", "EOF", "EFAULT", "EINTR"}]
  BY DEF Inv, RingHoldsNewest, TypeOK
<1>2. seen[r] # <<>> => reading[r] \in {"check", "queued"}
  BY DEF Inv, WaitInv
<1>3. CASE ReadCall(r)
  BY <1>1, <1>2, <1>3 DEF ReadCall, SoleInv, Ready, ringVars, emitVars
<1>4. CASE Load(r)
  <2>1. /\ UNCHANGED <<head, tail, emitter, reading, result>>
        /\ seen'[r] = <<"head", head>> \/ seen'[r] = <<"tail", tail>>
    BY <1>1, <1>4 DEF Load, ringVars, emitVars
  <2>2. seen'[r][2] = head \/ seen'[r][2] = tail
    BY <2>1
  <2> QED
    BY <2>1, <2>2 DEF SoleInv, Ready
<1>5. CASE TestTrue(r)
  <2>1. Ready
    BY <1>5 DEF TestTrue, SeesEvent, SoleInv, Ready
  <2>2. /\ UNCHANGED <<head, tail, emitter>>
        /\ seen'[r] = <<>> /\ result'[r] = "pending"
    BY <1>1, <1>5 DEF TestTrue, Leave, ringVars, emitVars
  <2> QED
    BY <2>1, <2>2 DEF SoleInv, Ready
<1>6. CASE TestFalse(r)
  <2>1. /\ UNCHANGED <<head, tail, emitter>>
        /\ seen'[r] = <<>> /\ result'[r] # "EOF" /\ reading'[r] # "lock"
    BY <1>1, <1>6 DEF TestFalse, Leave, ringVars, emitVars
  <2> QED
    BY <2>1 DEF SoleInv, Ready
<1>7. CASE Join(r) \/ WakeUp(r) \/ Signal(r)
  BY <1>1, <1>2, <1>7 DEF Join, WakeUp, Signal, SoleInv, Ready, ringVars, emitVars
<1>8. CASE CopyOut(r)
  BY <1>1, <1>2, <1>8 DEF CopyOut, SoleInv, Ready, ringVars, emitVars
<1>9. CASE Pop(r)
  <2>1. emitter # "publish"
    BY <1>9 DEF Pop, Inv, EmitInv
  <2>2. head # tail
    BY <1>9, <2>1 DEF Pop, SoleInv, Ready
  <2>3. seen'[r] = <<>> /\ result'[r] # "EOF" /\ reading'[r] = "copy"
    BY <1>1, <1>2, <1>9, <2>2 DEF Pop, SoleInv
  <2> QED
    BY <2>3 DEF SoleInv
<1> QED
  BY <1>3, <1>4, <1>5, <1>6, <1>7, <1>8, <1>9 DEF ReadStep

LEMMA SoleNext ==
  ASSUME Inv, NEW r \in Readers, SoleInv(r), OthersIdle(r), [Next]_vars
  PROVE  SoleInv(r)'
<1>1. CASE Emit
  <2>1. UNCHANGED <<reading, seen, result>>
    BY <1>1 DEF Emit, EmitRoom, EmitPublish, EmitWake, EmitUnlock, readVars
  <2>2. /\ Ready => Ready'
        /\ ~Ready /\ ~Ready' => head' = head
    BY <1>1, EmitKeepsReady
  <2> QED
    BY <2>1, <2>2 DEF SoleInv
<1>2. CASE ReadCall(r) \/ ReadStep(r) \/ Pop(r) \/ Signal(r)
  BY <1>2, SoleReaderStep
<1>3. ASSUME NEW q \in Readers \ {r}, ReadCall(q) \/ ReadStep(q) \/ Pop(q) \/ Signal(q)
      PROVE  SoleInv(r)'
  <2>1. reading[q] = "idle" /\ seen[q] = <<>>
    BY DEF OthersIdle, Inv, WaitInv
  <2>2. ReadCall(q)
    BY <1>3, <2>1
       DEF ReadStep, Load, TestTrue, TestFalse, Join, WakeUp, CopyOut, Pop, Signal
  <2>3. /\ UNCHANGED <<head, tail, emitter, seen>>
        /\ reading'[r] = reading[r] /\ result'[r] = result[r]
    BY <2>2 DEF ReadCall, ringVars, emitVars, Inv, RingHoldsNewest, TypeOK
  <2> QED
    BY <2>3 DEF SoleInv, Ready
<1>4. CASE UNCHANGED vars
  BY <1>4 DEF vars, ringVars, emitVars, readVars, SoleInv, Ready
<1> QED
  BY <1>1, <1>2, <1>3, <1>4 DEF Next

\* A reader of a file nobody else reads never gets 0, however its two loads
\* fall between the steps of a handler: what it has seen is still there when it
\* has the lock.
THEOREM SoleReaderGetsNoEof == Spec => SoleReaderNeverSeesEof
<1>1. ASSUME NEW r \in Readers
      PROVE  Spec => ([](\A q \in Readers \ {r} : reading[q] = "idle") => [](result[r] # "EOF"))
  <2>1. Init => SoleInv(r)
    BY DEF Init, SoleInv
  <2>2. Inv /\ SoleInv(r) /\ OthersIdle(r) /\ [Next]_vars => SoleInv(r)'
    BY SoleNext
  <2>3. SoleInv(r) => result[r] # "EOF"
    BY DEF SoleInv
  <2>4. (\A q \in Readers \ {r} : reading[q] = "idle") => OthersIdle(r)
    BY DEF OthersIdle
  <2> QED
    BY <2>1, <2>2, <2>3, <2>4, Invariance, PTL DEF Spec
<1> QED
  BY <1>1 DEF SoleReaderNeverSeesEof
=============================================================================
