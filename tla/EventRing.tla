----------------------------- MODULE EventRing -----------------------------
(***************************************************************************)
(* The event ring of dawnhex_kmod.c and the readers of /dev/dawnhex.       *)
(*                                                                         *)
(* dh_emit_event_locked runs under g_dawnhex.lock; a handler may emit      *)
(* several events before it unlocks.  dh_read first waits, WITHOUT the     *)
(* lock, for ev_head != ev_tail, then locks and looks again.  The kernel's *)
(* wait_event_interruptible tests the condition, joins the wait queue,     *)
(* tests again and only then sleeps; each test is two separate loads whose *)
(* order the compiler chooses, so a test may see a head and a tail that    *)
(* never existed together.                                                 *)
(*                                                                         *)
(* An event is the number of its emission; its text is left out, and with  *)
(* it the truncation to the reader's len.                                  *)
(***************************************************************************)
EXTENDS Integers, Sequences, FiniteSets

CONSTANTS
  EventQ,     \* DAWNHEX_EVENT_Q
  MaxEvents,  \* bound: events emitted in a behaviour
  Readers,    \* threads that call read()
  NoOwner

ASSUME RingAssumption == EventQ \in Nat /\ EventQ >= 2 /\ MaxEvents \in Nat

VARIABLES
  slots,    \* g_dawnhex.events
  head,     \* g_dawnhex.ev_head
  tail,     \* g_dawnhex.ev_tail
  lock,     \* owner of g_dawnhex.lock, as far as the ring is concerned
  emitter,  \* where the handler that holds the lock is
  emitted,  \* number of events emitted (history)
  reading,  \* where each reader is in dh_read
  seen,     \* the first of the two loads of a reader's wait condition
  woken,    \* readers woken since they joined the wait queue
  tmp,      \* the reader's copy of the event it popped
  result,   \* how each reader's last read() ended
  taken     \* events popped, in order (history)

ringVars == <<slots, head, tail>>
emitVars == <<lock, emitter, emitted>>
readVars == <<reading, seen, woken, tmp, result>>
vars == <<ringVars, emitVars, readVars, taken>>

Slot == 0 .. EventQ - 1

\* Mutant: the ring index runs one past its end before it wraps.
NextWithGap(i) == IF i = EventQ - 1 THEN 1 ELSE i + 1

\* The slot after slot i.
After(i) == (i + 1) % EventQ

-----------------------------------------------------------------------------
(* dh_emit_event_locked                                                    *)

Emitter == "emitter"

ASSUME OwnerAssumption == NoOwner # Emitter

\* Mutant: a full ring is not given room, so its head catches its tail.
EmitWithoutRoom ==
  /\ emitted < MaxEvents
  /\ \/ lock = NoOwner /\ emitter = "idle"
     \/ emitter = "between"
  /\ lock' = Emitter
  /\ emitter' = "publish"
  /\ UNCHANGED <<ringVars, emitted, readVars, taken>>

\* Take the lock if this is the handler's first event; make room by dropping
\* the oldest event of a full ring.
EmitRoom ==
  /\ emitted < MaxEvents
  /\ \/ lock = NoOwner /\ emitter = "idle"
     \/ emitter = "between"
  /\ lock' = Emitter
  /\ emitter' = "publish"
  /\ tail' = IF After(head) = tail THEN After(tail) ELSE tail
  /\ UNCHANGED <<slots, head, emitted, readVars, taken>>

\* Mutant: the wake-up after the new head is forgotten.
EmitPublishSilently ==
  /\ emitter = "publish"
  /\ emitter' = "between"
  /\ emitted' = emitted + 1
  /\ slots' = [slots EXCEPT ![head] = emitted']
  /\ head' = After(head)
  /\ UNCHANGED <<tail, lock, readVars, taken>>

EmitPublish ==
  /\ emitter = "publish"
  /\ emitter' = "wake"
  /\ emitted' = emitted + 1
  /\ slots' = [slots EXCEPT ![head] = emitted']
  /\ head' = After(head)
  /\ UNCHANGED <<tail, lock, readVars, taken>>

\* wake_up_interruptible wakes every reader on the wait queue.
EmitWake ==
  /\ emitter = "wake"
  /\ emitter' = "between"
  /\ woken' = [r \in Readers |-> woken[r] \/ reading[r] \in {"queued", "asleep"}]
  /\ UNCHANGED <<ringVars, lock, emitted, reading, seen, tmp, result, taken>>

\* The handler ends: mutex_unlock.
EmitUnlock ==
  /\ emitter = "between"
  /\ emitter' = "idle"
  /\ lock' = NoOwner
  /\ UNCHANGED <<ringVars, emitted, readVars, taken>>

Emit == EmitRoom \/ EmitPublish \/ EmitWake \/ EmitUnlock


-----------------------------------------------------------------------------
(* dh_read                                                                 *)

\* A read() of no bytes returns 0 at once.
ReadCall(r) ==
  /\ reading[r] = "idle"
  /\ \/ /\ reading' = [reading EXCEPT ![r] = "check"]
        /\ result' = [result EXCEPT ![r] = "pending"]
     \/ result' = [result EXCEPT ![r] = "nothing"] /\ UNCHANGED reading
  /\ UNCHANGED <<ringVars, emitVars, seen, woken, tmp, taken>>

\* The first load of the wait condition.
Load(r) ==
  /\ reading[r] \in {"check", "queued"}
  /\ seen[r] = <<>>
  /\ \/ seen' = [seen EXCEPT ![r] = <<"head", head>>]
     \/ seen' = [seen EXCEPT ![r] = <<"tail", tail>>]
  /\ UNCHANGED <<ringVars, emitVars, reading, woken, tmp, result, taken>>

\* The second load, as it would find the condition.
SeesEvent(r) == seen[r][2] # (IF seen[r][1] = "head" THEN tail ELSE head)

Leave(r, pc, res) ==
  /\ reading' = [reading EXCEPT ![r] = pc]
  /\ seen' = [seen EXCEPT ![r] = <<>>]
  /\ result' = [result EXCEPT ![r] = res]
  /\ UNCHANGED <<ringVars, emitVars, woken, tmp, taken>>

\* The condition holds: go for the lock.
TestTrue(r) ==
  /\ seen[r] # <<>>
  /\ SeesEvent(r)
  /\ Leave(r, "lock", "pending")

\* The condition fails: before joining the wait queue the reader joins it;
\* on the queue it sleeps, or returns -ERESTARTSYS if a signal is pending.
TestFalse(r) ==
  /\ seen[r] # <<>>
  /\ ~SeesEvent(r)
  /\ \/ reading[r] = "check" /\ Leave(r, "join", "pending")
     \/ reading[r] = "queued" /\ Leave(r, "asleep", "pending")
     \/ reading[r] = "queued" /\ Leave(r, "idle", "EINTR")

\* prepare_to_wait_event
Join(r) ==
  /\ reading[r] = "join"
  /\ reading' = [reading EXCEPT ![r] = "queued"]
  /\ woken' = [woken EXCEPT ![r] = FALSE]
  /\ UNCHANGED <<ringVars, emitVars, seen, tmp, result, taken>>

\* schedule returns.
WakeUp(r) ==
  /\ reading[r] = "asleep"
  /\ woken[r]
  /\ reading' = [reading EXCEPT ![r] = "join"]
  /\ UNCHANGED <<ringVars, emitVars, seen, woken, tmp, result, taken>>

\* A signal ends the sleep too; the condition is tested once more.
Signal(r) ==
  /\ reading[r] = "asleep"
  /\ ~woken[r]
  /\ woken' = [woken EXCEPT ![r] = TRUE]
  /\ UNCHANGED <<ringVars, emitVars, reading, seen, tmp, result, taken>>

\* Mutant: the event is copied and the tail stays.
PopAgain(r) ==
  /\ reading[r] = "lock"
  /\ lock = NoOwner
  /\ \/ /\ head = tail
        /\ reading' = [reading EXCEPT ![r] = "idle"]
        /\ result' = [result EXCEPT ![r] = "EOF"]
        /\ UNCHANGED <<tail, tmp, taken>>
     \/ /\ head # tail
        /\ tmp' = [tmp EXCEPT ![r] = slots[tail]]
        /\ taken' = Append(taken, slots[tail])
        /\ reading' = [reading EXCEPT ![r] = "copy"]
        /\ UNCHANGED <<tail, result>>
  /\ UNCHANGED <<slots, head, emitVars, seen, woken>>

\* Lock, look again, pop, unlock.  Another reader may have been faster: then
\* read() returns 0.
Pop(r) ==
  /\ reading[r] = "lock"
  /\ lock = NoOwner
  /\ \/ /\ head = tail
        /\ reading' = [reading EXCEPT ![r] = "idle"]
        /\ result' = [result EXCEPT ![r] = "EOF"]
        /\ UNCHANGED <<tail, tmp, taken>>
     \/ /\ head # tail
        /\ tmp' = [tmp EXCEPT ![r] = slots[tail]]
        /\ tail' = After(tail)
        /\ taken' = Append(taken, slots[tail])
        /\ reading' = [reading EXCEPT ![r] = "copy"]
        /\ UNCHANGED result
  /\ UNCHANGED <<slots, head, emitVars, seen, woken>>

\* copy_to_user, which may fault: the event is gone from the ring either way.
CopyOut(r) ==
  /\ reading[r] = "copy"
  /\ reading' = [reading EXCEPT ![r] = "idle"]
  /\ tmp' = [tmp EXCEPT ![r] = 0]
  /\ \/ result' = [result EXCEPT ![r] = "event"]
     \/ result' = [result EXCEPT ![r] = "EFAULT"]
  /\ UNCHANGED <<ringVars, emitVars, seen, woken, taken>>

\* The steps of a read() that is under way and not blocked.
ReadStep(r) ==
  \/ Load(r) \/ TestTrue(r) \/ TestFalse(r) \/ Join(r) \/ WakeUp(r) \/ CopyOut(r)

-----------------------------------------------------------------------------

Init ==
  /\ slots = [i \in Slot |-> 0]
  /\ head = 0
  /\ tail = 0
  /\ lock = NoOwner
  /\ emitter = "idle"
  /\ emitted = 0
  /\ reading = [r \in Readers |-> "idle"]
  /\ seen = [r \in Readers |-> <<>>]
  /\ woken = [r \in Readers |-> FALSE]
  /\ tmp = [r \in Readers |-> 0]
  /\ result = [r \in Readers |-> "pending"]
  /\ taken = <<>>

Next ==
  \/ Emit
  \/ \E r \in Readers : ReadCall(r) \/ ReadStep(r) \/ Pop(r) \/ Signal(r)

Spec == Init /\ [][Next]_vars

\* A handler that holds the lock runs on to its end; a thread inside read()
\* is scheduled; the mutex hands over to waiters, so a reader cannot be
\* kept out for ever.  Nobody has to call read() or to emit.
Fairness ==
  /\ WF_vars(EmitPublish \/ EmitWake \/ EmitUnlock)
  /\ \A r \in Readers : WF_vars(ReadStep(r)) /\ SF_vars(Pop(r))

FairSpec == Spec /\ Fairness

-----------------------------------------------------------------------------
(* Properties                                                              *)

TypeOK ==
  /\ slots \in [Slot -> 0 .. MaxEvents]
  /\ head \in Slot
  /\ tail \in Slot
  /\ lock \in {NoOwner, Emitter}
  /\ emitter \in {"idle", "publish", "wake", "between"}
  /\ emitted \in 0 .. MaxEvents
  /\ reading \in [Readers -> {"idle", "check", "join", "queued", "asleep", "lock", "copy"}]
  /\ seen \in [Readers -> {<<>>} \cup ({"head", "tail"} \X Slot)]
  /\ woken \in [Readers -> BOOLEAN]
  /\ tmp \in [Readers -> 0 .. MaxEvents]
  /\ result \in [Readers -> {"pending", "nothing", "event", "EOF", "EFAULT", "EINTR"}]
  /\ taken \in Seq(1 .. MaxEvents)

\* How many events wait, and the one at distance k - 1 from the tail.
Waiting == (head - tail) % EventQ
Queued(k) == slots[(tail + k - 1) % EventQ]

\* However often the ring wraps and overflows, and wherever a handler is
\* between its steps, its indices stay within the ring and the waiting events
\* are the newest Waiting ones in order.
RingHoldsNewest ==
  /\ TypeOK
  /\ \A k \in 1 .. Waiting : Queued(k) = emitted - Waiting + k

\* A reader sleeps past an event only while the handler that published it has
\* still to wake it: the unlocked, torn wait condition loses no wake-up.
NoLostWakeup ==
  \A r \in Readers :
    reading[r] = "asleep" /\ ~woken[r] => head = tail \/ emitter = "wake"

\* read() of some bytes returns 0, which its caller takes for end of file, only
\* when readers compete: the reader of a file nobody else reads never sees it.
SoleReaderNeverSeesEof ==
  \A r \in Readers :
    [](\A q \in Readers \ {r} : reading[q] = "idle") => [](result[r] # "EOF")

\* A thread inside read() does not stay there while events wait.
ReadersServed ==
  \A r \in Readers : reading[r] # "idle" /\ head # tail ~> reading[r] = "idle" \/ head = tail

\* The ring is a bounded queue that loses nothing but the oldest event of a
\* full ring, and hands out each event once and in order.
Log == INSTANCE EventLog WITH
  Capacity <- EventQ - 1,
  queue <- [k \in 1 .. Waiting |-> Queued(k)]

ImplementsLog == Log!Spec
=============================================================================
