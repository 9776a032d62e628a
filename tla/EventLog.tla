----------------------------- MODULE EventLog -----------------------------
(***************************************************************************)
(* What /dev/dawnhex promises to its readers: a queue of at most Capacity  *)
(* events, numbered as they are emitted.  Each event is taken at most once *)
(* and in order; an event is lost only by being the oldest of a full       *)
(* queue.  EventRing implements this module.                               *)
(***************************************************************************)
EXTENDS Integers, Sequences

CONSTANT Capacity

VARIABLES
  queue,    \* the numbers of the waiting events
  emitted,  \* how many events were emitted so far
  taken     \* the numbers of the events taken by readers, in order

vars == <<queue, emitted, taken>>

Init ==
  /\ queue = <<>>
  /\ emitted = 0
  /\ taken = <<>>

Put ==
  /\ Len(queue) < Capacity
  /\ emitted' = emitted + 1
  /\ queue' = Append(queue, emitted')
  /\ UNCHANGED taken

Evict ==
  /\ Len(queue) = Capacity
  /\ queue' = Tail(queue)
  /\ UNCHANGED <<emitted, taken>>

Take ==
  /\ queue # <<>>
  /\ taken' = Append(taken, Head(queue))
  /\ queue' = Tail(queue)
  /\ UNCHANGED emitted

Next == Put \/ Evict \/ Take

Spec == Init /\ [][Next]_vars
=============================================================================
