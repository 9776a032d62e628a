-------------------------- MODULE InfinitySessions --------------------------
(***************************************************************************)
(* The sessions of the proxy infinity.c as its event loop keeps them: the  *)
(* descriptors the kernel hands out, the map from a descriptor to its      *)
(* session, the list of sessions, the counters, and the batch of events    *)
(* that one epoll_wait returned.  An event names a descriptor only, and    *)
(* the handlers of earlier events of the batch close descriptors and open  *)
(* new ones with the same numbers.                                         *)
(*                                                                         *)
(* What a session does with an event, and whether it ends there, is the    *)
(* subject of InfinityRelay; here it is a choice.  The 128 events one call *)
(* may return are not a limit here: epoll returns the rest at later calls. *)
(***************************************************************************)
EXTENDS Integers, Sequences, FiniteSets, SequencesExt

CONSTANTS
  MaxConn,    \* max_connections
  FdLimit,    \* descriptors the process may have open, the listener's included
  FdMapCap,   \* INF_FD_MAP_CAP
  MaxArrivals \* bound: clients that ever connect

Listener == 1
Fds == 1 .. FdLimit

ASSUME SessionsAssumption ==
  /\ MaxConn \in Nat \ {0} /\ MaxArrivals \in Nat
  /\ FdLimit \in Nat \ {0} /\ FdMapCap \in Nat \ {0, Listener}

VARIABLES
  arrived,    \* clients that have connected to the listening port
  dropped,    \* history: connections closed before they had a session
  open,       \* open descriptors, in use by the loop
  polled,     \* descriptors in the epoll set
  ctx,        \* g_fd_map
  sessions,   \* the members of the list g_sessions
  peers,      \* the two descriptors of each session
  nextId,     \* g_next_session_id
  metrics,    \* g_metrics
  pc, batch   \* where the loop is; descriptors with events not yet handled

vars == <<arrived, dropped, open, polled, ctx, sessions, peers, nextId, metrics, pc, batch>>

NoCtx == <<>>
Ctx(id, side) == <<id, side>>
ListenerCtx == <<0, 2>>

FdsOf(id) == Range(peers[id])

\* Connections that became sessions, or were refused or closed; the others are
\* in the listener's queue.
Answered == nextId - 1 + metrics.rejected + dropped
Waiting == arrived - Answered

\* The number the kernel gives the next descriptor.
Free == Fds \ open
Lowest(F) == CHOOSE f \in F : \A g \in F : f <= g

-----------------------------------------------------------------------------
(* session_destroy, for a set of sessions                                  *)

\* Mutant: only the client's descriptor leaves the map.
UnregisteredClientOnly(ids) ==
  [f \in Fds |-> IF \E id \in ids : ctx[f] = Ctx(id, 0) THEN NoCtx ELSE ctx[f]]

Unregistered(ids) ==
  [f \in Fds |-> IF \E id \in ids : f \in FdsOf(id) THEN NoCtx ELSE ctx[f]]

\* Mutant: the active sessions are not counted down.
CountedOutClosedOnly(n) == [metrics EXCEPT !.closed = @ + n]

CountedOut(n) == [metrics EXCEPT !.closed = @ + n, !.active = @ - n]

Destroy(ids) ==
  LET gone == UNION {FdsOf(id) : id \in ids}
  IN  /\ open' = open \ gone
      /\ polled' = polled \ gone
      /\ ctx' = Unregistered(ids)
      /\ sessions' = sessions \ ids
      /\ peers' = [id \in DOMAIN peers |-> IF id \in ids THEN <<>> ELSE peers[id]]
      /\ metrics' = CountedOut(Cardinality(ids))
      /\ UNCHANGED <<arrived, dropped, nextId>>

-----------------------------------------------------------------------------
(* handle_listener_accept, one turn of its loop at a time                  *)

AtCap == metrics.active >= MaxConn

\* Mutant: the refused connection is not closed.
RefusedUnclosed == open \cup {Lowest(Free)}

\* The descriptors left open by a refusal.
Refused == open

NextEvent == pc' = IF Len(batch) = 1 THEN "maintain" ELSE "event"

\* accept() fails, as it must when nothing is queued or no descriptor is left,
\* and may at any time: the system is short of files or memory.
AcceptNone ==
  /\ NextEvent
  /\ batch' = Tail(batch)
  /\ UNCHANGED <<arrived, dropped, open, polled, ctx, sessions, peers, nextId, metrics>>

Reject ==
  /\ Waiting > 0 /\ Free # {} /\ AtCap
  /\ open' = Refused
  /\ metrics' = [metrics EXCEPT !.rejected = @ + 1]
  /\ UNCHANGED <<arrived, dropped, polled, ctx, sessions, peers, nextId, pc, batch>>

\* set_nonblocking or the allocation of a session fails.
AcceptDrops ==
  /\ Waiting > 0 /\ Free # {} /\ ~AtCap
  /\ dropped' = dropped + 1
  /\ UNCHANGED <<arrived, open, polled, ctx, sessions, peers, nextId, metrics, pc, batch>>

\* A session that is created and destroyed at once: there is no upstream
\* socket, connect() fails at once, or a descriptor is beyond the map.
AcceptFails ==
  /\ Waiting > 0 /\ Free # {} /\ ~AtCap
  /\ nextId' = nextId + 1
  /\ metrics' = [metrics EXCEPT !.closed = @ + 1]
  /\ UNCHANGED <<arrived, dropped, open, polled, ctx, sessions, peers, pc, batch>>

\* The session's two descriptors are the lowest free ones.
Accept ==
  LET c == Lowest(Free)
      u == Lowest(Free \ {c})
  IN  /\ Waiting > 0 /\ Cardinality(Free) >= 2 /\ ~AtCap
      /\ c < FdMapCap /\ u < FdMapCap
      /\ nextId' = nextId + 1
      /\ sessions' = sessions \cup {nextId}
      /\ peers' = [peers EXCEPT ![nextId] = <<c, u>>]
      /\ open' = open \cup {c, u}
      /\ polled' = polled \cup {c, u}
      /\ ctx' = [ctx EXCEPT ![c] = Ctx(nextId, 0), ![u] = Ctx(nextId, 1)]
      /\ metrics' = [metrics EXCEPT !.active = @ + 1, !.accepted = @ + 1]
      /\ UNCHANGED <<arrived, dropped, pc, batch>>

\* accept() returns a connection.
AcceptOne == pc = "accept" /\ (Reject \/ AcceptDrops \/ AcceptFails \/ Accept)

AcceptLoop == AcceptOne \/ (pc = "accept" /\ AcceptNone)

-----------------------------------------------------------------------------
(* The event loop of main                                                  *)

Arrive ==
  /\ arrived < MaxArrivals
  /\ pc # "stopped"
  /\ arrived' = arrived + 1
  /\ UNCHANGED <<dropped, open, polled, ctx, sessions, peers, nextId, metrics, pc, batch>>

\* Any of the sessions' descriptors may be ready; the listener is when a
\* connection waits.  The batch may be in any order.
Wait ==
  /\ pc = "wait"
  /\ \E busy \in SUBSET (polled \ {Listener}) :
       LET ready == busy \cup (IF Waiting > 0 THEN {Listener} ELSE {})
       IN  batch' \in SetToSeqs(ready)
  /\ pc' = IF batch' = <<>> THEN "maintain" ELSE "event"
  /\ UNCHANGED <<arrived, dropped, open, polled, ctx, sessions, peers, nextId, metrics>>

\* The descriptor's session was destroyed earlier in this batch.
SkipEvent ==
  /\ ctx[Head(batch)] = NoCtx
  /\ NextEvent
  /\ batch' = Tail(batch)
  /\ UNCHANGED <<arrived, dropped, open, polled, ctx, sessions, peers, nextId, metrics>>

ListenerEvent ==
  /\ ctx[Head(batch)] = ListenerCtx
  /\ pc' = "accept"
  /\ UNCHANGED <<arrived, dropped, open, polled, ctx, sessions, peers, nextId, metrics, batch>>

\* handle_side_io of whichever session the map now names.
SessionEvent ==
  /\ ctx[Head(batch)] \notin {NoCtx, ListenerCtx}
  /\ \/ Destroy({ctx[Head(batch)][1]})
     \/ UNCHANGED <<arrived, dropped, open, polled, ctx, sessions, peers, nextId, metrics>>
  /\ NextEvent
  /\ batch' = Tail(batch)

HandleEvent == pc = "event" /\ (SkipEvent \/ ListenerEvent \/ SessionEvent)

\* enforce_idle_timeouts: any of the sessions may have been idle for too long.
Maintain ==
  /\ pc = "maintain"
  /\ \E idle \in SUBSET sessions : Destroy(idle)
  /\ pc' = "wait"
  /\ UNCHANGED batch

\* SIGINT or SIGTERM ends the loop; close_all_sessions, then the listener.
Stop ==
  /\ pc = "wait"
  /\ open' = open \ ((UNION {FdsOf(id) : id \in sessions}) \cup {Listener})
  /\ polled' = {}
  /\ ctx' = [Unregistered(sessions) EXCEPT ![Listener] = NoCtx]
  /\ sessions' = {}
  /\ peers' = [id \in DOMAIN peers |-> <<>>]
  /\ metrics' = CountedOut(Cardinality(sessions))
  /\ pc' = "stopped"
  /\ UNCHANGED <<arrived, dropped, nextId, batch>>

Loop == Wait \/ HandleEvent \/ AcceptLoop \/ Maintain

Init ==
  /\ arrived = 0 /\ dropped = 0
  /\ open = {Listener}
  /\ polled = {Listener}
  /\ ctx = [f \in Fds |-> IF f = Listener THEN ListenerCtx ELSE NoCtx]
  /\ sessions = {}
  /\ peers = [id \in 1 .. MaxArrivals |-> <<>>]
  /\ nextId = 1
  /\ metrics = [accepted |-> 0, rejected |-> 0, active |-> 0, closed |-> 0]
  /\ pc = "wait"
  /\ batch = <<>>

Next == Arrive \/ Stop \/ Loop

Spec == Init /\ [][Next]_vars

\* The loop goes on.
FairSpec == Spec /\ WF_vars(Loop)

-----------------------------------------------------------------------------
(* Properties                                                              *)

\* The fields keep their types, and the limit on sessions its word.
TypeOK ==
  /\ arrived \in 0 .. MaxArrivals /\ dropped \in 0 .. MaxArrivals
  /\ open \subseteq Fds /\ polled \subseteq open
  /\ ctx \in [Fds -> {NoCtx, ListenerCtx} \cup ((1 .. MaxArrivals) \X {0, 1})]
  /\ sessions \subseteq 1 .. MaxArrivals
  /\ peers \in [1 .. MaxArrivals -> {<<>>} \cup (Fds \X Fds)]
  /\ nextId \in 1 .. MaxArrivals + 1
  /\ metrics \in [{"accepted", "rejected", "active", "closed"} -> 0 .. MaxArrivals]
  /\ metrics.active <= MaxConn
  /\ pc \in {"wait", "event", "accept", "maintain", "stopped"}
  /\ batch \in Seq(Fds)

\* Whatever descriptors are closed and reused in a batch, the map names live
\* sessions only, every live session is found under both of its descriptors
\* and receives their events, and no descriptor is leaked; the sessions stay
\* within the limit.
FdTableConsistent ==
  /\ TypeOK
  /\ \A f \in Fds : ctx[f] \notin {NoCtx, ListenerCtx} =>
       ctx[f][1] \in sessions /\ peers[ctx[f][1]][ctx[f][2] + 1] = f
  /\ \A id \in sessions : \A side \in {0, 1} :
       LET f == peers[id][side + 1]
       IN  ctx[f] = Ctx(id, side) /\ f \in polled
  /\ open = (UNION {FdsOf(id) : id \in sessions}) \cup (IF pc = "stopped" THEN {} ELSE {Listener})

\* The counter that is compared with max_connections is the number of
\* sessions in the list, and every session ever created is either in it or
\* counted closed.
ActiveIsCounted ==
  /\ metrics.active = Cardinality(sessions)
  /\ nextId - 1 = metrics.active + metrics.closed

\* accept() does not fail for ever: with a connection waiting and descriptors
\* left it returns one in the end.
AcceptRecovers == SF_vars(AcceptOne)

\* However long the system was short of descriptors, a connection that waits
\* is accepted, refused or closed once accept() works again, also at the limit
\* of sessions and however long those stay.
ConnectionsAnswered ==
  AcceptRecovers =>
    \A k \in 1 .. MaxArrivals : arrived >= k ~> Answered >= k \/ pc = "stopped"
=============================================================================
