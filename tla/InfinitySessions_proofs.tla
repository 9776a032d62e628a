----------------------- MODULE InfinitySessions_proofs -----------------------
(***************************************************************************)
(* Proofs about InfinitySessions, for any number of clients, sessions and  *)
(* descriptors: the map from descriptors to sessions, the descriptors left *)
(* open and the counters agree with the list of sessions.                  *)
(***************************************************************************)
EXTENDS InfinitySessions, FiniteSetTheorems, SequenceTheorems, WellFoundedInduction, TLAPS

\* A session in the list was created and has two descriptors; another number
\* has none.  No more connections were answered than clients came.
IdInv ==
  /\ \A id \in 1 .. MaxArrivals :
       /\ id \in sessions => id < nextId /\ peers[id] \in Fds \X Fds
       /\ id \notin sessions => peers[id] = <<>>
  /\ Answered <= arrived
  /\ metrics.accepted <= nextId - 1

\* The loop handles an event only while there is one; the listener stays
\* registered until the loop has ended.
LoopInv ==
  /\ pc \in {"event", "accept"} => batch # <<>>
  /\ pc # "stopped" => ctx[Listener] = ListenerCtx

Inv == FdTableConsistent /\ ActiveIsCounted /\ IdInv /\ LoopInv

-----------------------------------------------------------------------------
(* Sets                                                                    *)

LEMMA RangeOfPair ==
  /\ \A c, u : Range(<<c, u>>) = {c, u}
  /\ Range(<<>>) = {}
<1>1. ASSUME NEW c, NEW u
      PROVE  Range(<<c, u>>) = {c, u}
  <2>1. DOMAIN <<c, u>> = {1, 2}
    OBVIOUS
  <2>2. <<c, u>>[1] = c /\ <<c, u>>[2] = u
    OBVIOUS
  <2>3. QED
    BY <2>1, <2>2 DEF Range
<1>2. Range(<<>>) = {}
  BY DEF Range
<1>3. QED
  BY <1>1, <1>2

\* The lowest of some descriptors is one of them.
LEMMA LowestIs ==
  ASSUME NEW F \in SUBSET Fds, F # {}
  PROVE  Lowest(F) \in F
<1> DEFINE R == OpToRel(<, Nat)
<1>1. F \in SUBSET Nat
  BY SessionsAssumption DEF Fds
<1>2. IsWellFoundedOn(R, Nat)
  BY NatLessThanWellFounded
<1>3. \A x, y \in Nat : <<x, y>> \in R <=> x < y
  BY DEF OpToRel
<1> HIDE DEF R
<1>4. PICK f \in F : \A g \in F : ~(<<g, f>> \in R)
  BY <1>1, <1>2, WFMin
<1>5. \A g \in F : f <= g
  <2> TAKE g \in F
  <2>1. f \in Nat /\ g \in Nat /\ ~(<<g, f>> \in R)
    BY <1>1, <1>4
  <2>2. ~(g < f)
    BY <2>1, <1>3, Zenon
  <2>3. QED
    BY <2>1, <2>2
<1>6. QED
  BY <1>4, <1>5 DEF Lowest

\* Two free descriptors give an accepted connection two different ones.
LEMMA TwoFree ==
  ASSUME TypeOK, Cardinality(Free) >= 2
  PROVE  /\ Lowest(Free) \in Free
         /\ Lowest(Free \ {Lowest(Free)}) \in Free \ {Lowest(Free)}
<1>1. Free \in SUBSET Fds
  BY DEF Free
<1>2. IsFiniteSet(Fds)
  BY FS_Interval, SessionsAssumption DEF Fds
<1>3. IsFiniteSet(Free)
  BY <1>1, <1>2, FS_Subset
<1>4. Free # {}
  BY FS_EmptySet, SMT
<1>5. \A f : Free # {f}
  <2> SUFFICES ASSUME NEW f, Free = {f}
               PROVE  FALSE
    OBVIOUS
  <2>1. Cardinality(Free) = 1
    BY FS_Singleton
  <2>2. QED
    BY <2>1
<1>6. Free \ {Lowest(Free)} # {}
  BY <1>4, <1>5
<1>7. QED
  BY <1>1, <1>4, <1>6, LowestIs

\* The list is finite, and so is every part of it.
LEMMA PartOfList ==
  ASSUME TypeOK, NEW ids \in SUBSET sessions
  PROVE  /\ IsFiniteSet(sessions)
         /\ Cardinality(sessions) \in Nat /\ Cardinality(ids) \in Nat
         /\ Cardinality(sessions \ ids) = Cardinality(sessions) - Cardinality(ids)
<1>1. IsFiniteSet(1 .. MaxArrivals)
  BY FS_Interval, SessionsAssumption
<1>2. IsFiniteSet(sessions)
  BY <1>1, FS_Subset DEF TypeOK
<1>3. IsFiniteSet(ids)
  BY <1>2, FS_Subset
<1>4. Cardinality(sessions \ ids) = Cardinality(sessions) - Cardinality(sessions \cap ids)
  BY <1>2, FS_Difference
<1>5. sessions \cap ids = ids
  OBVIOUS
<1>6. QED
  BY <1>2, <1>3, <1>4, <1>5, FS_CardinalityType

-----------------------------------------------------------------------------
(* The descriptors of a session                                            *)

LEMMA FdsAre ==
  ASSUME Inv, NEW id \in sessions
  PROVE  /\ FdsOf(id) = {peers[id][1], peers[id][2]}
         /\ peers[id][1] \in Fds /\ peers[id][2] \in Fds
<1>1. peers[id] \in Fds \X Fds
  BY DEF Inv, FdTableConsistent, TypeOK, IdInv
<1>2. PICK c \in Fds, u \in Fds : peers[id] = <<c, u>>
  BY <1>1
<1>3. QED
  BY <1>2, RangeOfPair DEF FdsOf

\* A descriptor of a session is known to the map as that session's, is polled,
\* and is not the listener.
LEMMA OwnedBy ==
  ASSUME Inv, NEW id \in sessions, NEW f \in FdsOf(id)
  PROVE  /\ \E side \in {0, 1} : ctx[f] = Ctx(id, side)
         /\ f \in polled /\ f \in Fds
         /\ pc # "stopped" => f # Listener
<1>1. PICK side \in {0, 1} : f = peers[id][side + 1]
  BY FdsAre
<1>2. ctx[f] = Ctx(id, side) /\ f \in polled
  BY <1>1 DEF Inv, FdTableConsistent
<1>3. id # 0
  BY DEF Inv, FdTableConsistent, TypeOK
<1>4. Ctx(id, side) # ListenerCtx
  BY <1>3 DEF Ctx, ListenerCtx
<1>5. QED
  BY <1>2, <1>4 DEF Inv, FdTableConsistent, TypeOK, LoopInv

\* So two sessions share no descriptor.
LEMMA FdsDisjoint ==
  ASSUME Inv, NEW id \in sessions, NEW other \in sessions, id # other
  PROVE  FdsOf(id) \cap FdsOf(other) = {}
<1>1. SUFFICES ASSUME NEW f \in FdsOf(id), f \in FdsOf(other)
               PROVE  FALSE
  OBVIOUS
<1>2. \E s, t \in {0, 1} : ctx[f] = Ctx(id, s) /\ ctx[f] = Ctx(other, t)
  BY <1>1, OwnedBy
<1>3. QED
  BY <1>2 DEF Ctx

-----------------------------------------------------------------------------
(* session_destroy, for some of the sessions                               *)

\* Destroying sessions counts them out.
LEMMA CountedOutGood ==
  ASSUME Inv, NEW ids \in SUBSET sessions, sessions' = sessions \ ids,
         metrics' = CountedOut(Cardinality(ids)), nextId' = nextId
  PROVE  /\ ActiveIsCounted'
         /\ metrics' \in [{"accepted", "rejected", "active", "closed"} -> 0 .. MaxArrivals]
         /\ metrics'.active <= MaxConn
         /\ metrics'.accepted = metrics.accepted /\ metrics'.rejected = metrics.rejected
<1> DEFINE n == Cardinality(ids)
<1>1. TypeOK
  BY DEF Inv, FdTableConsistent
<1>2. /\ n \in Nat /\ Cardinality(sessions) \in Nat /\ Cardinality(sessions \ ids) \in Nat
      /\ Cardinality(sessions \ ids) = Cardinality(sessions) - n
  BY <1>1, PartOfList
<1>3. metrics \in [{"accepted", "rejected", "active", "closed"} -> 0 .. MaxArrivals]
      /\ metrics.active <= MaxConn
  BY <1>1 DEF TypeOK
<1>4. metrics' = [metrics EXCEPT !.closed = @ + n, !.active = @ - n]
  BY DEF CountedOut
<1>5. metrics.active = Cardinality(sessions) /\ nextId - 1 = metrics.active + metrics.closed
  BY DEF Inv, ActiveIsCounted
<1> HIDE DEF n
<1>6. /\ metrics'.active = metrics.active - n /\ metrics'.closed = metrics.closed + n
      /\ metrics'.accepted = metrics.accepted /\ metrics'.rejected = metrics.rejected
  BY <1>3, <1>4
<1>7. /\ metrics.active \in 0 .. MaxArrivals /\ metrics.closed \in 0 .. MaxArrivals
      /\ MaxArrivals \in Nat /\ MaxConn \in Nat /\ nextId \in 1 .. MaxArrivals + 1
  BY <1>1, <1>3, SessionsAssumption DEF TypeOK
<1>8. /\ metrics.active - n \in 0 .. MaxArrivals /\ metrics.active - n <= MaxConn
      /\ metrics.closed + n \in 0 .. MaxArrivals
  BY <1>2, <1>3, <1>5, <1>7
<1>9. metrics' \in [{"accepted", "rejected", "active", "closed"} -> 0 .. MaxArrivals]
  BY <1>3, <1>4, <1>8
<1>10. ActiveIsCounted'
  BY <1>2, <1>5, <1>6, <1>7 DEF ActiveIsCounted
<1>11. QED
  BY <1>6, <1>8, <1>9, <1>10

LEMMA DestroyInv ==
  ASSUME Inv, NEW ids \in SUBSET sessions, Destroy(ids),
         pc # "stopped", pc' \in {"wait", "event", "accept", "maintain"},
         batch' \in Seq(Fds), pc' \in {"event", "accept"} => batch' # <<>>
  PROVE  Inv'
<1> DEFINE gone == UNION {FdsOf(id) : id \in ids}
<1>1. /\ open' = open \ gone /\ polled' = polled \ gone
      /\ sessions' = sessions \ ids
      /\ metrics' = CountedOut(Cardinality(ids))
      /\ arrived' = arrived /\ dropped' = dropped /\ nextId' = nextId
  BY DEF Destroy
<1>2. TypeOK
  BY DEF Inv, FdTableConsistent
<1>3. \A f \in Fds : ctx'[f] = IF f \in gone THEN NoCtx ELSE ctx[f]
  BY <1>2 DEF Destroy, Unregistered, TypeOK
<1>4. \A id \in 1 .. MaxArrivals : peers'[id] = IF id \in ids THEN <<>> ELSE peers[id]
  BY <1>2 DEF Destroy, TypeOK
<1>5. sessions \subseteq 1 .. MaxArrivals
  BY <1>2 DEF TypeOK
<1>6. \A id \in sessions' : peers'[id] = peers[id] /\ FdsOf(id)' = FdsOf(id)
  BY <1>1, <1>4, <1>5 DEF FdsOf
<1>7. \A id \in sessions' : FdsOf(id) \cap gone = {}
  BY <1>1, FdsDisjoint
<1>8. Listener \in Fds /\ Listener \notin gone
  BY OwnedBy, SessionsAssumption DEF Fds, Listener
<1> HIDE DEF gone
<1>9. /\ ActiveIsCounted'
      /\ metrics' \in [{"accepted", "rejected", "active", "closed"} -> 0 .. MaxArrivals]
      /\ metrics'.active <= MaxConn
      /\ metrics'.accepted = metrics.accepted /\ metrics'.rejected = metrics.rejected
  BY <1>1, CountedOutGood
<1>10. TypeOK'
  <2>1. ctx' \in [Fds -> {NoCtx, ListenerCtx} \cup ((1 .. MaxArrivals) \X {0, 1})]
    BY <1>2, <1>3 DEF TypeOK, Destroy, Unregistered
  <2>2. peers' \in [1 .. MaxArrivals -> {<<>>} \cup (Fds \X Fds)]
    BY <1>2 DEF TypeOK, Destroy
  <2>3. QED
    BY <1>1, <1>2, <1>9, <2>1, <2>2 DEF TypeOK
<1>11. FdTableConsistent'
  <2>1. ASSUME NEW f \in Fds, ctx'[f] \notin {NoCtx, ListenerCtx}
        PROVE  ctx'[f][1] \in sessions' /\ peers'[ctx'[f][1]][ctx'[f][2] + 1] = f
    <3>1. f \notin gone /\ ctx'[f] = ctx[f]
      BY <1>3, <2>1
    <3>2. ctx[f][1] \in sessions /\ peers[ctx[f][1]][ctx[f][2] + 1] = f
      BY <2>1, <3>1 DEF Inv, FdTableConsistent
    <3>3. ctx[f] \in (1 .. MaxArrivals) \X {0, 1}
      BY <1>2, <2>1, <3>1 DEF TypeOK
    <3>4. f \in FdsOf(ctx[f][1])
      BY <3>2, <3>3, FdsAre
    <3>5. ctx[f][1] \notin ids
      BY <3>1, <3>4 DEF gone
    <3>6. QED
      BY <1>1, <1>6, <3>1, <3>2, <3>5
  <2>2. ASSUME NEW id \in sessions', NEW side \in {0, 1}
        PROVE  LET f == peers'[id][side + 1]
               IN  ctx'[f] = Ctx(id, side) /\ f \in polled'
    <3> DEFINE f == peers[id][side + 1]
    <3>1. id \in sessions
      BY <1>1
    <3>2. ctx[f] = Ctx(id, side) /\ f \in polled
      BY <3>1 DEF Inv, FdTableConsistent
    <3>3. f \in FdsOf(id) /\ f \in Fds
      BY <3>1, FdsAre
    <3>4. f \notin gone
      BY <1>7, <3>3
    <3>5. QED
      BY <1>1, <1>3, <1>6, <3>2, <3>3, <3>4
  <2>3. open' = (UNION {FdsOf(id)' : id \in sessions'}) \cup {Listener}
    <3>1. open = (UNION {FdsOf(id) : id \in sessions}) \cup {Listener}
      BY DEF Inv, FdTableConsistent
    <3>2. UNION {FdsOf(id)' : id \in sessions'} = UNION {FdsOf(id) : id \in sessions \ ids}
      BY <1>1, <1>6
    <3>3. (UNION {FdsOf(id) : id \in sessions}) \ gone = UNION {FdsOf(id) : id \in sessions \ ids}
      BY <1>1, <1>7 DEF gone
    <3>4. QED
      BY <1>1, <1>8, <3>1, <3>2, <3>3
  <2>4. QED
    BY <1>10, <2>1, <2>2, <2>3 DEF FdTableConsistent
<1>12. ActiveIsCounted'
  BY <1>9
<1>13. IdInv'
  BY <1>1, <1>4, <1>9 DEF Inv, IdInv, Answered
<1>14. LoopInv'
  BY <1>3, <1>8 DEF Inv, LoopInv
<1>15. QED
  BY <1>11, <1>12, <1>13, <1>14 DEF Inv

-----------------------------------------------------------------------------
(* The loop's own steps                                                    *)

\* The next event of the batch, or the end of the batch.
LEMMA NextEventGood ==
  ASSUME Inv, pc \in {"event", "accept"}, NextEvent, batch' = Tail(batch)
  PROVE  /\ pc' \in {"wait", "event", "accept", "maintain"}
         /\ batch' \in Seq(Fds)
         /\ pc' \in {"event", "accept"} => batch' # <<>>
<1>1. batch \in Seq(Fds) /\ batch # <<>>
  BY DEF Inv, FdTableConsistent, TypeOK, LoopInv
<1>2. Tail(batch) \in Seq(Fds) /\ Len(Tail(batch)) = Len(batch) - 1 /\ Len(batch) \in Nat
  BY <1>1, HeadTailProperties
<1>3. Len(batch) # 1 => Tail(batch) # <<>>
  BY <1>1, <1>2
<1>4. QED
  BY <1>2, <1>3 DEF NextEvent

\* A step that leaves the tables and counters alone.
LEMMA StaysInv ==
  ASSUME Inv, UNCHANGED <<arrived, dropped, open, polled, ctx, sessions, peers, nextId, metrics>>,
         pc # "stopped", pc' \in {"wait", "event", "accept", "maintain"},
         batch' \in Seq(Fds), pc' \in {"event", "accept"} => batch' # <<>>
  PROVE  Inv'
<1>1. TypeOK'
  BY DEF Inv, FdTableConsistent, TypeOK
<1>2. FdTableConsistent'
  BY <1>1 DEF Inv, FdTableConsistent, FdsOf
<1>3. ActiveIsCounted' /\ IdInv' /\ LoopInv'
  BY DEF Inv, ActiveIsCounted, IdInv, LoopInv, Answered
<1>4. QED
  BY <1>2, <1>3 DEF Inv

LEMMA ArriveInv ==
  ASSUME Inv, Arrive
  PROVE  Inv'
<1>1. TypeOK'
  BY SessionsAssumption DEF Arrive, Inv, FdTableConsistent, TypeOK
<1>2. FdTableConsistent'
  BY <1>1 DEF Arrive, Inv, FdTableConsistent, FdsOf
<1>3. ActiveIsCounted' /\ LoopInv'
  BY DEF Arrive, Inv, ActiveIsCounted, LoopInv
<1>4. IdInv'
  <2>1. arrived \in Nat /\ dropped \in Nat /\ nextId \in Nat /\ metrics.rejected \in Nat
    BY SessionsAssumption DEF Inv, FdTableConsistent, TypeOK
  <2>2. QED
    BY <2>1 DEF Arrive, Inv, IdInv, Answered
<1>5. QED
  BY <1>2, <1>3, <1>4 DEF Inv

\* A batch has each ready descriptor once, in some order.
LEMMA WaitInv ==
  ASSUME Inv, Wait
  PROVE  Inv'
<1>1. PICK busy \in SUBSET (polled \ {Listener}) :
        batch' \in SetToSeqs(busy \cup (IF Waiting > 0 THEN {Listener} ELSE {}))
  BY DEF Wait
<1> DEFINE ready == busy \cup (IF Waiting > 0 THEN {Listener} ELSE {})
<1>2. ready \in SUBSET Fds
  <2>1. polled \subseteq Fds
    BY DEF Inv, FdTableConsistent, TypeOK
  <2>2. Listener \in Fds
    BY SessionsAssumption DEF Fds, Listener
  <2>3. QED
    BY <2>1, <2>2
<1>3. Cardinality(ready) \in Nat
  <2>1. IsFiniteSet(Fds)
    BY FS_Interval, SessionsAssumption DEF Fds
  <2>2. IsFiniteSet(ready)
    BY <1>2, <2>1, FS_Subset
  <2>3. QED
    BY <2>2, FS_CardinalityType
<1>4. batch' \in [1 .. Cardinality(ready) -> ready]
  BY <1>1 DEF SetToSeqs
<1> HIDE DEF ready
<1>5. batch' \in Seq(Fds)
  <2>1. batch' \in [1 .. Cardinality(ready) -> Fds]
    BY <1>2, <1>4
  <2>2. QED
    BY <1>3, <2>1
<1>6. QED
  BY <1>5, StaysInv DEF Wait

LEMMA SkipInv ==
  ASSUME Inv, pc \in {"event", "accept"}, NextEvent, batch' = Tail(batch),
         UNCHANGED <<arrived, dropped, open, polled, ctx, sessions, peers, nextId, metrics>>
  PROVE  Inv'
BY NextEventGood, StaysInv

\* An event of a live session ends it or does not.
LEMMA SessionEventInv ==
  ASSUME Inv, pc = "event", SessionEvent
  PROVE  Inv'
<1>1. batch \in Seq(Fds) /\ batch # <<>>
  BY DEF Inv, FdTableConsistent, TypeOK, LoopInv
<1>2. Head(batch) \in Fds
  BY <1>1, HeadTailProperties
<1>3. ctx[Head(batch)][1] \in sessions
  BY <1>2 DEF SessionEvent, Inv, FdTableConsistent
<1>4. /\ pc' \in {"wait", "event", "accept", "maintain"}
      /\ batch' \in Seq(Fds)
      /\ pc' \in {"event", "accept"} => batch' # <<>>
  BY NextEventGood DEF SessionEvent
<1>5. CASE Destroy({ctx[Head(batch)][1]})
  BY <1>3, <1>4, <1>5, DestroyInv
<1>6. CASE UNCHANGED <<arrived, dropped, open, polled, ctx, sessions, peers, nextId, metrics>>
  BY <1>4, <1>6, StaysInv
<1>7. QED
  BY <1>5, <1>6 DEF SessionEvent

LEMMA MaintainInv ==
  ASSUME Inv, Maintain
  PROVE  Inv'
<1>1. batch' \in Seq(Fds)
  BY DEF Maintain, Inv, FdTableConsistent, TypeOK
<1>2. QED
  BY <1>1, DestroyInv DEF Maintain

-----------------------------------------------------------------------------
(* handle_listener_accept                                                  *)

\* A client waits, so its session has a number left.
LEMMA NumberLeft ==
  ASSUME Inv, Waiting > 0
  PROVE  /\ nextId \in 1 .. MaxArrivals /\ nextId \notin sessions
         /\ metrics.rejected < MaxArrivals /\ dropped < MaxArrivals
         /\ Answered < arrived /\ Answered \in Nat
<1>1. /\ nextId \in Nat /\ nextId >= 1 /\ arrived \in 0 .. MaxArrivals /\ dropped \in Nat
      /\ metrics.rejected \in Nat /\ MaxArrivals \in Nat
  BY SessionsAssumption DEF Inv, FdTableConsistent, TypeOK
<1>2. nextId + metrics.rejected + dropped <= arrived /\ Answered < arrived /\ Answered \in Nat
  BY <1>1 DEF Waiting, Answered
<1>3. nextId \in 1 .. MaxArrivals /\ metrics.rejected < MaxArrivals /\ dropped < MaxArrivals
  BY <1>1, <1>2
<1>4. nextId \notin sessions
  BY <1>1, <1>3 DEF Inv, IdInv
<1>5. QED
  BY <1>2, <1>3, <1>4

\* A counter below the number of clients may be raised.
LEMMA RaisedCounter ==
  ASSUME NEW m \in [{"accepted", "rejected", "active", "closed"} -> 0 .. MaxArrivals],
         NEW k \in {"accepted", "rejected", "active", "closed"},
         m[k] < MaxArrivals
  PROVE  [m EXCEPT ![k] = m[k] + 1] \in [{"accepted", "rejected", "active", "closed"} -> 0 .. MaxArrivals]
<1>1. m[k] + 1 \in 0 .. MaxArrivals
  <2>1. m[k] \in 0 .. MaxArrivals
    OBVIOUS
  <2> QED
    BY <2>1, SessionsAssumption
<1>2. QED
  BY <1>1

LEMMA RejectInv ==
  ASSUME Inv, pc = "accept", Reject
  PROVE  Inv'
<1>1. metrics \in [{"accepted", "rejected", "active", "closed"} -> 0 .. MaxArrivals]
  BY DEF Inv, FdTableConsistent, TypeOK
<1>2. metrics.rejected < MaxArrivals /\ Answered < arrived
  BY NumberLeft DEF Reject
<1>3. /\ metrics'.rejected = metrics.rejected + 1 /\ metrics'.active = metrics.active
      /\ metrics'.accepted = metrics.accepted /\ metrics'.closed = metrics.closed
  BY <1>1 DEF Reject
<1>4. metrics' \in [{"accepted", "rejected", "active", "closed"} -> 0 .. MaxArrivals]
  BY <1>1, <1>2, RaisedCounter DEF Reject
<1>5. TypeOK'
  BY <1>3, <1>4 DEF Reject, Refused, Inv, FdTableConsistent, TypeOK
<1>6. FdTableConsistent'
  BY <1>5 DEF Reject, Refused, Inv, FdTableConsistent, FdsOf
<1>7. ActiveIsCounted' /\ LoopInv'
  BY <1>3 DEF Reject, Inv, ActiveIsCounted, LoopInv
<1>8. IdInv'
  <2>1. nextId \in Nat /\ arrived \in Nat /\ dropped \in Nat /\ metrics.rejected \in Nat
    BY DEF Inv, FdTableConsistent, TypeOK
  <2>2. Answered' <= arrived'
    BY <1>2, <1>3, <2>1 DEF Reject, Answered
  <2>3. QED
    BY <1>3, <2>2 DEF Reject, Inv, IdInv
<1>9. QED
  BY <1>6, <1>7, <1>8 DEF Inv

LEMMA AcceptDropsInv ==
  ASSUME Inv, pc = "accept", AcceptDrops
  PROVE  Inv'
<1>1. dropped < MaxArrivals /\ Answered < arrived /\ dropped \in Nat
  BY NumberLeft DEF AcceptDrops, Inv, FdTableConsistent, TypeOK
<1>2. TypeOK'
  BY <1>1, SessionsAssumption DEF AcceptDrops, Inv, FdTableConsistent, TypeOK
<1>3. FdTableConsistent'
  BY <1>2 DEF AcceptDrops, Inv, FdTableConsistent, FdsOf
<1>4. Answered' <= arrived'
  <2>1. nextId \in Nat /\ arrived \in Nat /\ metrics.rejected \in Nat
    BY DEF Inv, FdTableConsistent, TypeOK
  <2> QED
    BY <1>1, <2>1 DEF AcceptDrops, Answered
<1>5. ActiveIsCounted' /\ IdInv' /\ LoopInv'
  BY <1>4 DEF AcceptDrops, Inv, ActiveIsCounted, IdInv, LoopInv
<1> QED
  BY <1>3, <1>5 DEF Inv

LEMMA AcceptFailsInv ==
  ASSUME Inv, pc = "accept", AcceptFails
  PROVE  Inv'
<1>1. metrics \in [{"accepted", "rejected", "active", "closed"} -> 0 .. MaxArrivals]
  BY DEF Inv, FdTableConsistent, TypeOK
<1>2. nextId \in 1 .. MaxArrivals /\ Answered < arrived
  BY NumberLeft DEF AcceptFails
<1>3. /\ metrics'.closed = metrics.closed + 1 /\ metrics'.active = metrics.active
      /\ metrics'.accepted = metrics.accepted /\ metrics'.rejected = metrics.rejected
      /\ nextId' = nextId + 1
  BY <1>1 DEF AcceptFails
<1>4. metrics.closed < MaxArrivals
  <2>1. nextId - 1 = metrics.active + metrics.closed
    BY DEF Inv, ActiveIsCounted
  <2>2. QED
    BY <1>1, <1>2, <2>1, SessionsAssumption
<1>5. metrics' \in [{"accepted", "rejected", "active", "closed"} -> 0 .. MaxArrivals]
  BY <1>1, <1>4, RaisedCounter DEF AcceptFails
<1>6. TypeOK'
  <2>1. nextId' \in 1 .. MaxArrivals + 1 /\ metrics'.active <= MaxConn
    BY <1>2, <1>3, SessionsAssumption DEF Inv, FdTableConsistent, TypeOK
  <2>2. QED
    BY <1>5, <2>1 DEF AcceptFails, Inv, FdTableConsistent, TypeOK
<1>7. FdTableConsistent'
  BY <1>6 DEF AcceptFails, Inv, FdTableConsistent, FdsOf
<1>8. LoopInv'
  BY DEF AcceptFails, Inv, LoopInv
<1>9. metrics.active \in Nat /\ metrics.closed \in Nat /\ metrics.accepted \in Nat
      /\ metrics.rejected \in Nat
  BY <1>1
<1>10. ActiveIsCounted'
  BY <1>2, <1>3, <1>9 DEF AcceptFails, Inv, ActiveIsCounted
<1>11. IdInv'
  <2>1. Answered' <= arrived' /\ metrics'.accepted <= nextId' - 1
    <3>1. arrived \in Nat /\ dropped \in Nat
      BY DEF Inv, FdTableConsistent, TypeOK
    <3> QED
      BY <1>2, <1>3, <1>9, <3>1 DEF AcceptFails, Inv, IdInv, Answered
  <2>2. \A id \in 1 .. MaxArrivals : id < nextId => id < nextId'
    BY <1>2, <1>3
  <2>3. QED
    BY <2>1, <2>2 DEF AcceptFails, Inv, IdInv
<1>12. QED
  BY <1>7, <1>8, <1>10, <1>11 DEF Inv

LEMMA AcceptInv ==
  ASSUME Inv, pc = "accept", Accept
  PROVE  Inv'
<1> DEFINE c == Lowest(Free)
           u == Lowest(Free \ {c})
<1>1. TypeOK
  BY DEF Inv, FdTableConsistent
<1>2. c \in Free /\ u \in Free \ {c}
  BY <1>1, TwoFree DEF Accept
<1>3. /\ sessions' = sessions \cup {nextId} /\ peers' = [peers EXCEPT ![nextId] = <<c, u>>]
      /\ open' = open \cup {c, u} /\ polled' = polled \cup {c, u}
      /\ ctx' = [ctx EXCEPT ![c] = Ctx(nextId, 0), ![u] = Ctx(nextId, 1)]
      /\ metrics' = [metrics EXCEPT !.active = @ + 1, !.accepted = @ + 1]
      /\ nextId' = nextId + 1 /\ UNCHANGED <<arrived, dropped, pc, batch>>
      /\ metrics.active < MaxConn
  <2>1. metrics.active \in Nat
    BY <1>1 DEF TypeOK
  <2>2. QED
    BY <2>1, SessionsAssumption DEF Accept, AtCap
<1> HIDE DEF c, u
<1>4. c \in Fds /\ u \in Fds /\ c \notin open /\ u \notin open /\ c # u
  BY <1>2 DEF Free
<1>5. /\ nextId \in 1 .. MaxArrivals /\ nextId \notin sessions
      /\ Answered < arrived
  BY NumberLeft DEF Accept
<1>6. /\ ctx'[c] = Ctx(nextId, 0) /\ ctx'[u] = Ctx(nextId, 1)
      /\ \A f \in Fds \ {c, u} : ctx'[f] = ctx[f]
  BY <1>1, <1>3, <1>4 DEF TypeOK
<1>7. /\ peers'[nextId] = <<c, u>>
      /\ \A id \in 1 .. MaxArrivals : id # nextId => peers'[id] = peers[id]
  BY <1>1, <1>3, <1>5 DEF TypeOK
<1>8. sessions \subseteq 1 .. MaxArrivals
  BY <1>1 DEF TypeOK
<1>9. /\ metrics \in [{"accepted", "rejected", "active", "closed"} -> 0 .. MaxArrivals]
      /\ metrics'.active = metrics.active + 1 /\ metrics'.accepted = metrics.accepted + 1
      /\ metrics'.closed = metrics.closed /\ metrics'.rejected = metrics.rejected
  BY <1>1, <1>3 DEF TypeOK
<1>10. /\ metrics.active \in Nat /\ metrics.closed \in Nat /\ metrics.accepted \in Nat
       /\ metrics.rejected \in Nat /\ nextId \in Nat /\ arrived \in 0 .. MaxArrivals
       /\ dropped \in Nat /\ MaxArrivals \in Nat /\ MaxConn \in Nat
  BY <1>1, <1>9, SessionsAssumption DEF TypeOK
<1>11. metrics.active < MaxArrivals /\ metrics.accepted < MaxArrivals
  <2>1. nextId - 1 = metrics.active + metrics.closed /\ metrics.accepted <= nextId - 1
    BY DEF Inv, ActiveIsCounted, IdInv
  <2>2. QED
    BY <1>5, <1>10, <2>1
<1>12. TypeOK'
  <2>1. ctx' \in [Fds -> {NoCtx, ListenerCtx} \cup ((1 .. MaxArrivals) \X {0, 1})]
    <3>1. Ctx(nextId, 0) \in (1 .. MaxArrivals) \X {0, 1} /\ Ctx(nextId, 1) \in (1 .. MaxArrivals) \X {0, 1}
      BY <1>5 DEF Ctx
    <3>2. QED
      BY <1>1, <1>3, <3>1 DEF TypeOK
  <2>2. peers' \in [1 .. MaxArrivals -> {<<>>} \cup (Fds \X Fds)]
    BY <1>1, <1>3, <1>4 DEF TypeOK
  <2>3. metrics' \in [{"accepted", "rejected", "active", "closed"} -> 0 .. MaxArrivals]
    <3> DEFINE m == [metrics EXCEPT !["active"] = metrics["active"] + 1]
    <3>1. m \in [{"accepted", "rejected", "active", "closed"} -> 0 .. MaxArrivals]
      BY <1>9, <1>11, RaisedCounter
    <3>2. m["accepted"] = metrics["accepted"]
      BY <1>9
    <3>3. metrics' = [m EXCEPT !["accepted"] = m["accepted"] + 1]
      BY <1>3, <1>9
    <3> HIDE DEF m
    <3>4. QED
      BY <1>11, <3>1, <3>2, <3>3, RaisedCounter
  <2>4. metrics'.active <= MaxConn
    BY <1>3, <1>9, <1>10
  <2>5. nextId' \in 1 .. MaxArrivals + 1
    BY <1>3, <1>5, <1>10
  <2>6. sessions' \subseteq 1 .. MaxArrivals
    BY <1>3, <1>5, <1>8
  <2>7. open' \subseteq Fds /\ polled' \subseteq open'
    BY <1>1, <1>3, <1>4 DEF TypeOK
  <2>8. QED
    BY <1>1, <1>3, <2>1, <2>2, <2>3, <2>4, <2>5, <2>6, <2>7 DEF TypeOK
<1>13. FdTableConsistent'
  <2>1. ASSUME NEW f \in Fds, ctx'[f] \notin {NoCtx, ListenerCtx}
        PROVE  ctx'[f][1] \in sessions' /\ peers'[ctx'[f][1]][ctx'[f][2] + 1] = f
    <3>1. CASE f = c
      <4>1. ctx'[f][1] = nextId /\ ctx'[f][2] + 1 = 1
        BY <1>6, <3>1 DEF Ctx
      <4>2. QED
        BY <1>3, <1>7, <3>1, <4>1
    <3>2. CASE f = u
      <4>1. ctx'[f][1] = nextId /\ ctx'[f][2] + 1 = 2
        BY <1>6, <3>2 DEF Ctx
      <4>2. QED
        BY <1>3, <1>7, <3>2, <4>1
    <3>3. CASE f \notin {c, u}
      <4>1. ctx'[f] = ctx[f]
        BY <1>6, <3>3
      <4>2. ctx[f][1] \in sessions /\ peers[ctx[f][1]][ctx[f][2] + 1] = f
        BY <2>1, <4>1 DEF Inv, FdTableConsistent
      <4>3. QED
        BY <1>3, <1>5, <1>7, <1>8, <4>1, <4>2
    <3>4. QED
      BY <3>1, <3>2, <3>3
  <2>2. ASSUME NEW id \in sessions', NEW side \in {0, 1}
        PROVE  LET f == peers'[id][side + 1]
               IN  ctx'[f] = Ctx(id, side) /\ f \in polled'
    <3>1. CASE id = nextId
      <4>1. CASE side = 0
        <5>1. peers'[id][side + 1] = c
          BY <1>7, <3>1, <4>1
        <5>2. QED
          BY <1>3, <1>6, <3>1, <4>1, <5>1
      <4>2. CASE side = 1
        <5>1. peers'[id][side + 1] = u
          BY <1>7, <3>1, <4>2
        <5>2. QED
          BY <1>3, <1>6, <3>1, <4>2, <5>1
      <4>3. QED
        BY <4>1, <4>2
    <3>2. CASE id # nextId
      <4> DEFINE f == peers[id][side + 1]
      <4>1. id \in sessions /\ peers'[id] = peers[id]
        BY <1>3, <1>7, <1>8, <3>2
      <4>2. ctx[f] = Ctx(id, side) /\ f \in polled
        BY <4>1 DEF Inv, FdTableConsistent
      <4>3. f \in Fds \ {c, u}
        BY <1>1, <1>4, <4>2 DEF TypeOK
      <4> HIDE DEF f
      <4>4. ctx'[f] = Ctx(id, side) /\ f \in polled'
        BY <1>3, <1>6, <4>2, <4>3
      <4>5. peers'[id][side + 1] = f
        BY <4>1 DEF f
      <4>6. QED
        BY <4>4, <4>5
    <3>3. QED
      BY <3>1, <3>2
  <2>3. open' = (UNION {FdsOf(id)' : id \in sessions'}) \cup {Listener}
    <3>1. open = (UNION {FdsOf(id) : id \in sessions}) \cup {Listener}
      BY DEF Inv, FdTableConsistent
    <3>2. Range(peers'[nextId]) = {c, u}
      BY <1>7, RangeOfPair
    <3>3. \A id \in sessions : FdsOf(id)' = FdsOf(id)
      BY <1>5, <1>7, <1>8 DEF FdsOf
    <3>4. UNION {FdsOf(id)' : id \in sessions'} = (UNION {FdsOf(id) : id \in sessions}) \cup {c, u}
      <4>1. \A id \in sessions' : FdsOf(id)' = IF id = nextId THEN {c, u} ELSE FdsOf(id)
        BY <1>3, <3>2, <3>3 DEF FdsOf
      <4>2. \A x : (\E id \in sessions' : x \in FdsOf(id)')
                     <=> (\E id \in sessions : x \in FdsOf(id)) \/ x \in {c, u}
        BY <1>3, <1>5, <4>1
      <4>3. QED
        BY <4>2
    <3>5. QED
      BY <1>3, <3>1, <3>4
  <2>4. pc' # "stopped"
    BY <1>3
  <2>5. QED
    BY <1>12, <2>1, <2>2, <2>3, <2>4 DEF FdTableConsistent
<1>14. ActiveIsCounted'
  <2>1. Cardinality(sessions \cup {nextId}) = Cardinality(sessions) + 1
    BY <1>1, <1>5, PartOfList, FS_AddElement
  <2>2. metrics.active = Cardinality(sessions) /\ nextId - 1 = metrics.active + metrics.closed
    BY DEF Inv, ActiveIsCounted
  <2>3. metrics'.active = Cardinality(sessions')
    BY <1>3, <1>9, <2>1, <2>2
  <2>4. nextId' - 1 = metrics'.active + metrics'.closed
    BY <1>3, <1>9, <1>10, <2>2
  <2>5. QED
    BY <2>3, <2>4 DEF ActiveIsCounted
<1>15. IdInv'
  <2>1. Answered' <= arrived' /\ metrics'.accepted <= nextId' - 1
    BY <1>3, <1>5, <1>9, <1>10 DEF Inv, IdInv, Answered
  <2>2. ASSUME NEW id \in 1 .. MaxArrivals
        PROVE  /\ id \in sessions' => id < nextId' /\ peers'[id] \in Fds \X Fds
               /\ id \notin sessions' => peers'[id] = <<>>
    <3>1. CASE id = nextId
      BY <1>3, <1>4, <1>7, <1>10, <3>1
    <3>2. CASE id # nextId
      BY <1>3, <1>7, <1>10, <3>2 DEF Inv, IdInv
    <3>3. QED
      BY <3>1, <3>2
  <2>3. QED
    BY <2>1, <2>2 DEF IdInv
<1>16. LoopInv'
  <2>1. Listener \in open
    BY DEF Inv, FdTableConsistent
  <2>2. Listener \in Fds \ {c, u}
    BY <1>1, <1>4, <2>1 DEF TypeOK
  <2>3. QED
    BY <1>3, <1>6, <2>2 DEF Inv, LoopInv
<1>17. QED
  BY <1>13, <1>14, <1>15, <1>16 DEF Inv

-----------------------------------------------------------------------------
(* The end of the program                                                  *)

LEMMA StopInv ==
  ASSUME Inv, Stop
  PROVE  Inv'
<1>1. TypeOK
  BY DEF Inv, FdTableConsistent
<1>2. /\ sessions' = sessions \ sessions /\ sessions' = {}
      /\ metrics' = CountedOut(Cardinality(sessions)) /\ nextId' = nextId
  BY DEF Stop
<1>3. /\ ActiveIsCounted'
      /\ metrics' \in [{"accepted", "rejected", "active", "closed"} -> 0 .. MaxArrivals]
      /\ metrics'.active <= MaxConn
      /\ metrics'.accepted = metrics.accepted /\ metrics'.rejected = metrics.rejected
  BY <1>2, CountedOutGood
<1>4. ctx' \in [Fds -> {NoCtx, ListenerCtx} \cup ((1 .. MaxArrivals) \X {0, 1})]
  BY <1>1 DEF Stop, Unregistered, TypeOK
<1>5. ASSUME NEW f \in Fds
      PROVE  ctx'[f] \in {NoCtx, ListenerCtx}
  <2>1. CASE \E id \in sessions : f \in FdsOf(id)
    BY <1>1, <2>1 DEF Stop, Unregistered
  <2>2. CASE ~\E id \in sessions : f \in FdsOf(id)
    <3>1. ctx'[f] \in {NoCtx, ctx[f]}
      BY <1>1, <2>2 DEF Stop, Unregistered
    <3>2. SUFFICES ASSUME ctx[f] \notin {NoCtx, ListenerCtx}
                   PROVE  FALSE
      BY <3>1
    <3>3. ctx[f][1] \in sessions /\ peers[ctx[f][1]][ctx[f][2] + 1] = f
      BY <3>2 DEF Inv, FdTableConsistent
    <3>4. ctx[f] \in (1 .. MaxArrivals) \X {0, 1}
      BY <1>1, <3>2 DEF TypeOK
    <3>5. f \in FdsOf(ctx[f][1])
      BY <3>3, <3>4, FdsAre
    <3>6. QED
      BY <2>2, <3>3, <3>5
  <2>3. QED
    BY <2>1, <2>2
<1>6. open' = {} /\ polled' = {} /\ pc' = "stopped"
  BY DEF Stop, Inv, FdTableConsistent
<1>7. peers' \in [1 .. MaxArrivals -> {<<>>} \cup (Fds \X Fds)]
      /\ \A id \in 1 .. MaxArrivals : peers'[id] = <<>>
  BY <1>1 DEF Stop, TypeOK
<1>8. TypeOK'
  BY <1>1, <1>2, <1>3, <1>4, <1>6, <1>7 DEF Stop, TypeOK
<1>9. FdTableConsistent'
  BY <1>2, <1>5, <1>6, <1>8 DEF FdTableConsistent
<1>10. IdInv'
  BY <1>2, <1>3, <1>7 DEF Stop, Inv, IdInv, Answered
<1>11. LoopInv'
  BY <1>6 DEF LoopInv
<1>12. QED
  BY <1>3, <1>9, <1>10, <1>11 DEF Inv

-----------------------------------------------------------------------------
(* The theorems                                                            *)

\* Inv is inductive: the tables, the counters, the numbers given to sessions
\* and the place of the loop.
THEOREM Invariance == Spec => []Inv
<1>1. Init => Inv
  <2> SUFFICES ASSUME Init
               PROVE  Inv
    OBVIOUS
  <2>1. /\ Listener \in Fds /\ MaxArrivals \in Nat /\ MaxConn \in Nat
        /\ Cardinality({}) = 0
    BY SessionsAssumption, FS_EmptySet DEF Fds, Listener
  <2>2. /\ metrics.active = 0 /\ metrics.closed = 0 /\ metrics.accepted = 0 /\ metrics.rejected = 0
        /\ metrics \in [{"accepted", "rejected", "active", "closed"} -> 0 .. MaxArrivals]
    BY <2>1 DEF Init
  <2>3. TypeOK
    BY <2>1, <2>2 DEF Init, TypeOK
  <2>4. FdTableConsistent
    BY <2>1, <2>3 DEF Init, FdTableConsistent
  <2>5. ActiveIsCounted /\ IdInv /\ LoopInv
    BY <2>1, <2>2 DEF Init, ActiveIsCounted, IdInv, LoopInv, Answered
  <2>6. QED
    BY <2>4, <2>5 DEF Inv
<1>2. Inv /\ [Next]_vars => Inv'
  <2> SUFFICES ASSUME Inv, [Next]_vars
               PROVE  Inv'
    OBVIOUS
  <2>1. CASE Arrive \/ Stop \/ Wait \/ Maintain
    BY <2>1, ArriveInv, StopInv, WaitInv, MaintainInv
  <2>2. CASE HandleEvent
    <3>1. CASE SkipEvent
      BY <2>2, <3>1, SkipInv DEF HandleEvent, SkipEvent
    <3>2. CASE ListenerEvent
      BY <2>2, <3>2, StaysInv DEF HandleEvent, ListenerEvent, Inv, FdTableConsistent, TypeOK, LoopInv
    <3>3. CASE SessionEvent
      BY <2>2, <3>3, SessionEventInv DEF HandleEvent
    <3>4. QED
      BY <2>2, <3>1, <3>2, <3>3 DEF HandleEvent
  <2>3. CASE AcceptLoop
    BY <2>3, SkipInv, RejectInv, AcceptDropsInv, AcceptFailsInv, AcceptInv
       DEF AcceptLoop, AcceptOne, AcceptNone
  <2>4. CASE UNCHANGED vars
    <3>1. TypeOK' /\ FdTableConsistent'
      BY <2>4 DEF vars, Inv, FdTableConsistent, TypeOK, FdsOf
    <3>2. ActiveIsCounted' /\ IdInv' /\ LoopInv'
      BY <2>4 DEF vars, Inv, ActiveIsCounted, IdInv, LoopInv, Answered
    <3>3. QED
      BY <3>1, <3>2 DEF Inv
  <2>5. QED
    BY <2>1, <2>2, <2>3, <2>4 DEF Next, Loop
<1>3. QED
  BY <1>1, <1>2, PTL DEF Spec

\* Whatever is closed and reused within a batch, and for any number of
\* descriptors: the map, the epoll set and the descriptors left open are those
\* of the live sessions, and there are never more than max_connections.
THEOREM TableStaysConsistent == Spec => []FdTableConsistent
<1>1. Inv => FdTableConsistent
  BY DEF Inv
<1>2. QED
  BY <1>1, Invariance, PTL

\* The counter compared with max_connections counts the list, however many
\* sessions were created, refused or failed.
THEOREM CountersAgree == Spec => []ActiveIsCounted
<1>1. Inv => ActiveIsCounted
  BY DEF Inv
<1>2. QED
  BY <1>1, Invariance, PTL
==============================================================================
