--------------------------- MODULE DawnHexMirror ---------------------------
(***************************************************************************)
(* A client of DawnHexCluster that never queries it: it reads every event  *)
(* of /dev/dawnhex in order and rebuilds nodes, links and pairs from the   *)
(* events' text alone.  That this works says that the handlers emit, for   *)
(* every change they make, an event that carries the change.  What a       *)
(* client misses when the ring overflows is the subject of EventRing.      *)
(***************************************************************************)
EXTENDS DawnHexCluster

VARIABLE mirror  \* the client's copy: node table, and pairs by id

mirrorVars == <<vars, mirror>>

EmptyMirror == [nodes |-> [i \in Ids |-> NoNode], pairs |-> <<>>]

MirroredPair(a, b, mode) ==
  [a |-> a, b |-> b, mode |-> mode,
   energy |-> MaxPpm \div 2, pressure |-> MaxPpm \div 2, last |-> 0]

\* A pulse event names the pair's new energy; the client repeats the feedback.
MirrorPulse(m, id, value, energy, pressure) ==
  LET p == m.pairs[id]
      fed(i) == Mean(m.nodes[i].energy, energy)
  IN  [nodes |-> [m.nodes EXCEPT ![p.a].energy = fed(p.a), ![p.b].energy = fed(p.b)],
       pairs |-> [m.pairs EXCEPT ![id] = [p EXCEPT !.energy = energy,
                                          !.pressure = pressure, !.last = value]]]

\* The client's copy after one event.
Heard(m, e) ==
  LET x == e.arg IN
  CASE e.kind = "add" -> [m EXCEPT !.nodes[x[1]] = FreshNode]
    [] e.kind = "del" ->
         [m EXCEPT !.nodes = [i \in Ids |-> IF i = x[1] THEN NoNode
                                ELSE [m.nodes[i] EXCEPT !.links = @ \ {x[1]}]]]
    [] e.kind = "link" ->
         [m EXCEPT !.nodes[x[1]].links = @ \cup {x[2]}, !.nodes[x[2]].links = @ \cup {x[1]}]
    [] e.kind = "unlink" ->
         [m EXCEPT !.nodes[x[1]].links = @ \ {x[2]}, !.nodes[x[2]].links = @ \ {x[1]}]
    [] e.kind = "online" -> [m EXCEPT !.nodes[x[1]].online = x[2]]
    [] e.kind = "energy" -> [m EXCEPT !.nodes[x[1]].energy = x[2]]
    [] e.kind = "health" -> [m EXCEPT !.nodes[x[1]].health = x[2]]
    [] e.kind = "tick" ->
         [m EXCEPT !.nodes[x[1]].energy = x[2], !.nodes[x[1]].health = x[3]]
    [] e.kind = "duo_add" ->
         [m EXCEPT !.pairs = [id \in DOMAIN @ \cup {x[1]} |->
                                IF id = x[1] THEN MirroredPair(x[2], x[3], x[4]) ELSE @[id]]]
    [] e.kind = "duo_del" ->
         [m EXCEPT !.pairs = [id \in DOMAIN @ \ {x[1]} |-> @[id]]]
    [] e.kind = "duo_pulse" -> MirrorPulse(m, x[1], x[2], x[3], x[4])
    [] OTHER -> m

MirrorInit == Init /\ mirror = EmptyMirror

MirrorNext == Next /\ mirror' = FoldLeft(Heard, mirror, out'.events)

MirrorSpec == MirrorInit /\ [][MirrorNext]_mirrorVars

-----------------------------------------------------------------------------

\* The pair table as the client keeps it.
PairsById ==
  [id \in {pairs[k].id : k \in DOMAIN pairs} |->
     LET p == pairs[PairIndex(id)]
     IN  [a |-> p.a, b |-> p.b, mode |-> p.mode,
          energy |-> p.energy, pressure |-> p.pressure, last |-> p.last]]

\* After every handler the client's copy is the module's state: no handler
\* changes a node, a link or a pair without an event that tells it, pulses and
\* the two loading-time links included.
MirrorTracksCluster ==
  /\ mirror.nodes = nodes
  /\ mirror.pairs = PairsById
=============================================================================
