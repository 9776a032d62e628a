--------------------------- MODULE DawnHexCluster ---------------------------
(***************************************************************************)
(* The DawnHex cluster (dawnhex_kmod.c): the node table, the links, the    *)
(* duo pairs and their hooks.  Every handler runs with g_dawnhex.lock held *)
(* from its first read to its last write, so a handler is one action; the  *)
(* text commands and the ioctls reach the same *_locked helpers and share  *)
(* an action.  The tick timer, the two settings "interactive" and          *)
(* "tick_ms" and the lock itself are in DawnHexTick; the event ring that   *)
(* dh_emit_event_locked fills is in EventRing; here a handler leaves the   *)
(* events it emits, in order, in out.events.                               *)
(*                                                                         *)
(* Node names, which no handler compares or branches on, are left out.     *)
(* quotient_ppm and refraction_ppm are functions of mode, and active is    *)
(* TRUE for every pair in the table, so a pair keeps mode alone.           *)
(***************************************************************************)
EXTENDS Integers, FiniteSets, SequencesExt

CONSTANTS
  MaxNodes,       \* DAWNHEX_MAX_NODES
  MaxPairs,       \* DAWNHEX_DUO_MAX_PAIRS
  MaxPairId,      \* bound: pair ids are handed out up to this one (2^32 - 1)
  GenerationModulus, PulseModulus,   \* 2^32: both counters are u32
  MaxPpm,         \* 1000000
  TickGain, LinkGain, EnergyFloor,   \* 1000, 5000, 10000
  HealthDrop, HealthFloor,           \* 250, 250000
  ClientIds,      \* node ids clients name, out-of-range ones included
  OnlineInputs, EnergyInputs, HealthInputs, PulseInputs, Modes, Hooks

ASSUME NodesAssumption == MaxNodes \in Nat /\ MaxNodes >= 3
ASSUME PairsAssumption == MaxPairs \in Nat /\ MaxPairId \in Nat
ASSUME CounterAssumption ==
  /\ GenerationModulus \in Nat \ {0}
  /\ PulseModulus \in Nat \ {0}
ASSUME PpmAssumption ==
  /\ MaxPpm \in Nat /\ TickGain \in Nat /\ LinkGain \in Nat
  /\ EnergyFloor \in 0..MaxPpm
  /\ HealthDrop \in Nat /\ HealthFloor \in Nat /\ HealthDrop <= HealthFloor
ASSUME InputsAssumption ==
  /\ ClientIds \subseteq Nat
  /\ OnlineInputs \subseteq BOOLEAN
  /\ EnergyInputs \subseteq Nat /\ HealthInputs \subseteq Nat
  /\ PulseInputs \subseteq Nat

VARIABLES
  nodes,       \* g_dawnhex.nodes
  pairs,       \* g_dawnhex.duo.pairs[0 .. pair_count - 1]
  nextPairId,  \* g_dawnhex.duo.next_pair_id
  hooks,       \* g_dawnhex.duo.hooks, in list order
  generation,  \* g_dawnhex.generation
  seeded,      \* dawnhex_init has added the default nodes
  out          \* what the last handler returned, emitted, and told the hooks

vars == <<nodes, pairs, nextPairId, hooks, generation, seeded, out>>

-----------------------------------------------------------------------------
(* Data                                                                    *)

Ids == 0 .. MaxNodes - 1
Ppm == 0 .. MaxPpm

Node == [present : BOOLEAN, online : BOOLEAN,
         energy : Ppm, health : Ppm, links : SUBSET Ids]

\* A slot after memset.
NoNode == [present |-> FALSE, online |-> FALSE,
           energy |-> 0, health |-> 0, links |-> {}]

\* A node as dh_add_node_locked leaves it.
FreshNode == [present |-> TRUE, online |-> TRUE,
              energy |-> MaxPpm \div 2, health |-> MaxPpm, links |-> {}]

\* A pair; ladder is the <<energy, pressure>> its simplex was computed from.
Pair == [id : 1 .. MaxPairId, a : Ids, b : Ids, mode : Modes,
         energy : Ppm, pressure : Ppm,
         pulses : 0 .. PulseModulus - 1, last : Ppm, ladder : Ppm \X Ppm]

ReturnCodes == {"OK", "EINVAL", "EEXIST", "ENOENT", "ENOSPC"}

Event(kind, arg) == [kind |-> kind, arg |-> arg]

Clamp(v, lo, hi) == IF v < lo THEN lo ELSE IF v > hi THEN hi ELSE v

Bumped(counter, modulus) == (counter + 1) % modulus

Mean(x, y) == (x + y) \div 2

\* The ids in a set in rising order, as a loop over the table meets them.
InOrder(S) ==
  [k \in 1 .. Cardinality(S) |->
     CHOOSE i \in S : Cardinality({j \in S : j <= i}) = k]

Present(id) == id \in Ids /\ nodes[id].present

-----------------------------------------------------------------------------
(* How a handler ends                                                      *)

\* An early return: nothing is written and nothing is emitted.
Fail(code) ==
  /\ out' = [ret |-> code, events |-> <<>>, calls |-> <<>>]
  /\ UNCHANGED <<nodes, pairs, nextPairId, hooks, generation, seeded>>

\* A return of 0 by a handler that called dh_emit_event_locked.
Succeed(events) == out' = [ret |-> "OK", events |-> events, calls |-> <<>>]

\* Mutant: the node table changes under an unchanged generation.
CommitWithoutBump(table, events) ==
  /\ nodes' = table
  /\ Succeed(events)
  /\ UNCHANGED <<pairs, nextPairId, hooks, generation, seeded>>

\* The node handlers write the table, bump the generation and emit.
Commit(table, events) ==
  /\ nodes' = table
  /\ generation' = Bumped(generation, GenerationModulus)
  /\ Succeed(events)
  /\ UNCHANGED <<pairs, nextPairId, hooks, seeded>>

-----------------------------------------------------------------------------
(* Nodes and links                                                         *)

\* The node table with a node added, unless its id is taken.
WithNode(table, id) ==
  IF table[id].present THEN table ELSE [table EXCEPT ![id] = FreshNode]

\* Mutant: only the first node learns of the link.
WithHalfLink(table, a, b) == [table EXCEPT ![a].links = @ \cup {b}]

\* The node table with both halves of a link set.
WithLink(table, a, b) ==
  [table EXCEPT ![a].links = @ \cup {b}, ![b].links = @ \cup {a}]

\* The node table with both halves of a link cleared.
WithoutLink(table, a, b) ==
  [table EXCEPT ![a].links = @ \ {b}, ![b].links = @ \ {a}]

\* Mutant: the deleted node's bit stays in its neighbours' masks.
WithoutNodeOnly(table, id) == [table EXCEPT ![id] = NoNode]

\* The node table with a node deleted: its bit leaves every mask.
WithoutNode(table, id) ==
  [i \in Ids |-> IF i = id THEN NoNode
                 ELSE [table[i] EXCEPT !.links = @ \ {id}]]

AddNode(id) ==
  \/ /\ id \notin Ids
     /\ Fail("EINVAL")
  \/ /\ Present(id)
     /\ Fail("EEXIST")
  \/ /\ id \in Ids
     /\ ~Present(id)
     /\ Commit(WithNode(nodes, id), <<Event("add", <<id>>)>>)

DelNode(id) ==
  \/ /\ id \notin Ids
     /\ Fail("EINVAL")
  \/ /\ id \in Ids
     /\ ~Present(id)
     /\ Fail("ENOENT")
  \/ /\ Present(id)
     /\ Commit(WithoutNode(nodes, id), <<Event("del", <<id>>)>>)

Link(a, b, enable) ==
  \/ /\ a = b
     /\ Fail("EINVAL")
  \/ /\ a # b
     /\ ~(Present(a) /\ Present(b))
     /\ Fail("ENOENT")
  \/ /\ a # b
     /\ Present(a) /\ Present(b)
     /\ \/ /\ enable
           /\ Commit(WithLink(nodes, a, b), <<Event("link", <<a, b>>)>>)
        \/ /\ ~enable
           /\ Commit(WithoutLink(nodes, a, b), <<Event("unlink", <<a, b>>)>>)

\* The commands "online", "energy" and "health" share one shape: look the
\* node up, write one field, bump the generation, emit.
SetField(id, table, kind, value) ==
  \/ /\ ~Present(id)
     /\ Fail("ENOENT")
  \/ /\ Present(id)
     /\ Commit(table, <<Event(kind, <<id, value>>)>>)

SetOnline(id, on) ==
  SetField(id, [nodes EXCEPT ![id].online = on], "online", on)

\* Mutant: the event carries the value asked for, not the one stored.
SetEnergyEchoingInput(id, v) ==
  SetField(id, [nodes EXCEPT ![id].energy = Clamp(v, 0, MaxPpm)], "energy", v)

SetEnergy(id, v) ==
  LET value == Clamp(v, 0, MaxPpm)
  IN  SetField(id, [nodes EXCEPT ![id].energy = value], "energy", value)

SetHealth(id, v) ==
  LET value == Clamp(v, 0, MaxPpm)
  IN  SetField(id, [nodes EXCEPT ![id].health = value], "health", value)

\* dawnhex_init after misc_register: clients may have run before it, and the
\* return codes of the five calls are ignored.
DefaultIds == {0, 1, 2}

\* Mutant: the first failing call ends the seeding.
SeededTableUntilError ==
  IF Present(0) \/ Present(1) \/ Present(2)
  THEN WithNode(nodes, 0)
  ELSE WithLink(WithLink(WithNode(WithNode(WithNode(nodes, 0), 1), 2), 0, 1), 0, 2)

SeededTable ==
  LET added == WithNode(WithNode(WithNode(nodes, 0), 1), 2)
  IN  WithLink(WithLink(added, 0, 1), 0, 2)

Seed ==
  LET missing == {i \in DefaultIds : ~Present(i)}
      order == InOrder(missing)
  IN  /\ ~seeded
      /\ seeded' = TRUE
      /\ nodes' = SeededTable
      /\ generation' = (generation + Cardinality(missing) + 2) % GenerationModulus
      /\ Succeed([k \in DOMAIN order |-> Event("add", <<order[k]>>)]
                   \o <<Event("link", <<0, 1>>), Event("link", <<0, 2>>)>>)
      /\ UNCHANGED <<pairs, nextPairId, hooks>>

-----------------------------------------------------------------------------
(* Ticks                                                                   *)

Ticking(id) == nodes[id].present /\ nodes[id].online

TickedNode(n) ==
  [n EXCEPT !.energy = Clamp(@ + TickGain + LinkGain * Cardinality(n.links),
                             EnergyFloor, MaxPpm),
            !.health = IF @ > HealthFloor THEN @ - HealthDrop ELSE @]

\* dh_tick_once_locked, from the timer, the command "tick" or IOC_STEP.
Tick ==
  LET order == InOrder({i \in Ids : Ticking(i)})
      table == [i \in Ids |-> IF Ticking(i) THEN TickedNode(nodes[i]) ELSE nodes[i]]
  IN  Commit(table, [k \in DOMAIN order |->
                       Event("tick", <<order[k], table[order[k]].energy,
                                       table[order[k]].health>>)])

-----------------------------------------------------------------------------
(* Duo pairs                                                               *)

\* The index of the first pair with this id, 0 when there is none.
PairIndex(id) == SelectInSeq(pairs, LAMBDA p : p.id = id)

\* dh_duo_recompute_simplex_locked: the ladder becomes a function of the
\* energy and pressure the pair has at the call.
WithLadder(p) == [p EXCEPT !.ladder = <<p.energy, p.pressure>>]

\* Mutant: the id is taken from the number of pairs in the table.
NewPairIdFromCount == Len(pairs) + 1

\* ++next_pair_id
NewPairId == nextPairId + 1

NewPair(a, b, mode) ==
  WithLadder([id |-> NewPairId, a |-> a, b |-> b, mode |-> mode,
              energy |-> MaxPpm \div 2, pressure |-> MaxPpm \div 2,
              pulses |-> 0, last |-> 0, ladder |-> <<0, 0>>])

AddPair(a, b, mode) ==
  \/ /\ Len(pairs) >= MaxPairs
     /\ Fail("ENOSPC")
  \/ /\ Len(pairs) < MaxPairs
     /\ a = b
     /\ Fail("EINVAL")
  \/ /\ Len(pairs) < MaxPairs
     /\ a # b
     /\ ~(Present(a) /\ Present(b))
     /\ Fail("ENOENT")
  \/ /\ Len(pairs) < MaxPairs
     /\ a # b
     /\ Present(a) /\ Present(b)
     /\ nextPairId < MaxPairId
     /\ nextPairId' = NewPairId
     /\ pairs' = Append(pairs, NewPair(a, b, mode))
     /\ Succeed(<<Event("duo_add", <<NewPairId, a, b, mode>>)>>)
     /\ UNCHANGED <<nodes, hooks, generation, seeded>>

\* memmove over the deleted pair; the nodes are not touched, and nothing
\* deletes the pairs of a deleted node.
DelPair(id) ==
  \/ /\ PairIndex(id) = 0
     /\ Fail("ENOENT")
  \/ /\ PairIndex(id) # 0
     /\ pairs' = RemoveAt(pairs, PairIndex(id))
     /\ Succeed(<<Event("duo_del", <<id>>)>>)
     /\ UNCHANGED <<nodes, nextPairId, hooks, generation, seeded>>

\* Mutant: the ladder is recomputed before energy and pressure change.
PulsedPairLadderFirst(p, na, nb, value) ==
  [WithLadder(p) EXCEPT
    !.last = value,
    !.pulses = Bumped(@, PulseModulus),
    !.energy = Clamp(Mean(Mean(na.energy, nb.energy), value), 0, MaxPpm),
    !.pressure = Clamp(Mean(Mean(na.health, nb.health), MaxPpm - value), 0, MaxPpm)]

\* The pair after a pulse of value ppm between nodes with these fields.
PulsedPair(p, na, nb, value) ==
  WithLadder([p EXCEPT
    !.last = value,
    !.pulses = Bumped(@, PulseModulus),
    !.energy = Clamp(Mean(Mean(na.energy, nb.energy), value), 0, MaxPpm),
    !.pressure = Clamp(Mean(Mean(na.health, nb.health), MaxPpm - value), 0, MaxPpm)])

\* Mutant: the pair's energy is added to the node's instead of averaged in.
FedBackBySum(n, energy) == [n EXCEPT !.energy = Clamp(@ + energy \div 2, 0, MaxPpm)]

\* A pulse feeds the pair's energy back into an endpoint.
FedBack(n, energy) == [n EXCEPT !.energy = Clamp(Mean(@, energy), 0, MaxPpm)]

\* What dh_duo_emit_hooks_locked passes to one hook.
HookCall(hook, p) == [hook |-> hook, pair |-> p.id, value |-> p.last,
                      energy |-> p.energy, pressure |-> p.pressure,
                      ladder |-> p.ladder]

Pulse(id, v) ==
  LET k == PairIndex(id)
      old == pairs[k]
      new == PulsedPair(old, nodes[old.a], nodes[old.b], Clamp(v, 0, MaxPpm))
  IN  \/ /\ k = 0
         /\ Fail("ENOENT")
      \/ /\ k # 0
         /\ ~(Present(old.a) /\ Present(old.b))
         /\ Fail("ENOENT")
      \/ /\ k # 0
         /\ Present(old.a) /\ Present(old.b)
         /\ pairs' = [pairs EXCEPT ![k] = new]
         /\ nodes' = [nodes EXCEPT ![old.a] = FedBack(@, new.energy),
                                   ![old.b] = FedBack(@, new.energy)]
         /\ out' = [ret |-> "OK",
                    events |-> <<Event("duo_pulse", <<id, new.last, new.energy, new.pressure>>)>>,
                    calls |-> [i \in DOMAIN hooks |-> HookCall(hooks[i], new)]]
         /\ UNCHANGED <<nextPairId, hooks, generation, seeded>>

\* dawnhex_duo_hook_register; a hook already in the list may not be added
\* again (list_add_tail would corrupt the list), which is the caller's duty.
RegisterHook(hook) ==
  /\ hook \notin ToSet(hooks)
  /\ hooks' = Append(hooks, hook)
  /\ Succeed(<<Event("duo_hook_register", <<hook>>)>>)
  /\ UNCHANGED <<nodes, pairs, nextPairId, generation, seeded>>

\* dawnhex_duo_hook_unregister; list_del_init leaves the node of a hook such
\* that taking it out again, or before it was ever in (its owner initialised
\* it), leaves the list alone; the event is emitted all the same.
UnregisterHook(hook) ==
  /\ hooks' = RemoveFirst(hooks, hook)
  /\ Succeed(<<Event("duo_hook_unregister", <<hook>>)>>)
  /\ UNCHANGED <<nodes, pairs, nextPairId, generation, seeded>>

-----------------------------------------------------------------------------
(* Reading the cluster                                                     *)

NodeCount == Cardinality({i \in Ids : nodes[i].present})

\* Every link is in two masks.
LinkCount ==
  MapThenSumSet(LAMBDA i : IF nodes[i].present THEN Cardinality(nodes[i].links) ELSE 0,
                Ids) \div 2

\* The commands "snapshot", "duo snapshot" and "help" only emit.
Report ==
  /\ \/ Succeed(<<Event("snapshot", <<generation, NodeCount, LinkCount>>)>>)
     \/ Succeed(<<Event("duo_snapshot", <<Len(pairs)>>)>>)
     \/ Succeed(<<Event("help", <<>>)>>)
  /\ UNCHANGED <<nodes, pairs, nextPairId, hooks, generation, seeded>>

-----------------------------------------------------------------------------
(* The module from misc_register on                                        *)

Init ==
  /\ nodes = [i \in Ids |-> NoNode]
  /\ pairs = <<>>
  /\ nextPairId = 0
  /\ hooks = <<>>
  /\ generation = 0
  /\ seeded = FALSE
  /\ out = [ret |-> "OK", events |-> <<>>, calls |-> <<>>]

NodeCommand ==
  \E id \in ClientIds :
    \/ AddNode(id)
    \/ DelNode(id)
    \/ \E on \in OnlineInputs : SetOnline(id, on)
    \/ \E v \in EnergyInputs : SetEnergy(id, v)
    \/ \E v \in HealthInputs : SetHealth(id, v)

LinkCommand ==
  \E a, b \in ClientIds, enable \in BOOLEAN : Link(a, b, enable)

DuoCommand ==
  \/ \E a, b \in ClientIds, mode \in Modes : AddPair(a, b, mode)
  \/ \E id \in 0 .. MaxPairId : DelPair(id)
  \/ \E id \in 0 .. MaxPairId, v \in PulseInputs : Pulse(id, v)
  \/ \E hook \in Hooks : RegisterHook(hook) \/ UnregisterHook(hook)

Next == Seed \/ Tick \/ NodeCommand \/ LinkCommand \/ DuoCommand \/ Report

Spec == Init /\ [][Next]_vars

-----------------------------------------------------------------------------
(* Properties                                                              *)

\* Every field keeps its range: ppm values stay within 0..MaxPpm whatever
\* ticks, pulses and commands do to them, and the pair table its capacity.
TypeOK ==
  /\ nodes \in [Ids -> Node]
  /\ pairs \in Seq(Pair)
  /\ Len(pairs) <= MaxPairs
  /\ nextPairId \in 0 .. MaxPairId
  /\ hooks \in Seq(Hooks)
  /\ generation \in 0 .. GenerationModulus - 1
  /\ seeded \in BOOLEAN
  /\ out.ret \in ReturnCodes

\* The masks are an undirected graph on the present nodes: symmetric, without
\* loops, and an absent slot is all zero, so a node added later under the same
\* id starts without links.
LinksWellFormed ==
  /\ \A i \in Ids : ~nodes[i].present => nodes[i] = NoNode
  /\ \A i \in Ids : i \notin nodes[i].links
  /\ \A i, j \in Ids : j \in nodes[i].links => i \in nodes[j].links

\* Ids rise strictly along the pair table and none is above next_pair_id, so
\* a lookup, which stops at the first match, finds the only pair of that id;
\* no pair joins a node to itself.
PairTableOrdered ==
  /\ \A k \in DOMAIN pairs : pairs[k].id <= nextPairId /\ pairs[k].a # pairs[k].b
  /\ \A j, k \in DOMAIN pairs : j < k => pairs[j].id < pairs[k].id

\* The simplex ladder stored with a pair, and the summary of it that a hook is
\* given, was computed from the energy and pressure stored and given with it.
LadderFresh ==
  /\ \A k \in DOMAIN pairs : pairs[k].ladder = <<pairs[k].energy, pairs[k].pressure>>
  /\ \A k \in DOMAIN out.calls :
       out.calls[k].ladder = <<out.calls[k].energy, out.calls[k].pressure>>

\* A pair id that was deleted never names another pair.
NoPairIdReuse ==
  [][\A k \in DOMAIN pairs' :
       \/ pairs'[k].id > nextPairId
       \/ \E j \in DOMAIN pairs : /\ pairs[j].id = pairs'[k].id
                                  /\ pairs[j].a = pairs'[k].a
                                  /\ pairs[j].b = pairs'[k].b]_vars

\* GET_CLUSTER returns the node table with a generation: the table changes
\* only together with the generation.  The exception the code makes is a
\* pulse, whose feedback moves the energy of two nodes and nothing else.  The
\* seeding, five handlers in one action here, bumps the generation two to five
\* times, which only the small modulus of a model can hide.
GenerationCoversNodes ==
  [][\/ nodes' = nodes
     \/ generation' # generation
     \/ ~seeded /\ seeded'
     \/ \E k \in DOMAIN pairs :
          /\ pairs' # pairs /\ Len(pairs') = Len(pairs)
          /\ nodes' = [nodes EXCEPT ![pairs[k].a].energy = nodes'[pairs[k].a].energy,
                                    ![pairs[k].b].energy = nodes'[pairs[k].b].energy]]_vars

\* Loading ends with the default nodes present and 0 linked to 1 and 2, even
\* though /dev/dawnhex is open to clients first and their adds may collide.
SeedEstablishesDefaults ==
  [][~seeded /\ seeded' => /\ \A i \in DefaultIds : nodes'[i].present
                           /\ {1, 2} \subseteq nodes'[0].links
                           /\ 0 \in nodes'[1].links \cap nodes'[2].links]_vars

Gap(x, y) == IF x < y THEN y - x ELSE x - y

\* A pulse draws the energies of its two endpoints together: their gap is at
\* most halved upwards, so pulses alone can never drive two nodes apart.
PulseContracts ==
  [][\A k \in DOMAIN pairs :
       /\ Len(pairs') = Len(pairs)
       /\ pairs'[k].pulses # pairs[k].pulses
       => LET a == pairs[k].a
              b == pairs[k].b
          IN  2 * Gap(nodes'[a].energy, nodes'[b].energy)
                <= Gap(nodes[a].energy, nodes[b].energy) + 1]_vars

\* The node table implements the undirected graph of ClusterGraph, and the
\* link count that GET_CLUSTER, summary and "snapshot" report, half the set bits
\* of all masks, is the number of its edges.
Graph == INSTANCE ClusterGraph WITH
  vertices <- {i \in Ids : nodes[i].present},
  edges <- UNION {{{i, j} : j \in nodes[i].links} : i \in Ids},
  size <- LinkCount,
  DefaultEdges <- {{0, 1}, {0, 2}}

ImplementsGraph == Graph!Spec
=============================================================================
