----------------------- MODULE DawnHexCluster_proofs -----------------------
(***************************************************************************)
(* Proofs about DawnHexCluster, for every number of nodes and pairs, every *)
(* ppm range and every set of clients, modes and hooks that the module's   *)
(* assumptions admit.                                                      *)
(*                                                                         *)
(* The inductive invariant is Inv: the types, the shape of the links, the  *)
(* order of the pair table and the freshness of the ladders.  The types    *)
(* alone are inductive; the order of the pair table is what makes a pulse  *)
(* touch two different nodes.                                              *)
(***************************************************************************)
EXTENDS DawnHexCluster, FiniteSetTheorems, SequenceTheorems, WellFoundedInduction, TLAPS

\* LinksWellFormed, of any node table.
WellFormed(t) ==
  /\ \A i \in Ids : ~t[i].present => t[i] = NoNode
  /\ \A i \in Ids : i \notin t[i].links
  /\ \A i, j \in Ids : j \in t[i].links => i \in t[j].links

NodeTable == {t \in [Ids -> Node] : WellFormed(t)}

Inv == TypeOK /\ LinksWellFormed /\ PairTableOrdered /\ LadderFresh

-----------------------------------------------------------------------------
(* Numbers                                                                 *)

\* A clamped value is within the limits.
LEMMA ClampType ==
  ASSUME NEW v \in Int, NEW lo \in Int, NEW hi \in Int, lo <= hi
  PROVE  Clamp(v, lo, hi) \in lo .. hi
  BY DEF Clamp

LEMMA ClampToPpm ==
  ASSUME NEW v \in Int
  PROVE  Clamp(v, 0, MaxPpm) \in Ppm
<1>1. 0 \in Int /\ MaxPpm \in Int /\ 0 <= MaxPpm
  BY PpmAssumption
<1> QED
  BY <1>1, ClampType DEF Ppm

\* The mean of two ppm values is one, however it is rounded.
LEMMA MeanType ==
  ASSUME NEW x \in Ppm, NEW y \in Ppm
  PROVE  Mean(x, y) \in Ppm
  BY PpmAssumption DEF Mean, Ppm

\* Averaging the same value into two others brings those together.
LEMMA MeanContracts ==
  ASSUME NEW x \in Ppm, NEW y \in Ppm, NEW e \in Ppm
  PROVE  2 * Gap(Mean(x, e), Mean(y, e)) <= Gap(x, y) + 1
  BY PpmAssumption DEF Mean, Gap, Ppm

\* A wrapping counter stays below its modulus.
LEMMA WrapType ==
  ASSUME NEW v \in Int, NEW m \in Nat \ {0}
  PROVE  v % m \in 0 .. m - 1
  OBVIOUS

-----------------------------------------------------------------------------
(* Node tables                                                             *)

LEMMA NodeConstants == FreshNode \in Node /\ NoNode \in Node
  BY PpmAssumption DEF FreshNode, NoNode, Node, Ppm

LEMMA DefaultIdsAreIds == DefaultIds \subseteq Ids
  BY NodesAssumption DEF DefaultIds, Ids

\* Adding a node yields a well-formed table.
LEMMA WithNodeGood ==
  ASSUME NEW t \in NodeTable, NEW id \in Ids
  PROVE  WithNode(t, id) \in NodeTable
<1>1. t \in [Ids -> Node] /\ WellFormed(t)
  BY DEF NodeTable
<1>2. CASE t[id].present
  BY <1>2 DEF WithNode
<1>3. CASE ~t[id].present
  <2> DEFINE u == [t EXCEPT ![id] = FreshNode]
  <2>1. t[id].links = {}
    BY <1>1, <1>3 DEF WellFormed, NoNode
  <2>2. /\ u \in [Ids -> Node]
        /\ u[id].present
        /\ \A i \in Ids : u[i].links = t[i].links
        /\ \A i \in Ids \ {id} : u[i] = t[i]
    BY <1>1, <2>1, NodeConstants DEF FreshNode
  <2> HIDE DEF u
  <2>3. WellFormed(u)
    BY <1>1, <2>2 DEF WellFormed
  <2> QED
    BY <1>3, <2>2, <2>3 DEF WithNode, NodeTable, u
<1> QED
  BY <1>2, <1>3

\* After an add the node is there, and no other node has changed.
LEMMA WithNodePresent ==
  ASSUME NEW t \in NodeTable, NEW id \in Ids
  PROVE  \A i \in Ids : WithNode(t, id)[i].present = (i = id \/ t[i].present)
  BY DEF WithNode, NodeTable, FreshNode, Node

\* Replacing the links of a node.
LEMMA Relinked ==
  ASSUME NEW n \in Node, NEW links \in SUBSET Ids
  PROVE  /\ [n EXCEPT !.links = links] \in Node
         /\ [n EXCEPT !.links = links].present = n.present
         /\ [n EXCEPT !.links = links].links = links
  BY DEF Node

\* Linking two present nodes yields a well-formed table.
LEMMA WithLinkGood ==
  ASSUME NEW t \in NodeTable, NEW a \in Ids, NEW b \in Ids, a # b,
         t[a].present, t[b].present
  PROVE  /\ WithLink(t, a, b) \in NodeTable
         /\ \A i \in Ids : WithLink(t, a, b)[i].present = t[i].present
         /\ \A i \in Ids : t[i].links \subseteq WithLink(t, a, b)[i].links
         /\ b \in WithLink(t, a, b)[a].links
         /\ a \in WithLink(t, a, b)[b].links
<1> DEFINE A == t[a].links \cup {b}
           B == t[b].links \cup {a}
           na == [t[a] EXCEPT !.links = A]
           nb == [t[b] EXCEPT !.links = B]
           u == WithLink(t, a, b)
<1>1. t \in [Ids -> Node] /\ t[a] \in Node /\ t[b] \in Node
  BY DEF NodeTable
<1>2. A \in SUBSET Ids /\ B \in SUBSET Ids
  BY <1>1 DEF Node
<1>3. /\ na \in Node /\ na.present = t[a].present /\ na.links = A
      /\ nb \in Node /\ nb.present = t[b].present /\ nb.links = B
  BY <1>1, <1>2, Relinked
<1>4. u = [i \in Ids |-> IF i = a THEN na ELSE IF i = b THEN nb ELSE t[i]]
  BY <1>1 DEF WithLink
<1> HIDE DEF na, nb, u
<1>5. u \in [Ids -> Node] /\ \A i \in Ids : u[i].present = t[i].present
  BY <1>1, <1>3, <1>4
<1>6. WellFormed(u)
  BY <1>1, <1>3, <1>4, <1>5 DEF NodeTable, WellFormed
<1> QED
  BY <1>1, <1>3, <1>4, <1>5, <1>6 DEF NodeTable, u

\* Unlinking two nodes yields a well-formed table.
LEMMA WithoutLinkGood ==
  ASSUME NEW t \in NodeTable, NEW a \in Ids, NEW b \in Ids, a # b,
         t[a].present, t[b].present
  PROVE  WithoutLink(t, a, b) \in NodeTable
<1> DEFINE A == t[a].links \ {b}
           B == t[b].links \ {a}
           na == [t[a] EXCEPT !.links = A]
           nb == [t[b] EXCEPT !.links = B]
           u == WithoutLink(t, a, b)
<1>1. t \in [Ids -> Node] /\ t[a] \in Node /\ t[b] \in Node
  BY DEF NodeTable
<1>2. A \in SUBSET Ids /\ B \in SUBSET Ids
  BY <1>1 DEF Node
<1>3. /\ na \in Node /\ na.present = t[a].present /\ na.links = A
      /\ nb \in Node /\ nb.present = t[b].present /\ nb.links = B
  BY <1>1, <1>2, Relinked
<1>4. u = [i \in Ids |-> IF i = a THEN na ELSE IF i = b THEN nb ELSE t[i]]
  BY <1>1 DEF WithoutLink
<1> HIDE DEF na, nb, u
<1>5. u \in [Ids -> Node] /\ \A i \in Ids : u[i].present = t[i].present
  BY <1>1, <1>3, <1>4
<1>6. WellFormed(u)
  BY <1>1, <1>3, <1>4, <1>5 DEF NodeTable, WellFormed
<1> QED
  BY <1>5, <1>6 DEF NodeTable, u

\* Deleting a node yields a well-formed table, and its bit leaves every mask.
LEMMA WithoutNodeGood ==
  ASSUME NEW t \in NodeTable, NEW id \in Ids
  PROVE  WithoutNode(t, id) \in NodeTable
<1> DEFINE n(i) == [t[i] EXCEPT !.links = t[i].links \ {id}]
           u == WithoutNode(t, id)
<1>1. t \in [Ids -> Node] /\ WellFormed(t)
  BY DEF NodeTable
<1>2. ASSUME NEW i \in Ids
      PROVE  n(i) \in Node /\ n(i).present = t[i].present /\ n(i).links = t[i].links \ {id}
  <2>1. t[i] \in Node /\ t[i].links \ {id} \in SUBSET Ids
    BY <1>1 DEF Node
  <2> QED
    BY <2>1, Relinked
<1>3. u = [i \in Ids |-> IF i = id THEN NoNode ELSE n(i)]
  BY DEF WithoutNode
<1>4. ASSUME NEW i \in Ids, ~t[i].present
      PROVE  n(i) = NoNode
  <2>1. t[i] = NoNode
    BY <1>1, <1>4 DEF WellFormed
  <2> QED
    BY <2>1 DEF NoNode
<1> HIDE DEF n, u
<1>5. /\ \A i \in Ids : u[i] = IF i = id THEN NoNode ELSE n(i)
      /\ u \in [Ids -> Node]
  BY <1>2, <1>3, NodeConstants
<1>6. NoNode.links = {} /\ ~NoNode.present
  BY DEF NoNode
<1>7. \A i, j \in Ids : j \in u[i].links <=> i # id /\ j # id /\ j \in t[i].links
  BY <1>2, <1>5, <1>6
<1>8. \A i \in Ids : ~u[i].present => u[i] = NoNode
  BY <1>2, <1>4, <1>5, <1>6
<1>9. WellFormed(u)
  BY <1>1, <1>7, <1>8 DEF WellFormed
<1> QED
  BY <1>5, <1>9 DEF NodeTable, u

\* Writing any other fields of present nodes yields a well-formed table.
LEMMA RewrittenGood ==
  ASSUME NEW t \in NodeTable, NEW u \in [Ids -> Node],
         \A i \in Ids : u[i].links = t[i].links /\ u[i].present = t[i].present,
         \A i \in Ids : ~t[i].present => u[i] = t[i]
  PROVE  u \in NodeTable
  BY DEF NodeTable, WellFormed

\* A tick leaves links and presence alone and every ppm value in range.
LEMMA TickedNodeType ==
  ASSUME NEW n \in Node
  PROVE  /\ TickedNode(n) \in Node
         /\ TickedNode(n).links = n.links
         /\ TickedNode(n).present = n.present
<1> DEFINE gained == n.energy + TickGain + LinkGain * Cardinality(n.links)
           energy == Clamp(gained, EnergyFloor, MaxPpm)
           health == IF n.health > HealthFloor THEN n.health - HealthDrop ELSE n.health
<1>1. Cardinality(n.links) \in Nat
  <2>1. IsFiniteSet(Ids)
    BY NodesAssumption, FS_Interval DEF Ids
  <2>2. n.links \in SUBSET Ids
    BY DEF Node
  <2> QED
    BY <2>1, <2>2, FS_Subset, FS_CardinalityType
<1>2. gained \in Int
  <2>1. LinkGain * Cardinality(n.links) \in Nat
    BY <1>1, PpmAssumption
  <2> QED
    BY <2>1, PpmAssumption DEF Node, Ppm
<1> HIDE DEF gained
<1>3. energy \in Ppm
  <2>1. EnergyFloor \in Int /\ MaxPpm \in Int /\ EnergyFloor <= MaxPpm /\ EnergyFloor >= 0
    BY PpmAssumption
  <2>2. energy \in EnergyFloor .. MaxPpm
    BY <1>2, <2>1, ClampType
  <2> QED
    BY <2>1, <2>2 DEF Ppm
<1>4. health \in Ppm
  BY PpmAssumption DEF Node, Ppm
<1>5. TickedNode(n) = [n EXCEPT !.energy = energy, !.health = health]
  BY DEF TickedNode, gained
<1> HIDE DEF energy, health
<1> QED
  BY <1>3, <1>4, <1>5 DEF Node

-----------------------------------------------------------------------------
(* Pair tables                                                             *)

\* A non-empty set of natural numbers has a least element.
LEMMA MinExists ==
  ASSUME NEW S \in SUBSET Nat, S # {}
  PROVE  Min(S) \in S /\ \A y \in S : Min(S) <= y
<1> DEFINE R == OpToRel(<, Nat)
<1>1. IsWellFoundedOn(R, Nat)
  BY NatLessThanWellFounded
<1>2. \A x, y \in Nat : <<x, y>> \in R <=> x < y
  BY DEF OpToRel
<1> HIDE DEF R
<1>3. PICK x \in S : \A y \in S : ~(<<y, x>> \in R)
  BY <1>1, WFMin
<1>4. \A y \in S : x <= y
  <2> TAKE y \in S
  <2>1. x \in Nat /\ y \in Nat /\ ~(<<y, x>> \in R)
    BY <1>3
  <2>2. ~(y < x)
    BY <2>1, <1>2, Zenon
  <2> QED
    BY <2>1, <2>2
<1> QED
  BY <1>4 DEF Min

\* A sequence with one element taken out.
LEMMA RemoveAtProperties ==
  ASSUME NEW S, NEW s \in Seq(S), NEW k \in 1 .. Len(s)
  PROVE  /\ RemoveAt(s, k) \in Seq(S)
         /\ Len(RemoveAt(s, k)) = Len(s) - 1
         /\ \A i \in 1 .. Len(s) - 1 :
              RemoveAt(s, k)[i] = IF i < k THEN s[i] ELSE s[i + 1]
<1> DEFINE l == SubSeq(s, 1, k - 1)
           r == SubSeq(s, k + 1, Len(s))
<1>1. Len(s) \in Nat /\ k \in Int /\ \A i \in 1 .. Len(s) : s[i] \in S
  BY ElementOfSeq, LenProperties
<1>2. /\ l \in Seq(S)
      /\ Len(l) = k - 1
      /\ \A i \in 1 .. k - 1 : l[i] = s[i]
  <2>1. \A i \in 1 .. k - 1 : s[i] \in S
    BY <1>1
  <2>2. /\ l \in Seq(S)
        /\ Len(l) = IF 1 <= k - 1 THEN (k - 1) - 1 + 1 ELSE 0
        /\ \A i \in 1 .. (k - 1) - 1 + 1 : l[i] = s[1 + i - 1]
    BY <1>1, <2>1, SubSeqProperties
  <2> QED
    BY <1>1, <2>2
<1>3. /\ r \in Seq(S)
      /\ Len(r) = Len(s) - k
      /\ \A i \in 1 .. Len(s) - k : r[i] = s[k + i]
  <2>1. \A i \in k + 1 .. Len(s) : s[i] \in S
    BY <1>1
  <2>2. /\ r \in Seq(S)
        /\ Len(r) = IF k + 1 <= Len(s) THEN Len(s) - (k + 1) + 1 ELSE 0
        /\ \A i \in 1 .. Len(s) - (k + 1) + 1 : r[i] = s[(k + 1) + i - 1]
    BY <1>1, <2>1, SubSeqProperties
  <2> QED
    BY <1>1, <2>2
<1> HIDE DEF l, r
<1> DEFINE w == l \o r
<1>4. /\ w \in Seq(S)
      /\ Len(w) = Len(l) + Len(r)
      /\ \A i \in 1 .. Len(l) + Len(r) : w[i] = IF i <= Len(l) THEN l[i] ELSE r[i - Len(l)]
  BY <1>2, <1>3, ConcatProperties
<1>5. RemoveAt(s, k) = w
  BY DEF RemoveAt, l, r
<1> HIDE DEF w
<1>6. Len(l) + Len(r) = Len(s) - 1
  BY <1>1, <1>2, <1>3
<1>7. ASSUME NEW i \in 1 .. Len(s) - 1
      PROVE  w[i] = IF i < k THEN s[i] ELSE s[i + 1]
  <2>1. w[i] = IF i <= k - 1 THEN l[i] ELSE r[i - (k - 1)]
    BY <1>2, <1>4, <1>6
  <2>2. CASE i < k
    BY <1>1, <1>2, <2>1, <2>2
  <2>3. CASE i >= k
    <3>1. i - (k - 1) \in 1 .. Len(s) - k /\ k + (i - (k - 1)) = i + 1
      BY <1>1, <2>3
    <3>2. r[i - (k - 1)] = s[i + 1]
      BY <1>3, <3>1
    <3> QED
      BY <1>1, <2>1, <2>3, <3>2
  <2> QED
    BY <1>1, <2>2, <2>3
<1> QED
  BY <1>4, <1>5, <1>6, <1>7

\* A lookup that finds a pair finds one with the id it looked for.
LEMMA PairIndexFinds ==
  ASSUME pairs \in Seq(Pair), NEW id, PairIndex(id) # 0
  PROVE  PairIndex(id) \in 1 .. Len(pairs) /\ pairs[PairIndex(id)].id = id
<1> DEFINE I == {i \in 1 .. Len(pairs) : pairs[i].id = id}
<1>1. PairIndex(id) = IF I # {} THEN Min(I) ELSE 0
  BY DEF PairIndex, SelectInSeq
<1>2. I # {} /\ I \in SUBSET Nat
  BY <1>1
<1>3. Min(I) \in I
  BY <1>2, MinExists
<1> QED
  BY <1>1, <1>2, <1>3

\* Removing a hook leaves a list of hooks.
LEMMA RemoveFirstType ==
  ASSUME NEW S, NEW s \in Seq(S), NEW e
  PROVE  RemoveFirst(s, e) \in Seq(S)
<1> DEFINE I == {i \in 1 .. Len(s) : s[i] = e}
<1>1. CASE I = {}
  BY <1>1 DEF RemoveFirst
<1>2. CASE I # {}
  <2>1. Min(I) \in 1 .. Len(s)
    <3>1. I \in SUBSET Nat
      OBVIOUS
    <3> QED
      BY <1>2, <3>1, MinExists
  <2>2. RemoveFirst(s, e) = RemoveAt(s, Min(I))
    BY <1>2 DEF RemoveFirst, SelectInSeq
  <2> QED
    BY <2>1, <2>2, RemoveAtProperties
<1> QED
  BY <1>1, <1>2

-----------------------------------------------------------------------------
(* How a handler ends                                                      *)

LEMMA InvTable == Inv => nodes \in NodeTable
  BY DEF Inv, TypeOK, LinksWellFormed, NodeTable, WellFormed

\* An early return changes only what the handler returned.
LEMMA FailInv ==
  ASSUME Inv, NEW code \in ReturnCodes, Fail(code)
  PROVE  Inv'
  BY DEF Inv, TypeOK, LinksWellFormed, PairTableOrdered, LadderFresh, Fail

\* A node handler that commits a well-formed table preserves the invariant.
LEMMA CommitInv ==
  ASSUME Inv, NEW table \in NodeTable, NEW events, Commit(table, events)
  PROVE  Inv'
<1>1. generation' \in 0 .. GenerationModulus - 1
  BY CounterAssumption, WrapType DEF Inv, TypeOK, Commit, Bumped
<1> QED
  BY <1>1 DEF Inv, TypeOK, LinksWellFormed, PairTableOrdered, LadderFresh, Commit,
              Succeed, NodeTable, WellFormed, ReturnCodes

\* A handler that only emits preserves the invariant.
LEMMA SucceedInv ==
  ASSUME Inv, NEW events, Succeed(events),
         UNCHANGED <<nodes, pairs, nextPairId, hooks, generation, seeded>>
  PROVE  Inv'
  BY DEF Inv, TypeOK, LinksWellFormed, PairTableOrdered, LadderFresh, Succeed, ReturnCodes

-----------------------------------------------------------------------------
(* Nodes, links and ticks                                                  *)

LEMMA AddNodeInv ==
  ASSUME Inv, NEW id, AddNode(id)
  PROVE  Inv'
<1>1. CASE Fail("EINVAL") \/ Fail("EEXIST")
  BY <1>1, FailInv DEF ReturnCodes
<1>2. CASE id \in Ids /\ Commit(WithNode(nodes, id), <<Event("add", <<id>>)>>)
  BY <1>2, InvTable, WithNodeGood, CommitInv
<1> QED
  BY <1>1, <1>2 DEF AddNode

LEMMA DelNodeInv ==
  ASSUME Inv, NEW id, DelNode(id)
  PROVE  Inv'
<1>1. CASE Fail("EINVAL") \/ Fail("ENOENT")
  BY <1>1, FailInv DEF ReturnCodes
<1>2. CASE id \in Ids /\ Commit(WithoutNode(nodes, id), <<Event("del", <<id>>)>>)
  BY <1>2, InvTable, WithoutNodeGood, CommitInv
<1> QED
  BY <1>1, <1>2 DEF DelNode, Present

LEMMA LinkInv ==
  ASSUME Inv, NEW a, NEW b, NEW enable, Link(a, b, enable)
  PROVE  Inv'
<1>1. CASE Fail("EINVAL") \/ Fail("ENOENT")
  BY <1>1, FailInv DEF ReturnCodes
<1>2. CASE /\ a # b /\ Present(a) /\ Present(b)
           /\ Commit(WithLink(nodes, a, b), <<Event("link", <<a, b>>)>>)
  BY <1>2, InvTable, WithLinkGood, CommitInv DEF Present
<1>3. CASE /\ a # b /\ Present(a) /\ Present(b)
           /\ Commit(WithoutLink(nodes, a, b), <<Event("unlink", <<a, b>>)>>)
  BY <1>3, InvTable, WithoutLinkGood, CommitInv DEF Present
<1> QED
  BY <1>1, <1>2, <1>3 DEF Link

\* The commands that write one field of a present node.
LEMMA SetFieldInv ==
  ASSUME Inv, NEW id, NEW table, NEW kind, NEW value, SetField(id, table, kind, value),
         Present(id) => table \in NodeTable
  PROVE  Inv'
<1>1. CASE Fail("ENOENT")
  BY <1>1, FailInv DEF ReturnCodes
<1>2. CASE Present(id) /\ Commit(table, <<Event(kind, <<id, value>>)>>)
  BY <1>2, CommitInv
<1> QED
  BY <1>1, <1>2 DEF SetField

LEMMA SetOnlineInv ==
  ASSUME Inv, NEW id, NEW on \in BOOLEAN, SetOnline(id, on)
  PROVE  Inv'
<1> DEFINE table == [nodes EXCEPT ![id].online = on]
<1>1. ASSUME Present(id)
      PROVE  table \in NodeTable
  <2>1. id \in Ids /\ nodes[id].present /\ nodes[id] \in Node /\ nodes \in [Ids -> Node]
    BY <1>1 DEF Present, Inv, TypeOK
  <2>2. /\ [nodes[id] EXCEPT !.online = on] \in Node
        /\ [nodes[id] EXCEPT !.online = on].links = nodes[id].links
        /\ [nodes[id] EXCEPT !.online = on].present = nodes[id].present
    BY <2>1 DEF Node
  <2>3. table = [nodes EXCEPT ![id] = [nodes[id] EXCEPT !.online = on]]
    BY <2>1
  <2> QED
    BY <2>1, <2>2, <2>3, InvTable, RewrittenGood
<1> QED
  BY <1>1, SetFieldInv DEF SetOnline

LEMMA SetEnergyInv ==
  ASSUME Inv, NEW id, NEW v \in Nat, SetEnergy(id, v)
  PROVE  Inv'
<1> DEFINE value == Clamp(v, 0, MaxPpm)
           table == [nodes EXCEPT ![id].energy = value]
<1>1. value \in Ppm
  BY ClampToPpm
<1> HIDE DEF value
<1>2. ASSUME Present(id)
      PROVE  table \in NodeTable
  <2>1. id \in Ids /\ nodes[id].present /\ nodes[id] \in Node /\ nodes \in [Ids -> Node]
    BY <1>2 DEF Present, Inv, TypeOK
  <2>2. /\ [nodes[id] EXCEPT !.energy = value] \in Node
        /\ [nodes[id] EXCEPT !.energy = value].links = nodes[id].links
        /\ [nodes[id] EXCEPT !.energy = value].present = nodes[id].present
    BY <1>1, <2>1 DEF Node
  <2>3. table = [nodes EXCEPT ![id] = [nodes[id] EXCEPT !.energy = value]]
    BY <2>1
  <2> QED
    BY <2>1, <2>2, <2>3, InvTable, RewrittenGood
<1> QED
  BY <1>2, SetFieldInv DEF SetEnergy, value

LEMMA SetHealthInv ==
  ASSUME Inv, NEW id, NEW v \in Nat, SetHealth(id, v)
  PROVE  Inv'
<1> DEFINE value == Clamp(v, 0, MaxPpm)
           table == [nodes EXCEPT ![id].health = value]
<1>1. value \in Ppm
  BY ClampToPpm
<1> HIDE DEF value
<1>2. ASSUME Present(id)
      PROVE  table \in NodeTable
  <2>1. id \in Ids /\ nodes[id].present /\ nodes[id] \in Node /\ nodes \in [Ids -> Node]
    BY <1>2 DEF Present, Inv, TypeOK
  <2>2. /\ [nodes[id] EXCEPT !.health = value] \in Node
        /\ [nodes[id] EXCEPT !.health = value].links = nodes[id].links
        /\ [nodes[id] EXCEPT !.health = value].present = nodes[id].present
    BY <1>1, <2>1 DEF Node
  <2>3. table = [nodes EXCEPT ![id] = [nodes[id] EXCEPT !.health = value]]
    BY <2>1
  <2> QED
    BY <2>1, <2>2, <2>3, InvTable, RewrittenGood
<1> QED
  BY <1>2, SetFieldInv DEF SetHealth, value

LEMMA TickInv ==
  ASSUME Inv, Tick
  PROVE  Inv'
<1> DEFINE table == [i \in Ids |-> IF Ticking(i) THEN TickedNode(nodes[i]) ELSE nodes[i]]
<1>1. nodes \in [Ids -> Node] /\ nodes \in NodeTable
  BY InvTable DEF Inv, TypeOK
<1>2. /\ table \in [Ids -> Node]
      /\ \A i \in Ids : table[i].links = nodes[i].links /\ table[i].present = nodes[i].present
      /\ \A i \in Ids : ~nodes[i].present => table[i] = nodes[i]
  BY <1>1, TickedNodeType DEF Ticking
<1>3. table \in NodeTable
  <2> HIDE DEF table
  <2> QED
    BY <1>1, <1>2, RewrittenGood
<1>4. \E events : Commit(table, events)
  BY DEF Tick
<1> HIDE DEF table
<1> QED
  BY <1>3, <1>4, CommitInv

\* Whatever the first clients did, seeding leaves a well-formed table with the
\* default nodes and links.
LEMMA SeededGood ==
  ASSUME nodes \in NodeTable
  PROVE  /\ SeededTable \in NodeTable
         /\ \A i \in DefaultIds : SeededTable[i].present
         /\ {1, 2} \subseteq SeededTable[0].links
         /\ 0 \in SeededTable[1].links \cap SeededTable[2].links
<1> DEFINE t0 == WithNode(nodes, 0)
           t1 == WithNode(t0, 1)
           t2 == WithNode(t1, 2)
           t3 == WithLink(t2, 0, 1)
           t4 == WithLink(t3, 0, 2)
<1>1. 0 \in Ids /\ 1 \in Ids /\ 2 \in Ids
  BY NodesAssumption DEF Ids
<1>2. SeededTable = t4
  BY DEF SeededTable
<1> HIDE DEF t0, t1, t2, t3, t4
<1>3. t0 \in NodeTable /\ t0[0].present
  BY <1>1, WithNodeGood, WithNodePresent DEF t0
<1>4. t1 \in NodeTable /\ t1[0].present /\ t1[1].present
  BY <1>1, <1>3, WithNodeGood, WithNodePresent DEF t1
<1>5. t2 \in NodeTable /\ t2[0].present /\ t2[1].present /\ t2[2].present
  <2>1. t2 \in NodeTable
    BY <1>1, <1>4, WithNodeGood DEF t2
  <2>2. \A i \in Ids : t2[i].present = (i = 2 \/ t1[i].present)
    BY <1>1, <1>4, WithNodePresent DEF t2
  <2> QED
    BY <1>1, <1>4, <2>1, <2>2
<1>6. /\ t3 \in NodeTable /\ t3[0].present /\ t3[1].present /\ t3[2].present
      /\ 1 \in t3[0].links /\ 0 \in t3[1].links
  BY <1>1, <1>5, WithLinkGood DEF t3
<1>7. /\ t4 \in NodeTable /\ t4[0].present /\ t4[1].present /\ t4[2].present
      /\ 1 \in t4[0].links /\ 0 \in t4[1].links
      /\ 2 \in t4[0].links /\ 0 \in t4[2].links
  BY <1>1, <1>6, WithLinkGood DEF t4
<1> QED
  BY <1>2, <1>7 DEF DefaultIds

LEMMA SeedInv ==
  ASSUME Inv, Seed
  PROVE  Inv'
<1> DEFINE missing == {i \in DefaultIds : ~Present(i)}
<1>1. nodes' \in NodeTable
  BY InvTable, SeededGood DEF Seed
<1>2. generation' \in 0 .. GenerationModulus - 1
  <2>1. Cardinality(missing) \in Nat
    <3>1. IsFiniteSet(Ids)
      BY NodesAssumption, FS_Interval DEF Ids
    <3>2. missing \in SUBSET Ids
      BY DefaultIdsAreIds
    <3> QED
      BY <3>1, <3>2, FS_Subset, FS_CardinalityType
  <2>2. generation' = (generation + Cardinality(missing) + 2) % GenerationModulus
    BY DEF Seed
  <2>3. generation + Cardinality(missing) + 2 \in Int
    BY <2>1 DEF Inv, TypeOK
  <2> HIDE DEF missing
  <2> QED
    BY <2>2, <2>3, CounterAssumption, WrapType
<1>3. /\ UNCHANGED <<pairs, nextPairId, hooks>>
      /\ seeded' = TRUE
      /\ \E events : Succeed(events)
  BY DEF Seed
<1> QED
  BY <1>1, <1>2, <1>3 DEF Inv, TypeOK, LinksWellFormed, PairTableOrdered, LadderFresh,
                          Succeed, NodeTable, WellFormed, ReturnCodes

-----------------------------------------------------------------------------
(* Duo pairs and hooks                                                     *)

\* What a pulse makes of a pair.
LEMMA PulsedPairType ==
  ASSUME NEW p \in Pair, NEW na \in Node, NEW nb \in Node, NEW value \in Ppm
  PROVE  LET q == PulsedPair(p, na, nb, value)
         IN  /\ q \in Pair
             /\ q.id = p.id /\ q.a = p.a /\ q.b = p.b
             /\ q.ladder = <<q.energy, q.pressure>>
<1> DEFINE energy == Clamp(Mean(Mean(na.energy, nb.energy), value), 0, MaxPpm)
           pressure == Clamp(Mean(Mean(na.health, nb.health), MaxPpm - value), 0, MaxPpm)
           pulses == Bumped(p.pulses, PulseModulus)
           q == PulsedPair(p, na, nb, value)
<1>1. /\ na.energy \in Ppm /\ nb.energy \in Ppm
      /\ na.health \in Ppm /\ nb.health \in Ppm
      /\ MaxPpm - value \in Ppm /\ Ppm \subseteq Int
  BY PpmAssumption DEF Node, Ppm
<1>2. energy \in Ppm /\ pressure \in Ppm
  BY <1>1, MeanType, ClampToPpm
<1>3. pulses \in 0 .. PulseModulus - 1
  <2>1. p.pulses + 1 \in Int
    BY CounterAssumption DEF Pair
  <2> QED
    BY <2>1, CounterAssumption, WrapType DEF Bumped
<1>4. q = [p EXCEPT !.last = value, !.pulses = pulses, !.energy = energy,
                    !.pressure = pressure, !.ladder = <<energy, pressure>>]
  BY DEF PulsedPair, WithLadder, Pair
<1> HIDE DEF energy, pressure, pulses, q
<1>5. /\ q \in Pair
      /\ q.id = p.id /\ q.a = p.a /\ q.b = p.b
      /\ q.ladder = <<q.energy, q.pressure>>
  BY <1>2, <1>3, <1>4 DEF Pair
<1> QED
  BY <1>5 DEF q

\* The feedback of a pulse.
LEMMA FedBackType ==
  ASSUME NEW n \in Node, NEW e \in Ppm
  PROVE  /\ FedBack(n, e) \in Node
         /\ FedBack(n, e).energy = Mean(n.energy, e)
         /\ FedBack(n, e).links = n.links
         /\ FedBack(n, e).present = n.present
<1> DEFINE m == Mean(n.energy, e)
<1>1. m \in Ppm /\ Clamp(m, 0, MaxPpm) = m
  <2>1. m \in Ppm
    BY MeanType DEF Node
  <2> HIDE DEF m
  <2> QED
    BY <2>1, PpmAssumption DEF Clamp, Ppm
<1>2. FedBack(n, e) = [n EXCEPT !.energy = m]
  BY <1>1 DEF FedBack
<1> HIDE DEF m
<1>3. /\ FedBack(n, e) \in Node
      /\ FedBack(n, e).energy = m
      /\ FedBack(n, e).links = n.links
      /\ FedBack(n, e).present = n.present
  BY <1>1, <1>2 DEF Node
<1> QED
  BY <1>3 DEF m

LEMMA AddPairInv ==
  ASSUME Inv, NEW a, NEW b, NEW mode \in Modes, AddPair(a, b, mode)
  PROVE  Inv'
<1>1. CASE Fail("ENOSPC") \/ Fail("EINVAL") \/ Fail("ENOENT")
  BY <1>1, FailInv DEF ReturnCodes
<1>2. CASE /\ Len(pairs) < MaxPairs
           /\ a # b /\ Present(a) /\ Present(b)
           /\ nextPairId < MaxPairId
           /\ nextPairId' = NewPairId
           /\ pairs' = Append(pairs, NewPair(a, b, mode))
           /\ \E events : Succeed(events)
           /\ UNCHANGED <<nodes, hooks, generation, seeded>>
  <2> DEFINE p == NewPair(a, b, mode)
  <2>1. nextPairId + 1 \in 1 .. MaxPairId /\ nextPairId \in Nat
    BY <1>2, PairsAssumption DEF Inv, TypeOK
  <2>2. /\ p \in Pair
        /\ p.id = nextPairId + 1
        /\ p.a # p.b
        /\ p.ladder = <<p.energy, p.pressure>>
    <3>1. MaxPpm \div 2 \in Ppm /\ 0 \in Ppm /\ 0 \in 0 .. PulseModulus - 1
      BY PpmAssumption, CounterAssumption DEF Ppm
    <3> QED
      BY <1>2, <2>1, <3>1 DEF NewPair, WithLadder, NewPairId, Present, Pair
  <2> HIDE DEF p
  <2>3. pairs \in Seq(Pair) /\ Len(pairs) \in Nat /\ Len(pairs) <= MaxPairs
    BY LenProperties DEF Inv, TypeOK
  <2>4. /\ pairs' \in Seq(Pair)
        /\ Len(pairs') = Len(pairs) + 1
        /\ \A i \in 1 .. Len(pairs) : pairs'[i] = pairs[i]
        /\ pairs'[Len(pairs) + 1] = p
    BY <1>2, <2>2, <2>3, AppendProperties DEF p
  <2>5. DOMAIN pairs = 1 .. Len(pairs) /\ DOMAIN pairs' = 1 .. Len(pairs) + 1
    BY <2>3, <2>4, LenProperties
  <2>6. \A i \in 1 .. Len(pairs) + 1 : i \in 1 .. Len(pairs) \/ i = Len(pairs) + 1
    BY <2>3
  <2>7. TypeOK'
    BY <1>2, <2>1, <2>3, <2>4, PairsAssumption DEF Inv, TypeOK, Succeed, ReturnCodes, NewPairId
  <2>8. LinksWellFormed'
    BY <1>2 DEF Inv, LinksWellFormed
  <2>9. PairTableOrdered'
    <3>1. \A k \in 1 .. Len(pairs) : pairs[k].id \in Nat /\ pairs[k].id <= nextPairId
                                     /\ pairs[k].a # pairs[k].b
      <4>1. \A k \in 1 .. Len(pairs) : pairs[k] \in Pair
        BY <2>3, ElementOfSeq
      <4>2. \A k \in 1 .. Len(pairs) : pairs[k].id \in Nat
        BY <4>1 DEF Pair
      <4> QED
        BY <2>5, <4>2 DEF Inv, PairTableOrdered
    <3>2. \A k \in 1 .. Len(pairs) + 1 : pairs'[k].id <= nextPairId' /\ pairs'[k].a # pairs'[k].b
      BY <1>2, <2>1, <2>2, <2>4, <2>6, <3>1 DEF NewPairId
    <3>3. ASSUME NEW j \in 1 .. Len(pairs) + 1, NEW k \in 1 .. Len(pairs) + 1, j < k
          PROVE  pairs'[j].id < pairs'[k].id
      <4>1. j \in 1 .. Len(pairs)
        BY <2>3, <3>3
      <4>2. CASE k \in 1 .. Len(pairs)
        BY <2>4, <2>5, <3>3, <4>1, <4>2 DEF Inv, PairTableOrdered
      <4>3. CASE k = Len(pairs) + 1
        BY <2>1, <2>2, <2>4, <3>1, <4>1, <4>3
      <4> QED
        BY <2>6, <4>2, <4>3
    <3> QED
      BY <2>5, <3>2, <3>3 DEF PairTableOrdered
  <2>10. LadderFresh'
    BY <1>2, <2>2, <2>4, <2>5, <2>6 DEF Inv, LadderFresh, Succeed
  <2> QED
    BY <2>7, <2>8, <2>9, <2>10 DEF Inv
<1> QED
  BY <1>1, <1>2 DEF AddPair

LEMMA DelPairInv ==
  ASSUME Inv, NEW id, DelPair(id)
  PROVE  Inv'
<1>1. CASE Fail("ENOENT")
  BY <1>1, FailInv DEF ReturnCodes
<1>2. CASE /\ PairIndex(id) # 0
           /\ pairs' = RemoveAt(pairs, PairIndex(id))
           /\ \E events : Succeed(events)
           /\ UNCHANGED <<nodes, nextPairId, hooks, generation, seeded>>
  <2> DEFINE k == PairIndex(id)
  <2>1. pairs \in Seq(Pair) /\ Len(pairs) \in Nat /\ Len(pairs) <= MaxPairs
    BY LenProperties DEF Inv, TypeOK
  <2>2. k \in 1 .. Len(pairs)
    BY <1>2, <2>1, PairIndexFinds
  <2> HIDE DEF k
  <2>3. /\ pairs' \in Seq(Pair)
        /\ Len(pairs') = Len(pairs) - 1
        /\ \A i \in 1 .. Len(pairs) - 1 : pairs'[i] = IF i < k THEN pairs[i] ELSE pairs[i + 1]
    BY <1>2, <2>1, <2>2, RemoveAtProperties DEF k
  <2>4. DOMAIN pairs = 1 .. Len(pairs) /\ DOMAIN pairs' = 1 .. Len(pairs) - 1
    BY <2>1, <2>3, LenProperties
  <2>5. TypeOK'
    BY <1>2, <2>1, <2>3, PairsAssumption DEF Inv, TypeOK, Succeed, ReturnCodes
  <2>6. LinksWellFormed'
    BY <1>2 DEF Inv, LinksWellFormed
  <2>7. PairTableOrdered'
    <3>1. \A i \in 1 .. Len(pairs) - 1 : i \in 1 .. Len(pairs) /\ i + 1 \in 1 .. Len(pairs)
      BY <2>1
    <3>2. \A i \in 1 .. Len(pairs) - 1 : pairs'[i].id <= nextPairId' /\ pairs'[i].a # pairs'[i].b
      BY <1>2, <2>3, <2>4, <3>1 DEF Inv, PairTableOrdered
    <3>3. ASSUME NEW i \in 1 .. Len(pairs) - 1, NEW j \in 1 .. Len(pairs) - 1, i < j
          PROVE  pairs'[i].id < pairs'[j].id
      <4> DEFINE x == IF i < k THEN i ELSE i + 1
                 y == IF j < k THEN j ELSE j + 1
      <4>1. x \in 1 .. Len(pairs) /\ y \in 1 .. Len(pairs) /\ x < y
        BY <2>1, <2>2, <3>3
      <4>2. pairs'[i] = pairs[x] /\ pairs'[j] = pairs[y]
        BY <2>3
      <4> HIDE DEF x, y
      <4> QED
        BY <2>4, <4>1, <4>2 DEF Inv, PairTableOrdered
    <3> QED
      BY <2>4, <3>2, <3>3 DEF PairTableOrdered
  <2>8. LadderFresh'
    <3>1. \A i \in 1 .. Len(pairs) - 1 : i \in 1 .. Len(pairs) /\ i + 1 \in 1 .. Len(pairs)
      BY <2>1
    <3>2. \A i \in 1 .. Len(pairs) - 1 : \E j \in 1 .. Len(pairs) : pairs'[i] = pairs[j]
      BY <2>3, <3>1
    <3>3. \A j \in 1 .. Len(pairs) : pairs[j].ladder = <<pairs[j].energy, pairs[j].pressure>>
      BY <2>4 DEF Inv, LadderFresh
    <3>4. \A i \in 1 .. Len(pairs) - 1 : pairs'[i].ladder = <<pairs'[i].energy, pairs'[i].pressure>>
      BY <3>2, <3>3
    <3>5. out'.calls = <<>>
      BY <1>2 DEF Succeed
    <3> QED
      BY <2>4, <3>4, <3>5 DEF LadderFresh
  <2> QED
    BY <2>5, <2>6, <2>7, <2>8 DEF Inv
<1> QED
  BY <1>1, <1>2 DEF DelPair

\* What is known when a pulse finds its pair and both endpoints.
LEMMA PulseFacts ==
  ASSUME Inv, NEW id, NEW v \in Nat, PairIndex(id) # 0,
         Present(pairs[PairIndex(id)].a), Present(pairs[PairIndex(id)].b)
  PROVE  LET k == PairIndex(id)
             old == pairs[k]
             new == PulsedPair(old, nodes[old.a], nodes[old.b], Clamp(v, 0, MaxPpm))
         IN  /\ k \in 1 .. Len(pairs)
             /\ old \in Pair /\ new \in Pair
             /\ old.a \in Ids /\ old.b \in Ids /\ old.a # old.b
             /\ new.id = old.id /\ new.a = old.a /\ new.b = old.b
             /\ new.ladder = <<new.energy, new.pressure>>
<1> DEFINE k == PairIndex(id)
           old == pairs[k]
           value == Clamp(v, 0, MaxPpm)
<1>1. pairs \in Seq(Pair) /\ nodes \in [Ids -> Node]
  BY DEF Inv, TypeOK
<1>2. k \in 1 .. Len(pairs) /\ old \in Pair
  BY <1>1, PairIndexFinds, ElementOfSeq
<1>3. old.a \in Ids /\ old.b \in Ids
  BY DEF Present
<1>4. old.a # old.b
  <2>1. k \in DOMAIN pairs
    BY <1>1, <1>2, LenProperties
  <2> QED
    BY <2>1 DEF Inv, PairTableOrdered
<1>5. value \in Ppm
  BY ClampToPpm
<1>6. nodes[old.a] \in Node /\ nodes[old.b] \in Node
  BY <1>1, <1>3
<1> HIDE DEF k, value
<1> QED
  BY <1>2, <1>3, <1>4, <1>5, <1>6, PulsedPairType DEF k, value

LEMMA PulseInv ==
  ASSUME Inv, NEW id, NEW v \in Nat, Pulse(id, v)
  PROVE  Inv'
<1> DEFINE k == PairIndex(id)
           old == pairs[k]
           new == PulsedPair(old, nodes[old.a], nodes[old.b], Clamp(v, 0, MaxPpm))
<1>1. CASE Fail("ENOENT")
  BY <1>1, FailInv DEF ReturnCodes
<1>2. CASE /\ k # 0
           /\ Present(old.a) /\ Present(old.b)
           /\ pairs' = [pairs EXCEPT ![k] = new]
           /\ nodes' = [nodes EXCEPT ![old.a] = FedBack(@, new.energy),
                                     ![old.b] = FedBack(@, new.energy)]
           /\ out'.ret = "OK"
           /\ out'.calls = [i \in DOMAIN hooks |-> HookCall(hooks[i], new)]
           /\ UNCHANGED <<nextPairId, hooks, generation, seeded>>
  <2>1. /\ k \in 1 .. Len(pairs)
        /\ old \in Pair /\ new \in Pair
        /\ old.a \in Ids /\ old.b \in Ids /\ old.a # old.b
        /\ new.id = old.id /\ new.a = old.a /\ new.b = old.b
        /\ new.ladder = <<new.energy, new.pressure>>
    BY <1>2, PulseFacts
  <2>2. pairs \in Seq(Pair) /\ Len(pairs) <= MaxPairs /\ DOMAIN pairs = 1 .. Len(pairs)
    BY LenProperties DEF Inv, TypeOK
  <2> HIDE DEF k, new
  <2>3. /\ pairs' \in Seq(Pair)
        /\ Len(pairs') = Len(pairs)
        /\ \A j \in 1 .. Len(pairs) : pairs'[j] = IF j = k THEN new ELSE pairs[j]
        /\ DOMAIN pairs' = 1 .. Len(pairs)
    <3>1. /\ pairs' \in Seq(Pair)
          /\ Len(pairs') = Len(pairs)
          /\ \A j \in 1 .. Len(pairs) : pairs'[j] = IF j = k THEN new ELSE pairs[j]
      BY <1>2, <2>1, <2>2, ExceptSeq
    <3> QED
      BY <3>1, LenProperties
  <2>4. nodes' \in NodeTable
    <3> DEFINE fa == FedBack(nodes[old.a], new.energy)
               fb == FedBack(nodes[old.b], new.energy)
    <3>1. nodes \in NodeTable /\ nodes \in [Ids -> Node] /\ new.energy \in Ppm
      BY <2>1, InvTable DEF Inv, TypeOK, Pair
    <3>2. /\ fa \in Node /\ fa.links = nodes[old.a].links /\ fa.present = nodes[old.a].present
          /\ fb \in Node /\ fb.links = nodes[old.b].links /\ fb.present = nodes[old.b].present
      BY <2>1, <3>1, FedBackType
    <3>3. nodes' = [i \in Ids |-> IF i = old.a THEN fa ELSE IF i = old.b THEN fb ELSE nodes[i]]
      BY <1>2, <2>1, <3>1
    <3> HIDE DEF fa, fb
    <3>4. nodes[old.a].present /\ nodes[old.b].present
      BY <1>2 DEF Present
    <3>5. /\ nodes' \in [Ids -> Node]
          /\ \A i \in Ids : nodes'[i].links = nodes[i].links /\ nodes'[i].present = nodes[i].present
          /\ \A i \in Ids : ~nodes[i].present => nodes'[i] = nodes[i]
      BY <2>1, <3>1, <3>2, <3>3, <3>4
    <3> QED
      BY <3>1, <3>5, RewrittenGood
  <2>5. TypeOK'
    BY <1>2, <2>2, <2>3, <2>4 DEF Inv, TypeOK, NodeTable, ReturnCodes
  <2>6. LinksWellFormed'
    BY <2>4 DEF NodeTable, WellFormed, LinksWellFormed
  <2>7. PairTableOrdered'
    <3>1. \A j \in 1 .. Len(pairs) : /\ pairs'[j].id = pairs[j].id
                                     /\ pairs'[j].a = pairs[j].a /\ pairs'[j].b = pairs[j].b
      BY <2>1, <2>3
    <3> QED
      BY <1>2, <2>2, <2>3, <3>1 DEF Inv, PairTableOrdered
  <2>8. LadderFresh'
    <3>1. \A j \in 1 .. Len(pairs) : pairs'[j].ladder = <<pairs'[j].energy, pairs'[j].pressure>>
      BY <2>1, <2>2, <2>3 DEF Inv, LadderFresh
    <3>2. \A i \in DOMAIN out'.calls :
            out'.calls[i].ladder = <<out'.calls[i].energy, out'.calls[i].pressure>>
      BY <1>2, <2>1 DEF HookCall
    <3> QED
      BY <2>3, <3>1, <3>2 DEF LadderFresh
  <2> QED
    BY <2>5, <2>6, <2>7, <2>8 DEF Inv
<1> QED
  BY <1>1, <1>2 DEF Pulse

\* Hooks come and go without touching the cluster.
LEMMA HookInv ==
  ASSUME Inv, NEW hook \in Hooks, RegisterHook(hook) \/ UnregisterHook(hook)
  PROVE  Inv'
<1>1. hooks \in Seq(Hooks)
  BY DEF Inv, TypeOK
<1>2. hooks' \in Seq(Hooks)
  <2>1. CASE RegisterHook(hook)
    BY <1>1, <2>1, AppendProperties DEF RegisterHook
  <2>2. CASE UnregisterHook(hook)
    BY <1>1, <2>2, RemoveFirstType DEF UnregisterHook
  <2> QED
    BY <2>1, <2>2
<1>3. /\ UNCHANGED <<nodes, pairs, nextPairId, generation, seeded>>
      /\ out'.ret = "OK" /\ out'.calls = <<>>
  BY DEF RegisterHook, UnregisterHook, Succeed
<1> QED
  BY <1>2, <1>3 DEF Inv, TypeOK, LinksWellFormed, PairTableOrdered, LadderFresh, ReturnCodes

-----------------------------------------------------------------------------
(* The invariant and what it gives                                         *)

LEMMA InitInv == Init => Inv
<1> SUFFICES ASSUME Init PROVE Inv
  OBVIOUS
<1>1. TypeOK
  <2>1. /\ pairs \in Seq(Pair) /\ Len(pairs) <= MaxPairs /\ hooks \in Seq(Hooks)
        /\ 0 \in 0 .. MaxPairId
    BY PairsAssumption, EmptySeq DEF Init
  <2>2. nodes \in [Ids -> Node] /\ generation \in 0 .. GenerationModulus - 1
    BY NodeConstants, CounterAssumption DEF Init
  <2>3. nextPairId \in 0 .. MaxPairId /\ seeded \in BOOLEAN /\ out.ret \in ReturnCodes
    BY <2>1 DEF Init, ReturnCodes
  <2> QED
    BY <2>1, <2>2, <2>3 DEF TypeOK
<1>2. LinksWellFormed
  BY DEF Init, LinksWellFormed, NoNode
<1>3. PairTableOrdered /\ LadderFresh
  BY DEF Init, PairTableOrdered, LadderFresh
<1> QED
  BY <1>1, <1>2, <1>3 DEF Inv

LEMMA NextInv == Inv /\ [Next]_vars => Inv'
<1> SUFFICES ASSUME Inv, [Next]_vars PROVE Inv'
  OBVIOUS
<1>1. CASE Seed
  BY <1>1, SeedInv
<1>2. CASE Tick
  BY <1>2, TickInv
<1>3. CASE NodeCommand
  BY <1>3, InputsAssumption, AddNodeInv, DelNodeInv, SetOnlineInv, SetEnergyInv, SetHealthInv
     DEF NodeCommand
<1>4. CASE LinkCommand
  BY <1>4, LinkInv DEF LinkCommand
<1>5. CASE DuoCommand
  BY <1>5, InputsAssumption, AddPairInv, DelPairInv, PulseInv, HookInv DEF DuoCommand
<1>6. CASE Report
  BY <1>6, SucceedInv DEF Report
<1>7. CASE UNCHANGED vars
  BY <1>7 DEF vars, Inv, TypeOK, LinksWellFormed, PairTableOrdered, LadderFresh
<1> QED
  BY <1>1, <1>2, <1>3, <1>4, <1>5, <1>6, <1>7 DEF Next

\* The invariant holds throughout.
THEOREM Invariance == Spec => []Inv
  BY InitInv, NextInv, PTL DEF Spec

\* Every field keeps its range, whatever ticks, pulses and commands do.
THEOREM TypeCorrectness == Spec => []TypeOK
<1>1. Inv => TypeOK
  BY DEF Inv
<1> QED
  BY <1>1, Invariance, PTL

\* The masks are always an undirected graph on the present nodes.
THEOREM LinksStayWellFormed == Spec => []LinksWellFormed
<1>1. Inv => LinksWellFormed
  BY DEF Inv
<1> QED
  BY <1>1, Invariance, PTL

\* Pair ids always rise along the pair table, so a lookup is unambiguous.
THEOREM PairTableStaysOrdered == Spec => []PairTableOrdered
<1>1. Inv => PairTableOrdered
  BY DEF Inv
<1> QED
  BY <1>1, Invariance, PTL

\* No pair is ever seen with a ladder of other values than its own.
THEOREM LaddersStayFresh == Spec => []LadderFresh
<1>1. Inv => LadderFresh
  BY DEF Inv
<1> QED
  BY <1>1, Invariance, PTL

-----------------------------------------------------------------------------
(* What a step may do to the pairs                                         *)

\* A pulse that found its pair and both endpoints.
PulsesPair(k, new) ==
  LET old == pairs[k]
  IN  /\ k \in 1 .. Len(pairs)
      /\ new \in Pair
      /\ old.a \in Ids /\ old.b \in Ids /\ old.a # old.b
      /\ new.id = old.id /\ new.a = old.a /\ new.b = old.b
      /\ pairs' = [pairs EXCEPT ![k] = new]
      /\ nodes' = [nodes EXCEPT ![old.a] = FedBack(@, new.energy),
                                ![old.b] = FedBack(@, new.energy)]

\* A step that changes the pair table appends to it, takes one pair out of it
\* or pulses one pair of it.
LEMMA PairSteps ==
  ASSUME Inv, [Next]_vars, pairs' # pairs
  PROVE  \/ \E a, b, mode : pairs' = Append(pairs, NewPair(a, b, mode))
         \/ \E k \in 1 .. Len(pairs) : pairs' = RemoveAt(pairs, k)
         \/ \E k, new : PulsesPair(k, new)
<1>1. DuoCommand
  BY DEF Next, vars, Seed, Tick, Commit, Report, NodeCommand, LinkCommand, AddNode, DelNode,
         Link, SetOnline, SetEnergy, SetHealth, SetField, Fail
<1>2. \/ \E a, b, mode : AddPair(a, b, mode)
      \/ \E id : DelPair(id)
      \/ \E id, v : v \in PulseInputs /\ Pulse(id, v)
  BY <1>1 DEF DuoCommand, RegisterHook, UnregisterHook
<1>3. ASSUME NEW a, NEW b, NEW mode, AddPair(a, b, mode)
      PROVE  pairs' = Append(pairs, NewPair(a, b, mode))
  BY <1>3 DEF AddPair, Fail
<1>4. ASSUME NEW id, DelPair(id)
      PROVE  \E k \in 1 .. Len(pairs) : pairs' = RemoveAt(pairs, k)
  <2>1. PairIndex(id) # 0 /\ pairs' = RemoveAt(pairs, PairIndex(id))
    BY <1>4 DEF DelPair, Fail
  <2>2. pairs \in Seq(Pair)
    BY DEF Inv, TypeOK
  <2> QED
    BY <2>1, <2>2, PairIndexFinds
<1>5. ASSUME NEW id, NEW v \in PulseInputs, Pulse(id, v)
      PROVE  \E k, new : PulsesPair(k, new)
  <2> DEFINE k == PairIndex(id)
             old == pairs[k]
             new == PulsedPair(old, nodes[old.a], nodes[old.b], Clamp(v, 0, MaxPpm))
  <2>1. /\ k # 0
        /\ Present(old.a) /\ Present(old.b)
        /\ pairs' = [pairs EXCEPT ![k] = new]
        /\ nodes' = [nodes EXCEPT ![old.a] = FedBack(@, new.energy),
                                  ![old.b] = FedBack(@, new.energy)]
    BY <1>5 DEF Pulse, Fail
  <2>2. v \in Nat
    BY InputsAssumption
  <2>3. /\ k \in 1 .. Len(pairs) /\ new \in Pair
        /\ old.a \in Ids /\ old.b \in Ids /\ old.a # old.b
        /\ new.id = old.id /\ new.a = old.a /\ new.b = old.b
    BY <2>1, <2>2, PulseFacts
  <2> HIDE DEF k, new
  <2>4. PulsesPair(k, new)
    BY <2>1, <2>3 DEF PulsesPair
  <2> QED
    BY <2>4
<1> QED
  BY <1>2, <1>3, <1>4, <1>5

\* The pair table after a pulse.
LEMMA PulsedTable ==
  ASSUME Inv, NEW k, NEW new, PulsesPair(k, new)
  PROVE  /\ DOMAIN pairs = 1 .. Len(pairs) /\ DOMAIN pairs' = 1 .. Len(pairs)
         /\ \A j \in 1 .. Len(pairs) : pairs'[j] = IF j = k THEN new ELSE pairs[j]
<1>1. pairs \in Seq(Pair)
  BY DEF Inv, TypeOK
<1>2. /\ pairs' \in Seq(Pair)
      /\ Len(pairs') = Len(pairs)
      /\ \A j \in 1 .. Len(pairs) : pairs'[j] = IF j = k THEN new ELSE pairs[j]
  BY <1>1, ExceptSeq DEF PulsesPair
<1> QED
  BY <1>1, <1>2, LenProperties

LEMMA PairIdStep ==
  ASSUME Inv, [Next]_vars, NEW k \in DOMAIN pairs'
  PROVE  \/ pairs'[k].id > nextPairId
         \/ \E j \in DOMAIN pairs : /\ pairs[j].id = pairs'[k].id
                                    /\ pairs[j].a = pairs'[k].a
                                    /\ pairs[j].b = pairs'[k].b
<1>1. pairs \in Seq(Pair) /\ DOMAIN pairs = 1 .. Len(pairs) /\ Len(pairs) \in Nat
  BY LenProperties DEF Inv, TypeOK
<1>2. CASE pairs' = pairs
  BY <1>2
<1>3. CASE \E a, b, mode : pairs' = Append(pairs, NewPair(a, b, mode))
  <2>1. PICK a, b, mode : pairs' = Append(pairs, NewPair(a, b, mode))
    BY <1>3
  <2> DEFINE p == NewPair(a, b, mode)
  <2>2. p.id = nextPairId + 1
    BY DEF NewPair, WithLadder, NewPairId
  <2> HIDE DEF p
  <2>3. /\ DOMAIN pairs' = 1 .. Len(pairs) + 1
        /\ pairs'[Len(pairs) + 1] = p
        /\ \A i \in 1 .. Len(pairs) : pairs'[i] = pairs[i]
    <3>1. pairs \in Seq(Pair \cup {p})
      BY <1>1, SeqMonotonic
    <3>2. pairs' = Append(pairs, p)
      BY <2>1 DEF p
    <3> QED
      BY <1>1, <3>1, <3>2, AppendProperties, LenProperties
  <2>4. nextPairId \in Int
    BY DEF Inv, TypeOK
  <2> QED
    BY <1>1, <2>2, <2>3, <2>4
<1>4. CASE \E i \in 1 .. Len(pairs) : pairs' = RemoveAt(pairs, i)
  <2>1. PICK i \in 1 .. Len(pairs) : pairs' = RemoveAt(pairs, i)
    BY <1>4
  <2>2. /\ DOMAIN pairs' = 1 .. Len(pairs) - 1
        /\ \A j \in 1 .. Len(pairs) - 1 : pairs'[j] = IF j < i THEN pairs[j] ELSE pairs[j + 1]
    BY <1>1, <2>1, RemoveAtProperties, LenProperties
  <2>3. k \in 1 .. Len(pairs) /\ k + 1 \in 1 .. Len(pairs)
    BY <1>1, <2>2
  <2>4. pairs'[k] = pairs[k] \/ pairs'[k] = pairs[k + 1]
    BY <2>2
  <2> QED
    BY <1>1, <2>3, <2>4
<1>5. CASE \E i, new : PulsesPair(i, new)
  <2>1. PICK i, new : PulsesPair(i, new)
    BY <1>5
  <2> QED
    BY <2>1, PulsedTable DEF PulsesPair
<1> QED
  BY <1>2, <1>3, <1>4, <1>5, PairSteps

\* An id that was deleted never names another pair, for any number of pairs:
\* ids come from a counter that the table's order keeps ahead of every pair.
\* (The counter is bounded by MaxPairId; the code's wraps after 2^32 pairs.)
THEOREM PairIdsNotReused == Spec => NoPairIdReuse
<1>1. Inv /\ [Next]_vars =>
        [\A k \in DOMAIN pairs' :
           \/ pairs'[k].id > nextPairId
           \/ \E j \in DOMAIN pairs : /\ pairs[j].id = pairs'[k].id
                                      /\ pairs[j].a = pairs'[k].a
                                      /\ pairs[j].b = pairs'[k].b]_vars
  BY PairIdStep
<1> QED
  BY <1>1, Invariance, PTL DEF Spec, NoPairIdReuse

LEMMA PulseStep ==
  ASSUME Inv, [Next]_vars, NEW k \in DOMAIN pairs, Len(pairs') = Len(pairs),
         pairs'[k].pulses # pairs[k].pulses
  PROVE  2 * Gap(nodes'[pairs[k].a].energy, nodes'[pairs[k].b].energy)
           <= Gap(nodes[pairs[k].a].energy, nodes[pairs[k].b].energy) + 1
<1>1. /\ pairs \in Seq(Pair) /\ DOMAIN pairs = 1 .. Len(pairs) /\ Len(pairs) \in Nat
      /\ nodes \in [Ids -> Node]
  BY LenProperties DEF Inv, TypeOK
<1>2. ASSUME NEW a, NEW b, NEW mode, pairs' = Append(pairs, NewPair(a, b, mode))
      PROVE  FALSE
  <2>1. pairs \in Seq(Pair \cup {NewPair(a, b, mode)})
    BY <1>1, SeqMonotonic
  <2>2. Len(pairs') = Len(pairs) + 1
    BY <1>2, <2>1, AppendProperties
  <2> QED
    BY <1>1, <2>2
<1>3. ASSUME NEW i \in 1 .. Len(pairs), pairs' = RemoveAt(pairs, i)
      PROVE  FALSE
  <2>1. Len(pairs') = Len(pairs) - 1
    BY <1>1, <1>3, RemoveAtProperties
  <2> QED
    BY <1>1, <2>1
<1>4. PICK i, new : PulsesPair(i, new)
  BY <1>2, <1>3, PairSteps
<1>5. i = k
  BY <1>1, <1>4, PulsedTable
<1> DEFINE a == pairs[k].a
           b == pairs[k].b
           e == new.energy
<1>6. /\ a \in Ids /\ b \in Ids /\ a # b /\ e \in Ppm
      /\ nodes' = [nodes EXCEPT ![a] = FedBack(@, e), ![b] = FedBack(@, e)]
  BY <1>4, <1>5 DEF PulsesPair, Pair
<1> HIDE DEF a, b, e
<1>7. nodes'[a] = FedBack(nodes[a], e) /\ nodes'[b] = FedBack(nodes[b], e)
  BY <1>1, <1>6
<1>8. /\ nodes'[a].energy = Mean(nodes[a].energy, e)
      /\ nodes'[b].energy = Mean(nodes[b].energy, e)
      /\ nodes[a].energy \in Ppm /\ nodes[b].energy \in Ppm
  <2>1. nodes[a] \in Node /\ nodes[b] \in Node
    BY <1>1, <1>6
  <2> QED
    BY <1>6, <1>7, <2>1, FedBackType DEF Node
<1>9. 2 * Gap(nodes'[a].energy, nodes'[b].energy) <= Gap(nodes[a].energy, nodes[b].energy) + 1
  BY <1>6, <1>8, MeanContracts
<1> QED
  BY <1>9 DEF a, b

\* A pulse brings the energies of its two endpoints together, for every ppm
\* range and every rounding; a # b, of PairTableOrdered, is needed.
THEOREM PulsesContract == Spec => PulseContracts
<1>1. Inv /\ [Next]_vars =>
        [\A k \in DOMAIN pairs :
           /\ Len(pairs') = Len(pairs)
           /\ pairs'[k].pulses # pairs[k].pulses
           => LET a == pairs[k].a
                  b == pairs[k].b
              IN  2 * Gap(nodes'[a].energy, nodes'[b].energy)
                    <= Gap(nodes[a].energy, nodes[b].energy) + 1]_vars
  BY PulseStep
<1> QED
  BY <1>1, Invariance, PTL DEF Spec, PulseContracts

\* Seeding leaves the default nodes and links, whatever clients did before.
THEOREM SeedingEstablishesDefaults == Spec => SeedEstablishesDefaults
<1>1. Inv /\ [Next]_vars =>
        [~seeded /\ seeded' => /\ \A i \in DefaultIds : nodes'[i].present
                               /\ {1, 2} \subseteq nodes'[0].links
                               /\ 0 \in nodes'[1].links \cap nodes'[2].links]_vars
  <2> SUFFICES ASSUME Inv, [Next]_vars, ~seeded, seeded'
               PROVE  /\ \A i \in DefaultIds : nodes'[i].present
                      /\ {1, 2} \subseteq nodes'[0].links
                      /\ 0 \in nodes'[1].links \cap nodes'[2].links
    OBVIOUS
  <2>1. Seed
    BY DEF Next, vars, Tick, Commit, Report, NodeCommand, LinkCommand, DuoCommand, AddNode,
           DelNode, Link, SetOnline, SetEnergy, SetHealth, SetField, Fail, AddPair, DelPair,
           Pulse, RegisterHook, UnregisterHook
  <2>2. nodes' = SeededTable
    BY <2>1 DEF Seed
  <2> QED
    BY <2>2, InvTable, SeededGood
<1> QED
  BY <1>1, Invariance, PTL DEF Spec, SeedEstablishesDefaults

-----------------------------------------------------------------------------
(* What a step may do to the nodes                                         *)

\* A counter that wraps at two or more moves when it is raised.
LEMMA BumpMoves ==
  ASSUME NEW m \in Nat, m > 1, NEW v \in 0 .. m - 1
  PROVE  Bumped(v, m) # v
<1>1. v + 1 < m => (v + 1) % m = v + 1
  BY SMT
<1>2. v + 1 = m => (v + 1) % m = 0
  BY SMT
<1> QED
  BY <1>1, <1>2 DEF Bumped

\* Only seeding and pulses write nodes without bumping the generation by one.
LEMMA NodeSteps ==
  ASSUME Inv, [Next]_vars, nodes' # nodes
  PROVE  \/ generation' = Bumped(generation, GenerationModulus)
         \/ ~seeded /\ seeded'
         \/ \E id, v : v \in PulseInputs /\ Pulse(id, v)
<1>1. CASE Seed
  BY <1>1 DEF Seed
<1>2. CASE Tick
  BY <1>2 DEF Tick, Commit
<1>3. CASE NodeCommand \/ LinkCommand
  BY <1>3 DEF NodeCommand, LinkCommand, AddNode, DelNode, Link, SetOnline, SetEnergy, SetHealth,
              SetField, Fail, Commit
<1>4. CASE DuoCommand
  BY <1>4 DEF DuoCommand, AddPair, DelPair, RegisterHook, UnregisterHook, Fail
<1> QED
  BY <1>1, <1>2, <1>3, <1>4 DEF Next, Report, vars

\* A pulse that writes nodes writes the energies of its endpoints, and its
\* count shows in the pair.
LEMMA PulseWrites ==
  ASSUME Inv, PulseModulus > 1, nodes' # nodes,
         NEW id, NEW v \in PulseInputs, Pulse(id, v)
  PROVE  \E k \in DOMAIN pairs :
           /\ pairs' # pairs /\ Len(pairs') = Len(pairs)
           /\ nodes' = [nodes EXCEPT ![pairs[k].a].energy = nodes'[pairs[k].a].energy,
                                     ![pairs[k].b].energy = nodes'[pairs[k].b].energy]
<1> DEFINE k == PairIndex(id)
           a == pairs[k].a
           b == pairs[k].b
           new == PulsedPair(pairs[k], nodes[a], nodes[b], Clamp(v, 0, MaxPpm))
           e == new.energy
<1>1. /\ k # 0 /\ Present(a) /\ Present(b)
      /\ pairs' = [pairs EXCEPT ![k] = new]
      /\ nodes' = [nodes EXCEPT ![a] = FedBack(@, e), ![b] = FedBack(@, e)]
  BY DEF Pulse, Fail
<1>2. /\ k \in 1 .. Len(pairs) /\ new \in Pair
      /\ a \in Ids /\ b \in Ids /\ a # b
  BY <1>1, InputsAssumption, PulseFacts
<1>3. pairs \in Seq(Pair) /\ DOMAIN pairs = 1 .. Len(pairs) /\ nodes \in [Ids -> Node]
  BY LenProperties DEF Inv, TypeOK
<1>4. new.pulses # pairs[k].pulses
  <2>1. new.pulses = Bumped(pairs[k].pulses, PulseModulus)
    <3>1. pairs[k] \in Pair
      BY <1>2, <1>3
    <3> QED
      BY <3>1 DEF PulsedPair, WithLadder, Pair
  <2>2. pairs[k].pulses \in 0 .. PulseModulus - 1
    <3>1. pairs[k] \in Pair
      BY <1>2, <1>3
    <3> QED
      BY <3>1 DEF Pair
  <2> QED
    BY <2>1, <2>2, CounterAssumption, BumpMoves
<1>5. e \in Ppm
  BY <1>2 DEF Pair
<1> HIDE DEF k, a, b, new, e
<1>6. Len(pairs') = Len(pairs) /\ pairs' # pairs
  <2>1. Len(pairs') = Len(pairs) /\ pairs'[k] = new
    BY <1>1, <1>2, <1>3, ExceptSeq
  <2> QED
    BY <1>4, <2>1
<1>7. nodes' = [nodes EXCEPT ![a].energy = nodes'[a].energy, ![b].energy = nodes'[b].energy]
  <2> DEFINE fa == FedBack(nodes[a], e)
             fb == FedBack(nodes[b], e)
  <2>1. nodes[a] \in Node /\ nodes[b] \in Node
    BY <1>2, <1>3
  <2>2. fa = [nodes[a] EXCEPT !.energy = fa.energy] /\ fb = [nodes[b] EXCEPT !.energy = fb.energy]
    BY <2>1 DEF FedBack, Node
  <2>3. nodes' = [nodes EXCEPT ![a] = fa, ![b] = fb]
    BY <1>1, <1>2, <1>3
  <2> HIDE DEF fa, fb
  <2>4. nodes'[a] = fa /\ nodes'[b] = fb
    BY <1>2, <1>3, <2>3
  <2> QED
    BY <1>2, <1>3, <2>2, <2>3, <2>4
<1>8. k \in DOMAIN pairs /\ a = pairs[k].a /\ b = pairs[k].b
  BY <1>2, <1>3 DEF a, b
<1> QED
  BY <1>6, <1>7, <1>8

\* The node table changes only with the generation, pulses and the seeding
\* apart, whenever the counters wrap at two or more.
THEOREM GenerationCoversTable ==
  ASSUME GenerationModulus > 1, PulseModulus > 1
  PROVE  Spec => GenerationCoversNodes
<1> DEFINE Covered ==
      \/ nodes' = nodes
      \/ generation' # generation
      \/ ~seeded /\ seeded'
      \/ \E k \in DOMAIN pairs :
           /\ pairs' # pairs /\ Len(pairs') = Len(pairs)
           /\ nodes' = [nodes EXCEPT ![pairs[k].a].energy = nodes'[pairs[k].a].energy,
                                     ![pairs[k].b].energy = nodes'[pairs[k].b].energy]
<1>1. Inv /\ [Next]_vars => [Covered]_vars
  <2> SUFFICES ASSUME Inv, [Next]_vars, nodes' # nodes
               PROVE  Covered
    OBVIOUS
  <2>1. generation' = Bumped(generation, GenerationModulus) => generation' # generation
    BY CounterAssumption, BumpMoves DEF Inv, TypeOK
  <2> QED
    BY <2>1, NodeSteps, PulseWrites
<1> QED
  BY <1>1, Invariance, PTL DEF Spec, GenerationCoversNodes

-----------------------------------------------------------------------------
(* The graph of a node table                                               *)

VerticesOf(t) == {i \in Ids : t[i].present}
EdgesOf(t) == UNION {{{i, j} : j \in t[i].links} : i \in Ids}

\* The set bits of the masks of the nodes in S, each with its node.
HalvesOf(t, S) == {h \in S \X Ids : h[2] \in t[h[1]].links}

LEMMA IdsAreFinite == IsFiniteSet(Ids)
  BY NodesAssumption, FS_Interval DEF Ids

LEMMA HalvesAreFinite ==
  ASSUME NEW t, NEW S \in SUBSET Ids
  PROVE  IsFiniteSet(HalvesOf(t, S)) /\ Cardinality(HalvesOf(t, S)) \in Nat
<1>1. IsFiniteSet(S \X Ids)
  BY IdsAreFinite, FS_Subset, FS_Product
<1>2. HalvesOf(t, S) \subseteq S \X Ids
  BY DEF HalvesOf
<1> QED
  BY <1>1, <1>2, FS_Subset, FS_CardinalityType

\* The bits of one mask.
LEMMA HalvesOfOne ==
  ASSUME NEW t \in NodeTable, NEW i \in Ids
  PROVE  Cardinality(HalvesOf(t, {i})) = IF t[i].present THEN Cardinality(t[i].links) ELSE 0
<1>1. t[i].links \in SUBSET Ids
  BY DEF NodeTable, Node
<1>2. HalvesOf(t, {i}) = {i} \X t[i].links
  BY <1>1, Zenon DEF HalvesOf
<1>3. IsFiniteSet(t[i].links) /\ IsFiniteSet({i}) /\ Cardinality({i}) = 1
  BY <1>1, IdsAreFinite, FS_Subset, FS_Singleton
<1>4. Cardinality(HalvesOf(t, {i})) = 1 * Cardinality(t[i].links)
  BY <1>2, <1>3, FS_Product
<1>5. Cardinality(t[i].links) \in Nat
  BY <1>3, FS_CardinalityType
<1>6. ~t[i].present => t[i].links = {}
  BY DEF NodeTable, WellFormed, NoNode
<1> QED
  BY <1>4, <1>5, <1>6, FS_EmptySet

\* The bits of a set of masks are those of one and of the others.
LEMMA HalvesSplit ==
  ASSUME NEW t \in NodeTable, NEW S \in SUBSET Ids, NEW i \in S
  PROVE  Cardinality(HalvesOf(t, S)) =
           Cardinality(HalvesOf(t, {i})) + Cardinality(HalvesOf(t, S \ {i}))
<1> DEFINE A == HalvesOf(t, {i})
           B == HalvesOf(t, S \ {i})
<1>1. HalvesOf(t, S) = A \cup B
  BY DEF HalvesOf
<1>2. A \cap B = {}
  BY DEF HalvesOf
<1>3. IsFiniteSet(A) /\ IsFiniteSet(B) /\ Cardinality(A) \in Nat /\ Cardinality(B) \in Nat
  BY HalvesAreFinite
<1> HIDE DEF A, B
<1>4. Cardinality(A \cup B) = Cardinality(A) + Cardinality(B) - Cardinality(A \cap B)
  BY <1>3, FS_Union
<1>5. Cardinality(A \cap B) = 0
  BY <1>2, FS_EmptySet
<1>6. Cardinality(HalvesOf(t, S)) = Cardinality(A) + Cardinality(B)
  BY <1>1, <1>3, <1>4, <1>5
<1> QED
  BY <1>6 DEF A, B

DegreeSum(t) ==
  MapThenSumSet(LAMBDA i : IF t[i].present THEN Cardinality(t[i].links) ELSE 0, Ids)

\* The sum of the masks' sizes is the number of their bits: the function the
\* sum is defined by can only be that number, for a set on which it were not
\* would, without the element it adds, leave a smaller one.
LEMMA SumCountsHalves ==
  ASSUME NEW t \in NodeTable
  PROVE  DegreeSum(t) = Cardinality(HalvesOf(t, Ids))
<1> DEFINE d(i) == IF t[i].present THEN Cardinality(t[i].links) ELSE 0
           Step(f) == [S \in SUBSET Ids |->
                         IF S = {} THEN 0
                         ELSE LET x == CHOOSE x \in S : TRUE IN d(x) + f[S \ {x}]]
           iter == CHOOSE f : f = Step(f)
           count == [S \in SUBSET Ids |-> Cardinality(HalvesOf(t, S))]
<1>1. DegreeSum(t) = iter[Ids]
  BY DEF DegreeSum, MapThenSumSet, MapThenFoldSet
<1>2. ASSUME NEW S \in SUBSET Ids, S # {}
      PROVE  LET x == CHOOSE x \in S : TRUE
             IN  x \in S /\ count[S] = d(x) + count[S \ {x}]
  <2> DEFINE x == CHOOSE x \in S : TRUE
  <2>1. x \in S
    BY <1>2
  <2> HIDE DEF x, d
  <2>2. count[S] = Cardinality(HalvesOf(t, S)) /\ count[S \ {x}] = Cardinality(HalvesOf(t, S \ {x}))
    OBVIOUS
  <2>3. Cardinality(HalvesOf(t, {x})) = d(x)
    BY <2>1, HalvesOfOne DEF d
  <2>4. x \in S /\ count[S] = d(x) + count[S \ {x}]
    BY <2>1, <2>2, <2>3, HalvesSplit
  <2> QED
    BY <2>4 DEF x
<1>3. HalvesOf(t, {}) = {}
  BY DEF HalvesOf
<1>4. count[{}] = 0
  BY <1>3, FS_EmptySet
<1>5. count = Step(count)
  BY <1>2, <1>4
<1>6. iter = Step(iter)
  BY <1>5
<1>8. \A S \in SUBSET Ids : iter[S] =
        IF S = {} THEN 0 ELSE LET x == CHOOSE x \in S : TRUE IN d(x) + iter[S \ {x}]
  BY <1>6
<1> HIDE DEF iter, d, Step
<1>7. \A S \in SUBSET Ids : iter[S] = count[S]
  <2> DEFINE Bad == {S \in SUBSET Ids : iter[S] # count[S]}
  <2> SUFFICES ASSUME Bad # {} PROVE FALSE
    OBVIOUS
  <2>1. \A S \in SUBSET Ids : IsFiniteSet(S) /\ Cardinality(S) \in Nat
    BY IdsAreFinite, FS_Subset, FS_CardinalityType
  <2> DEFINE Sizes == {Cardinality(S) : S \in Bad}
  <2>2. Sizes \in SUBSET Nat /\ Sizes # {}
    BY <2>1
  <2>9. Min(Sizes) \in Sizes /\ \A y \in Sizes : Min(Sizes) <= y
    BY <2>2, MinExists
  <2>3. PICK S \in Bad : \A T \in Bad : Cardinality(S) <= Cardinality(T)
    BY <2>9
  <2>4. S # {}
    <3>1. iter[{}] = 0
      BY <1>8
    <3> QED
      BY <3>1, <1>4
  <2> DEFINE x == CHOOSE x \in S : TRUE
  <2>5. x \in S /\ count[S] = d(x) + count[S \ {x}]
    BY <2>4, <1>2
  <2>6. iter[S] = d(x) + iter[S \ {x}]
    BY <2>4, <1>8
  <2> HIDE DEF x
  <2>7. Cardinality(S \ {x}) = Cardinality(S) - 1
    BY <2>1, <2>5, FS_RemoveElement, Zenon
  <2>8. S \ {x} \notin Bad
    <3>1. S \ {x} \in SUBSET Ids /\ Cardinality(S) \in Nat
      BY <2>1
    <3>2. ~(Cardinality(S) <= Cardinality(S \ {x}))
      BY <3>1, <2>7
    <3> QED
      BY <2>3, <3>2
  <2> QED
    BY <2>5, <2>6, <2>8
<1> QED
  BY <1>1, <1>7

\* An edge is a link, read from either end.
LEMMA EdgesAre ==
  ASSUME NEW t \in NodeTable
  PROVE  \A e : e \in EdgesOf(t) <=> \E i, j \in Ids : e = {i, j} /\ j \in t[i].links
<1>1. \A i \in Ids : t[i].links \subseteq Ids
  BY DEF NodeTable, Node
<1>2. \A e : e \in EdgesOf(t) <=> \E i \in Ids : e \in {{i, j} : j \in t[i].links}
  BY DEF EdgesOf
<1>3. \A e : \A i \in Ids :
        e \in {{i, j} : j \in t[i].links} <=> \E j \in t[i].links : e = {i, j}
  OBVIOUS
<1>4. ASSUME NEW e PROVE e \in EdgesOf(t) <=> \E i, j \in Ids : e = {i, j} /\ j \in t[i].links
  <2>1. ASSUME e \in EdgesOf(t) PROVE \E i, j \in Ids : e = {i, j} /\ j \in t[i].links
    <3>1. PICK i \in Ids : e \in {{i, j} : j \in t[i].links}
      BY <1>2, <2>1
    <3>2. PICK j \in t[i].links : e = {i, j}
      BY <3>1
    <3>3. j \in Ids
      BY <1>1
    <3> QED
      BY <3>2, <3>3
  <2>2. ASSUME NEW i \in Ids, NEW j \in Ids, e = {i, j}, j \in t[i].links
        PROVE  e \in EdgesOf(t)
    <3>1. e \in {{i, k} : k \in t[i].links}
      BY <2>2
    <3> QED
      BY <1>2, <3>1
  <2> QED
    BY <2>1, <2>2
<1> QED
  BY <1>4

\* A link is two bits: the bits that name a larger id stand for the edges, one
\* for each, and so do those that name a smaller one.
LEMMA EdgesAreHalved ==
  ASSUME NEW t \in NodeTable
  PROVE  /\ IsFiniteSet(EdgesOf(t))
         /\ Cardinality(HalvesOf(t, Ids)) = 2 * Cardinality(EdgesOf(t))
<1> DEFINE H == HalvesOf(t, Ids)
           Up == {h \in H : h[1] < h[2]}
           Down == {h \in H : h[2] < h[1]}
           up == [h \in Up |-> {h[1], h[2]}]
           down == [h \in Down |-> {h[1], h[2]}]
<1>1. Ids \subseteq Int
  BY DEF Ids
<1>2. \A h : h \in H <=> \E i, j \in Ids : h = <<i, j>> /\ j \in t[i].links
  BY DEF HalvesOf
<1>3. \A i, j \in Ids : j \in t[i].links => i # j /\ i \in t[j].links
  BY DEF NodeTable, WellFormed
<1>4. \A e : e \in EdgesOf(t) <=> \E i, j \in Ids : e = {i, j} /\ j \in t[i].links
  BY EdgesAre
<1>5. H = Up \cup Down /\ Up \cap Down = {}
  BY <1>1, <1>2, <1>3
<1>6. IsFiniteSet(Up) /\ IsFiniteSet(Down)
  <2>1. IsFiniteSet(H) /\ Up \subseteq H /\ Down \subseteq H
    BY HalvesAreFinite
  <2> QED
    BY <2>1, FS_Subset
<1> HIDE DEF H
<1>7. up \in Bijection(Up, EdgesOf(t))
  <2>1. \A h \in Up : up[h] \in EdgesOf(t)
    BY <1>2, <1>4
  <2>2. ASSUME NEW g \in Up, NEW h \in Up, up[g] = up[h]
        PROVE  g = h
    <3>1. PICK i, j \in Ids : g = <<i, j>> /\ i < j
      BY <1>2
    <3>2. PICK k, l \in Ids : h = <<k, l>> /\ k < l
      BY <1>2
    <3>3. {i, j} = {k, l}
      BY <2>2, <3>1, <3>2
    <3> QED
      BY <1>1, <3>1, <3>2, <3>3
  <2>3. ASSUME NEW e \in EdgesOf(t)
        PROVE  \E h \in Up : up[h] = e
    <3>1. PICK i, j \in Ids : e = {i, j} /\ j \in t[i].links
      BY <1>4
    <3>2. <<i, j>> \in H /\ <<j, i>> \in H /\ i # j /\ {i, j} = {j, i}
      BY <1>2, <1>3, <3>1
    <3>3. CASE i < j
      <4>1. <<i, j>> \in Up /\ up[<<i, j>>] = {i, j}
        BY <3>2, <3>3
      <4> QED
        BY <3>1, <4>1
    <3>4. CASE j < i
      <4>1. <<j, i>> \in Up /\ up[<<j, i>>] = {j, i}
        BY <3>2, <3>4
      <4> QED
        BY <3>1, <3>2, <4>1
    <3> QED
      BY <1>1, <3>2, <3>3, <3>4
  <2> HIDE DEF Up
  <2>4. up \in [Up -> EdgesOf(t)]
    BY <2>1
  <2> HIDE DEF up
  <2> QED
    BY <2>2, <2>3, <2>4 DEF Bijection, Injection, Surjection, IsInjective
<1>8. down \in Bijection(Down, EdgesOf(t))
  <2>1. \A h \in Down : down[h] \in EdgesOf(t)
    BY <1>2, <1>4
  <2>2. ASSUME NEW g \in Down, NEW h \in Down, down[g] = down[h]
        PROVE  g = h
    <3>1. PICK i, j \in Ids : g = <<i, j>> /\ j < i
      BY <1>2
    <3>2. PICK k, l \in Ids : h = <<k, l>> /\ l < k
      BY <1>2
    <3>3. {i, j} = {k, l}
      BY <2>2, <3>1, <3>2
    <3> QED
      BY <1>1, <3>1, <3>2, <3>3
  <2>3. ASSUME NEW e \in EdgesOf(t)
        PROVE  \E h \in Down : down[h] = e
    <3>1. PICK i, j \in Ids : e = {i, j} /\ j \in t[i].links
      BY <1>4
    <3>2. <<i, j>> \in H /\ <<j, i>> \in H /\ i # j /\ {i, j} = {j, i}
      BY <1>2, <1>3, <3>1
    <3>3. CASE j < i
      <4>1. <<i, j>> \in Down /\ down[<<i, j>>] = {i, j}
        BY <3>2, <3>3
      <4> QED
        BY <3>1, <4>1
    <3>4. CASE i < j
      <4>1. <<j, i>> \in Down /\ down[<<j, i>>] = {j, i}
        BY <3>2, <3>4
      <4> QED
        BY <3>1, <3>2, <4>1
    <3> QED
      BY <1>1, <3>2, <3>3, <3>4
  <2> HIDE DEF Down
  <2>4. down \in [Down -> EdgesOf(t)]
    BY <2>1
  <2> HIDE DEF down
  <2> QED
    BY <2>2, <2>3, <2>4 DEF Bijection, Injection, Surjection, IsInjective
<1> HIDE DEF Up, Down, up, down
<1>9. /\ IsFiniteSet(EdgesOf(t))
      /\ Cardinality(EdgesOf(t)) = Cardinality(Up)
      /\ Cardinality(EdgesOf(t)) = Cardinality(Down)
  <2>1. ExistsBijection(Up, EdgesOf(t)) /\ ExistsBijection(Down, EdgesOf(t))
    BY <1>7, <1>8 DEF ExistsBijection
  <2> QED
    BY <1>6, <2>1, FS_Bijection
<1>10. Cardinality(H) = Cardinality(Up) + Cardinality(Down)
  <2>1. Cardinality(H) = Cardinality(Up) + Cardinality(Down) - Cardinality(Up \cap Down)
    BY <1>5, <1>6, FS_Union
  <2>2. Cardinality(Up \cap Down) = 0
    BY <1>5, FS_EmptySet
  <2>3. Cardinality(Up) \in Nat /\ Cardinality(Down) \in Nat
    BY <1>6, FS_CardinalityType
  <2> QED
    BY <2>1, <2>2, <2>3
<1>11. Cardinality(Up) \in Nat
  BY <1>6, FS_CardinalityType
<1>12. Cardinality(H) = 2 * Cardinality(EdgesOf(t))
  <2> DEFINE n == Cardinality(Up)
  <2>1. Cardinality(Down) = n /\ Cardinality(EdgesOf(t)) = n
    BY <1>9
  <2>2. n \in Nat
    BY <1>11
  <2>3. Cardinality(H) = n + Cardinality(Down)
    BY <1>10
  <2> HIDE DEF n
  <2>4. n + n = 2 * n
    BY <2>2
  <2> QED
    BY <2>1, <2>3, <2>4
<1> QED
  BY <1>9, <1>12 DEF H

\* Half the sum of the masks' sizes is the number of edges.
LEMMA HalfTheSum ==
  ASSUME NEW t \in NodeTable
  PROVE  DegreeSum(t) \div 2 = Cardinality(EdgesOf(t))
<1>1. DegreeSum(t) = 2 * Cardinality(EdgesOf(t)) /\ IsFiniteSet(EdgesOf(t))
  BY SumCountsHalves, EdgesAreHalved
<1>2. Cardinality(EdgesOf(t)) \in Nat
  BY <1>1, FS_CardinalityType
<1>3. \A n \in Nat : (2 * n) \div 2 = n
  OBVIOUS
<1> QED
  BY <1>1, <1>2, <1>3

\* Tables with the same links have the same edges.
LEMMA SameEdges ==
  ASSUME NEW t, NEW u, \A i \in Ids : u[i].links = t[i].links
  PROVE  EdgesOf(u) = EdgesOf(t)
<1>1. \A i \in Ids : {{i, j} : j \in u[i].links} = {{i, j} : j \in t[i].links}
  OBVIOUS
<1> QED
  BY <1>1 DEF EdgesOf

\* Adding a node adds a vertex.
LEMMA WithNodeGraph ==
  ASSUME NEW t \in NodeTable, NEW id \in Ids
  PROVE  /\ VerticesOf(WithNode(t, id)) = VerticesOf(t) \cup {id}
         /\ EdgesOf(WithNode(t, id)) = EdgesOf(t)
<1> DEFINE u == WithNode(t, id)
<1>1. \A i \in Ids : u[i].present = (i = id \/ t[i].present)
  BY WithNodePresent
<1>2. \A i \in Ids : u[i].links = t[i].links
  <2>1. ~t[id].present => t[id].links = {}
    BY DEF NodeTable, WellFormed, NoNode
  <2>2. t \in [Ids -> Node] /\ FreshNode.links = {}
    BY DEF NodeTable, FreshNode
  <2> QED
    BY <2>1, <2>2 DEF WithNode
<1> HIDE DEF u
<1>3. VerticesOf(u) = VerticesOf(t) \cup {id}
  <2>1. t[id].present \in BOOLEAN
    BY DEF NodeTable, Node
  <2> QED
    BY <1>1, <2>1 DEF VerticesOf
<1>4. EdgesOf(u) = EdgesOf(t)
  BY <1>2, SameEdges
<1> QED
  BY <1>3, <1>4 DEF u

\* Deleting a node takes its links along.
LEMMA WithoutNodeGraph ==
  ASSUME NEW t \in NodeTable, NEW id \in Ids
  PROVE  /\ VerticesOf(WithoutNode(t, id)) = VerticesOf(t) \ {id}
         /\ EdgesOf(WithoutNode(t, id)) = {e \in EdgesOf(t) : id \notin e}
<1> DEFINE u == WithoutNode(t, id)
<1>1. u \in NodeTable
  BY WithoutNodeGood
<1>2. /\ \A i \in Ids : u[i].present <=> i # id /\ t[i].present
      /\ \A i, j \in Ids : j \in u[i].links <=> i # id /\ j # id /\ j \in t[i].links
  <2>1. t \in [Ids -> Node] /\ NoNode.links = {} /\ ~NoNode.present
    BY DEF NodeTable, NoNode
  <2>2. ASSUME NEW i \in Ids, i # id
        PROVE  u[i].present = t[i].present /\ u[i].links = t[i].links \ {id}
    <3>1. u[i] = [t[i] EXCEPT !.links = t[i].links \ {id}]
      BY <2>2 DEF WithoutNode
    <3>2. t[i] \in Node /\ t[i].links \ {id} \in SUBSET Ids
      BY <2>1 DEF Node
    <3> HIDE DEF u
    <3> QED
      BY <3>1, <3>2, Relinked
  <2>3. u[id] = NoNode
    BY DEF WithoutNode
  <2> HIDE DEF u
  <2>4. \A j \in Ids : j \in t[id].links => id \in t[j].links
    BY DEF NodeTable, WellFormed
  <2> QED
    BY <2>1, <2>2, <2>3, <2>4
<1> HIDE DEF u
<1>3. VerticesOf(u) = VerticesOf(t) \ {id}
  BY <1>2 DEF VerticesOf
<1>4. \A e : e \in EdgesOf(u) <=> e \in EdgesOf(t) /\ id \notin e
  <2>1. /\ \A e : e \in EdgesOf(u) <=> \E i, j \in Ids : e = {i, j} /\ j \in u[i].links
        /\ \A e : e \in EdgesOf(t) <=> \E i, j \in Ids : e = {i, j} /\ j \in t[i].links
    BY <1>1, EdgesAre
  <2> QED
    BY <1>2, <2>1
<1> QED
  BY <1>3, <1>4 DEF u

\* Linking two nodes adds an edge.
LEMMA WithLinkGraph ==
  ASSUME NEW t \in NodeTable, NEW a \in Ids, NEW b \in Ids, a # b,
         t[a].present, t[b].present
  PROVE  /\ VerticesOf(WithLink(t, a, b)) = VerticesOf(t)
         /\ EdgesOf(WithLink(t, a, b)) = EdgesOf(t) \cup {{a, b}}
<1> DEFINE A == t[a].links \cup {b}
           B == t[b].links \cup {a}
           na == [t[a] EXCEPT !.links = A]
           nb == [t[b] EXCEPT !.links = B]
           u == WithLink(t, a, b)
<1>1. t \in [Ids -> Node] /\ t[a] \in Node /\ t[b] \in Node
  BY DEF NodeTable
<1>2. A \in SUBSET Ids /\ B \in SUBSET Ids
  BY <1>1 DEF Node
<1>3. na.links = A /\ nb.links = B
  BY <1>1, <1>2, Relinked
<1>4. u = [i \in Ids |-> IF i = a THEN na ELSE IF i = b THEN nb ELSE t[i]]
  BY <1>1 DEF WithLink
<1>5. u \in NodeTable /\ \A i \in Ids : u[i].present = t[i].present
  BY WithLinkGood
<1> HIDE DEF na, nb, u
<1>6. \A i, j \in Ids : j \in u[i].links <=> j \in t[i].links \/ {i, j} = {a, b}
  <2>1. \A i, j : {i, j} = {a, b} <=> (i = a /\ j = b) \/ (i = b /\ j = a)
    OBVIOUS
  <2>2. /\ u[a].links = A /\ u[b].links = B
        /\ \A i \in Ids : i # a /\ i # b => u[i].links = t[i].links
    BY <1>3, <1>4
  <2> QED
    BY <2>1, <2>2
<1>7. VerticesOf(u) = VerticesOf(t)
  BY <1>5 DEF VerticesOf
<1>8. \A e : e \in EdgesOf(u) <=> e \in EdgesOf(t) \/ e = {a, b}
  <2>1. /\ \A e : e \in EdgesOf(u) <=> \E i, j \in Ids : e = {i, j} /\ j \in u[i].links
        /\ \A e : e \in EdgesOf(t) <=> \E i, j \in Ids : e = {i, j} /\ j \in t[i].links
    BY <1>5, EdgesAre
  <2>2. ASSUME NEW e, e \in EdgesOf(u) PROVE e \in EdgesOf(t) \/ e = {a, b}
    BY <1>6, <2>1, <2>2
  <2>3. ASSUME NEW e, e \in EdgesOf(t) PROVE e \in EdgesOf(u)
    BY <1>6, <2>1, <2>3
  <2>4. {a, b} \in EdgesOf(u)
    <3>1. b \in u[a].links
      BY <1>6
    <3> QED
      BY <2>1, <3>1
  <2> QED
    BY <2>2, <2>3, <2>4
<1> QED
  BY <1>7, <1>8 DEF u

\* Unlinking takes the edge away.
LEMMA WithoutLinkGraph ==
  ASSUME NEW t \in NodeTable, NEW a \in Ids, NEW b \in Ids, a # b,
         t[a].present, t[b].present
  PROVE  /\ VerticesOf(WithoutLink(t, a, b)) = VerticesOf(t)
         /\ EdgesOf(WithoutLink(t, a, b)) = EdgesOf(t) \ {{a, b}}
<1> DEFINE A == t[a].links \ {b}
           B == t[b].links \ {a}
           na == [t[a] EXCEPT !.links = A]
           nb == [t[b] EXCEPT !.links = B]
           u == WithoutLink(t, a, b)
<1>1. t \in [Ids -> Node] /\ t[a] \in Node /\ t[b] \in Node
  BY DEF NodeTable
<1>2. A \in SUBSET Ids /\ B \in SUBSET Ids
  BY <1>1 DEF Node
<1>3. /\ na.links = A /\ nb.links = B
      /\ na.present = t[a].present /\ nb.present = t[b].present
  BY <1>1, <1>2, Relinked
<1>4. u = [i \in Ids |-> IF i = a THEN na ELSE IF i = b THEN nb ELSE t[i]]
  BY <1>1 DEF WithoutLink
<1>5. u \in NodeTable
  BY WithoutLinkGood
<1> HIDE DEF na, nb, u
<1>6. /\ \A i, j \in Ids : j \in u[i].links <=> j \in t[i].links /\ {i, j} # {a, b}
      /\ \A i \in Ids : u[i].present = t[i].present
  <2>1. \A i, j : {i, j} = {a, b} <=> (i = a /\ j = b) \/ (i = b /\ j = a)
    OBVIOUS
  <2>2. /\ u[a] = na /\ u[b] = nb
        /\ \A i \in Ids : i # a /\ i # b => u[i] = t[i]
    BY <1>4
  <2>3. a \notin t[a].links /\ b \notin t[b].links
    BY DEF NodeTable, WellFormed
  <2>4. ASSUME NEW i \in Ids, NEW j \in Ids
        PROVE  j \in u[i].links <=> j \in t[i].links /\ {i, j} # {a, b}
    BY <1>3, <2>1, <2>2, <2>3
  <2> QED
    BY <1>3, <2>2, <2>4
<1>7. VerticesOf(u) = VerticesOf(t)
  BY <1>6 DEF VerticesOf
<1>8. \A e : e \in EdgesOf(u) <=> e \in EdgesOf(t) /\ e # {a, b}
  <2>1. /\ \A e : e \in EdgesOf(u) <=> \E i, j \in Ids : e = {i, j} /\ j \in u[i].links
        /\ \A e : e \in EdgesOf(t) <=> \E i, j \in Ids : e = {i, j} /\ j \in t[i].links
    BY <1>5, EdgesAre
  <2>2. ASSUME NEW e, e \in EdgesOf(u) PROVE e \in EdgesOf(t) /\ e # {a, b}
    BY <1>6, <2>1, <2>2
  <2>3. ASSUME NEW e, e \in EdgesOf(t), e # {a, b} PROVE e \in EdgesOf(u)
    BY <1>6, <2>1, <2>3
  <2> QED
    BY <2>2, <2>3
<1> QED
  BY <1>7, <1>8 DEF u

\* The seeding, five operations on the table, adds the default graph.
LEMMA SeededGraph ==
  ASSUME nodes \in NodeTable
  PROVE  /\ VerticesOf(SeededTable) = VerticesOf(nodes) \cup DefaultIds
         /\ EdgesOf(SeededTable) = EdgesOf(nodes) \cup {{0, 1}, {0, 2}}
<1> DEFINE t0 == WithNode(nodes, 0)
           t1 == WithNode(t0, 1)
           t2 == WithNode(t1, 2)
           t3 == WithLink(t2, 0, 1)
           t4 == WithLink(t3, 0, 2)
<1>1. 0 \in Ids /\ 1 \in Ids /\ 2 \in Ids
  BY NodesAssumption DEF Ids
<1>2. SeededTable = t4
  BY DEF SeededTable
<1> HIDE DEF t0, t1, t2, t3, t4
<1>3. /\ t0 \in NodeTable
      /\ VerticesOf(t0) = VerticesOf(nodes) \cup {0} /\ EdgesOf(t0) = EdgesOf(nodes)
  BY <1>1, WithNodeGood, WithNodeGraph DEF t0
<1>4. /\ t1 \in NodeTable
      /\ VerticesOf(t1) = VerticesOf(t0) \cup {1} /\ EdgesOf(t1) = EdgesOf(t0)
  BY <1>1, <1>3, WithNodeGood, WithNodeGraph DEF t1
<1>5. /\ t2 \in NodeTable
      /\ VerticesOf(t2) = VerticesOf(t1) \cup {2} /\ EdgesOf(t2) = EdgesOf(t1)
  BY <1>1, <1>4, WithNodeGood, WithNodeGraph DEF t2
<1>6. t2[0].present /\ t2[1].present /\ t2[2].present
  <2>1. {0, 1, 2} \subseteq VerticesOf(t2)
    BY <1>3, <1>4, <1>5
  <2> QED
    BY <2>1 DEF VerticesOf
<1>7. /\ t3 \in NodeTable /\ t3[0].present /\ t3[2].present
      /\ VerticesOf(t3) = VerticesOf(t2) /\ EdgesOf(t3) = EdgesOf(t2) \cup {{0, 1}}
  BY <1>1, <1>5, <1>6, WithLinkGood, WithLinkGraph DEF t3
<1>8. VerticesOf(t4) = VerticesOf(t3) /\ EdgesOf(t4) = EdgesOf(t3) \cup {{0, 2}}
  BY <1>1, <1>7, WithLinkGraph DEF t4
<1> QED
  BY <1>2, <1>3, <1>4, <1>5, <1>7, <1>8 DEF DefaultIds

-----------------------------------------------------------------------------
(* The node table implements the graph                                     *)

LEMMA GraphInit == Init => Graph!Init
<1> SUFFICES ASSUME Init PROVE Graph!Init
  OBVIOUS
<1>1. nodes \in NodeTable
  BY InitInv, InvTable
<1>2. \A i \in Ids : ~nodes[i].present /\ nodes[i].links = {}
  BY DEF Init, NoNode
<1>3. {i \in Ids : nodes[i].present} = {}
  BY <1>2
<1>4. UNION {{{i, j} : j \in nodes[i].links} : i \in Ids} = {}
  BY <1>2
<1>5. LinkCount = Cardinality(EdgesOf(nodes))
  BY <1>1, HalfTheSum DEF LinkCount, DegreeSum
<1>6. LinkCount = 0
  BY <1>4, <1>5, FS_EmptySet DEF EdgesOf
<1> QED
  BY <1>3, <1>4, <1>6 DEF Graph!Init

\* What a step does to the graph.
LEMMA GraphMoves ==
  ASSUME Inv, [Next]_vars
  PROVE  LET V == VerticesOf(nodes)
             E == EdgesOf(nodes)
             W == VerticesOf(nodes')
             F == EdgesOf(nodes')
         IN  \/ W = V /\ F = E
             \/ W = V \cup DefaultIds /\ F = E \cup {{0, 1}, {0, 2}}
             \/ \E v \in Ids : v \notin V /\ W = V \cup {v} /\ F = E
             \/ \E v \in Ids : v \in V /\ W = V \ {v} /\ F = {e \in E : v \notin e}
             \/ \E a, b \in Ids : /\ a # b /\ {a, b} \subseteq V /\ W = V
                                  /\ F = E \cup {{a, b}} \/ F = E \ {{a, b}}
<1> DEFINE V == VerticesOf(nodes)
           E == EdgesOf(nodes)
           W == VerticesOf(nodes')
           F == EdgesOf(nodes')
<1>0. nodes \in NodeTable /\ nodes \in [Ids -> Node]
  BY InvTable DEF NodeTable
<1>1. ASSUME \A i \in Ids : nodes'[i].links = nodes[i].links /\ nodes'[i].present = nodes[i].present
      PROVE  W = V /\ F = E
  BY <1>1, SameEdges DEF VerticesOf
<1>2. ASSUME NEW id, Present(id) PROVE id \in Ids /\ id \in V
  BY <1>2 DEF Present, VerticesOf
<1>3. CASE Seed
  BY <1>0, <1>3, SeededGraph DEF Seed
<1>4. CASE Tick
  <2>1. \A i \in Ids : nodes'[i] = IF Ticking(i) THEN TickedNode(nodes[i]) ELSE nodes[i]
    BY <1>4 DEF Tick, Commit
  <2> QED
    BY <1>0, <1>1, <2>1, TickedNodeType
<1>5. ASSUME NEW id, AddNode(id), nodes' # nodes
      PROVE  \E v \in Ids : v \notin V /\ W = V \cup {v} /\ F = E
  <2>1. id \in Ids /\ ~Present(id) /\ nodes' = WithNode(nodes, id)
    BY <1>5 DEF AddNode, Fail, Commit
  <2>2. id \notin V
    BY <2>1 DEF Present, VerticesOf
  <2> QED
    BY <1>0, <2>1, <2>2, WithNodeGraph
<1>6. ASSUME NEW id, DelNode(id), nodes' # nodes
      PROVE  \E v \in Ids : v \in V /\ W = V \ {v} /\ F = {e \in E : v \notin e}
  <2>1. Present(id) /\ nodes' = WithoutNode(nodes, id)
    BY <1>6 DEF DelNode, Fail, Commit
  <2> QED
    BY <1>0, <1>2, <2>1, WithoutNodeGraph
<1>7. ASSUME NEW a, NEW b, NEW enable, Link(a, b, enable), nodes' # nodes
      PROVE  \E x, y \in Ids : /\ x # y /\ {x, y} \subseteq V /\ W = V
                               /\ F = E \cup {{x, y}} \/ F = E \ {{x, y}}
  <2>1. /\ a # b /\ Present(a) /\ Present(b)
        /\ nodes' = WithLink(nodes, a, b) \/ nodes' = WithoutLink(nodes, a, b)
    BY <1>7 DEF Link, Fail, Commit
  <2>2. /\ a \in Ids /\ b \in Ids /\ a \in V /\ b \in V
        /\ nodes[a].present /\ nodes[b].present
    BY <1>2, <2>1 DEF Present
  <2>3. W = V /\ (F = E \cup {{a, b}} \/ F = E \ {{a, b}})
    BY <1>0, <2>1, <2>2, WithLinkGraph, WithoutLinkGraph
  <2> QED
    BY <2>1, <2>2, <2>3
<1>8. ASSUME NEW id, nodes' # nodes,
             \/ \E on \in OnlineInputs : SetOnline(id, on)
             \/ \E v \in EnergyInputs : SetEnergy(id, v)
             \/ \E v \in HealthInputs : SetHealth(id, v)
      PROVE  W = V /\ F = E
  <2>1. /\ id \in Ids
        /\ \/ \E on : nodes' = [nodes EXCEPT ![id].online = on]
           \/ \E v : nodes' = [nodes EXCEPT ![id].energy = v]
           \/ \E v : nodes' = [nodes EXCEPT ![id].health = v]
    BY <1>8 DEF SetOnline, SetEnergy, SetHealth, SetField, Fail, Commit, Present
  <2>2. nodes[id] \in Node
    BY <1>0, <2>1
  <2>3. \A i \in Ids : nodes'[i].links = nodes[i].links /\ nodes'[i].present = nodes[i].present
    BY <1>0, <2>1, <2>2 DEF Node
  <2> QED
    BY <1>1, <2>3
<1>9. ASSUME NEW id, NEW v \in PulseInputs, Pulse(id, v), nodes' # nodes
      PROVE  W = V /\ F = E
  <2> DEFINE k == PairIndex(id)
             a == pairs[k].a
             b == pairs[k].b
             new == PulsedPair(pairs[k], nodes[a], nodes[b], Clamp(v, 0, MaxPpm))
             e == new.energy
  <2>1. /\ k # 0 /\ Present(a) /\ Present(b)
        /\ nodes' = [nodes EXCEPT ![a] = FedBack(@, e), ![b] = FedBack(@, e)]
    BY <1>9 DEF Pulse, Fail
  <2>2. new \in Pair /\ a \in Ids /\ b \in Ids /\ a # b
    BY <1>9, <2>1, InputsAssumption, PulseFacts
  <2>3. e \in Ppm
    BY <2>2 DEF Pair
  <2> HIDE DEF k, a, b, new, e
  <2>4. \A n \in Node : FedBack(n, e).links = n.links /\ FedBack(n, e).present = n.present
    BY <2>3, FedBackType
  <2>5. \A i \in Ids : nodes'[i].links = nodes[i].links /\ nodes'[i].present = nodes[i].present
    BY <1>0, <2>1, <2>2, <2>4
  <2> QED
    BY <1>1, <2>5
<1>10. CASE nodes' = nodes
  BY <1>10
<1>11. CASE NodeCommand /\ nodes' # nodes
  BY <1>5, <1>6, <1>8, <1>11 DEF NodeCommand
<1>12. CASE LinkCommand /\ nodes' # nodes
  BY <1>7, <1>12 DEF LinkCommand
<1>13. CASE DuoCommand /\ nodes' # nodes
  <2>1. \E id, v : v \in PulseInputs /\ Pulse(id, v)
    BY <1>13 DEF DuoCommand, AddPair, DelPair, RegisterHook, UnregisterHook, Fail
  <2> QED
    BY <1>9, <1>13, <2>1
<1> QED
  BY <1>3, <1>4, <1>10, <1>11, <1>12, <1>13 DEF Next, Report, vars

LEMMA LinkCountIs == LinkCount = DegreeSum(nodes) \div 2
  BY DEF LinkCount, DegreeSum

LEMMA GraphNext ==
  ASSUME Inv, Inv', [Next]_vars
  PROVE  [Graph!Next]_(Graph!vars)
<1> DEFINE V == VerticesOf(nodes)
           E == EdgesOf(nodes)
           W == VerticesOf(nodes')
           F == EdgesOf(nodes')
<1>1. nodes \in NodeTable /\ nodes' \in NodeTable
  BY InvTable DEF Inv, TypeOK, LinksWellFormed, NodeTable, WellFormed
<1>2. LinkCount = Cardinality(E) /\ LinkCount' = Cardinality(F)
  <2>1. LinkCount = DegreeSum(nodes) \div 2
    BY LinkCountIs
  <2>2. LinkCount' = DegreeSum(nodes') \div 2
    <3>1. (LinkCount = DegreeSum(nodes) \div 2)'
      BY LinkCountIs, PTL
    <3> QED
      BY <3>1
  <2> QED
    BY <1>1, <2>1, <2>2, HalfTheSum
<1>3. \A S : Graph!Cardinality(S) = Cardinality(S)
  BY DEF Graph!Cardinality, Cardinality
<1>4. Graph!vars = <<V, E, LinkCount>>
  BY DEF Graph!vars, VerticesOf, EdgesOf
<1>5. Graph!vars' = <<W, F, LinkCount'>>
  BY DEF Graph!vars, VerticesOf, EdgesOf
<1>6. CASE W = V /\ F = E
  BY <1>2, <1>4, <1>5, <1>6
<1>7. CASE W = V \cup DefaultIds /\ F = E \cup {{0, 1}, {0, 2}}
  <2>1. Graph!Populate
    BY <1>7 DEF Graph!Populate, VerticesOf, EdgesOf
  <2> QED
    BY <1>2, <1>3, <2>1 DEF Graph!Next, EdgesOf
<1>8. ASSUME NEW v \in Ids, v \notin V, W = V \cup {v}, F = E
      PROVE  Graph!Next
  <2>1. Graph!AddVertex(v)
    BY <1>8 DEF Graph!AddVertex, VerticesOf, EdgesOf
  <2> QED
    BY <1>2, <1>3, <2>1 DEF Graph!Next, EdgesOf
<1>9. ASSUME NEW v \in Ids, v \in V, W = V \ {v}, F = {e \in E : v \notin e}
      PROVE  Graph!Next
  <2>1. Graph!RemoveVertex(v)
    BY <1>9 DEF Graph!RemoveVertex, VerticesOf, EdgesOf
  <2> QED
    BY <1>2, <1>3, <2>1 DEF Graph!Next, EdgesOf
<1>10. ASSUME NEW a \in Ids, NEW b \in Ids, a # b, {a, b} \subseteq V, W = V,
             F = E \cup {{a, b}} \/ F = E \ {{a, b}}
      PROVE  Graph!Next
  <2>1. Graph!Connect(a, b) \/ Graph!Disconnect(a, b)
    BY <1>10 DEF Graph!Connect, Graph!Disconnect, Graph!Edge, VerticesOf, EdgesOf
  <2> QED
    BY <1>2, <1>3, <2>1 DEF Graph!Next, EdgesOf
<1> QED
  BY <1>6, <1>7, <1>8, <1>9, <1>10, GraphMoves

\* The masks of the node table implement the undirected graph, and the link
\* count that clients are told is the number of its edges.
THEOREM GraphRefinement == Spec => ImplementsGraph
  BY GraphInit, GraphNext, Invariance, PTL DEF Spec, ImplementsGraph, Graph!Spec
=============================================================================
