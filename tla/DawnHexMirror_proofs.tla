------------------------ MODULE DawnHexMirror_proofs ------------------------
(***************************************************************************)
(* Proof that a client of DawnHexCluster that hears every event and asks   *)
(* nothing knows the state of the module, for every number of nodes and    *)
(* pairs and every sequence of commands, ticks and pulses.                 *)
(*                                                                         *)
(* A handler may emit many events, and the client folds over them.  What   *)
(* the fold gives is proved from a trail: a function that names the        *)
(* client's copy after every event of the handler (Trail).                 *)
(***************************************************************************)
EXTENDS DawnHexMirror, DawnHexCluster_proofs

-----------------------------------------------------------------------------
(* The fold over the events of a handler                                   *)

\* What the function behind the fold of Heard over s satisfies.
Folding(it, m, s, n) ==
  it = [S \in SUBSET (1 .. n) |->
          IF S = {} THEN m ELSE Heard(it[S \ {Max(S)}], s[Max(S)])]

HeardAll(m, s) == FoldLeft(Heard, m, s)

LEMMA FoldUnfolds ==
  ASSUME NEW m, NEW s, NEW n \in Nat, DOMAIN s = 1 .. n
  PROVE  HeardAll(m, s) = (CHOOSE it : Folding(it, m, s, n))[1 .. n]
  BY DEF HeardAll, FoldLeft, MapThenFoldSet, Folding

\* A set of numbers up to k + 1 that has k + 1 has it as its greatest.
LEMMA GreatestIs ==
  ASSUME NEW k \in Nat, NEW S \in SUBSET (1 .. k + 1), k + 1 \in S
  PROVE  Max(S) = k + 1 /\ S \ {k + 1} \in SUBSET (1 .. k)
<1>1. S \in SUBSET Nat /\ \A y \in S : k + 1 >= y
  OBVIOUS
<1>2. \A x \in S : (\A y \in S : x >= y) => x = k + 1
  BY <1>1
<1>3. Max(S) = k + 1
  BY <1>1, <1>2 DEF Max
<1> QED
  BY <1>3

\* There is such a function: the one for the first k + 1 events is put
\* together from the one for the first k.
LEMMA FoldingExists ==
  ASSUME NEW m, NEW s, NEW n \in Nat
  PROVE  \E it : Folding(it, m, s, n)
<1> DEFINE Bad == {k \in Nat : ~\E it : Folding(it, m, s, k)}
<1> SUFFICES ASSUME Bad # {} PROVE FALSE
  OBVIOUS
<1>1. PICK k \in Bad : \A l \in Bad : k <= l
  BY MinExists
<1>2. CASE k = 0
  <2> DEFINE it == [S \in SUBSET (1 .. 0) |-> m]
  <2>1. \A S \in SUBSET (1 .. 0) : S = {}
    OBVIOUS
  <2>2. Folding(it, m, s, 0)
    BY <2>1 DEF Folding
  <2> QED
    BY <1>2, <2>2
<1>3. CASE k # 0
  <2> DEFINE j == k - 1
  <2>1. j \in Nat /\ k = j + 1 /\ j \notin Bad
    BY <1>1, <1>3
  <2>2. PICK f : Folding(f, m, s, j)
    BY <2>1
  <2> HIDE DEF j
  <2> DEFINE it == [S \in SUBSET (1 .. j + 1) |->
                      IF j + 1 \in S THEN Heard(f[S \ {j + 1}], s[j + 1]) ELSE f[S]]
             next(S) == IF S = {} THEN m ELSE Heard(it[S \ {Max(S)}], s[Max(S)])
  <2>3. ASSUME NEW S \in SUBSET (1 .. j + 1), j + 1 \in S
        PROVE  it[S] = next(S)
    <3>1. Max(S) = j + 1 /\ S \ {j + 1} \in SUBSET (1 .. j)
      BY <2>1, <2>3, GreatestIs
    <3>2. S \ {j + 1} \in SUBSET (1 .. j + 1) /\ j + 1 \notin S \ {j + 1}
      OBVIOUS
    <3>3. it[S \ {j + 1}] = f[S \ {j + 1}]
      BY <3>2
    <3> QED
      BY <2>3, <3>1, <3>3
  <2>4. ASSUME NEW S \in SUBSET (1 .. j + 1), j + 1 \notin S
        PROVE  it[S] = next(S)
    <3>1. S \in SUBSET (1 .. j)
      BY <2>1, <2>4
    <3>2. it[S] = f[S]
      BY <2>4
    <3>3. f[S] = IF S = {} THEN m ELSE Heard(f[S \ {Max(S)}], s[Max(S)])
      BY <2>2, <3>1 DEF Folding
    <3>4. S \ {Max(S)} \in SUBSET (1 .. j + 1) /\ j + 1 \notin S \ {Max(S)}
      BY <2>4
    <3>5. it[S \ {Max(S)}] = f[S \ {Max(S)}]
      BY <3>4
    <3> QED
      BY <3>2, <3>3, <3>5
  <2>5. Folding(it, m, s, j + 1)
    <3> HIDE DEF it
    <3>1. it = [S \in SUBSET (1 .. j + 1) |-> it[S]]
      BY DEF it
    <3>2. \A S \in SUBSET (1 .. j + 1) : it[S] = next(S)
      BY <2>3, <2>4
    <3> QED
      BY <3>1, <3>2 DEF Folding
  <2> QED
    BY <2>1, <2>5
<1> QED
  BY <1>2, <1>3

\* If g names the client's copy after each event, the fold ends where g does.
LEMMA Trail ==
  ASSUME NEW m, NEW s, NEW n \in Nat, DOMAIN s = 1 .. n,
         NEW g, g[0] = m, \A k \in 1 .. n : g[k] = Heard(g[k - 1], s[k])
  PROVE  HeardAll(m, s) = g[n]
<1> DEFINE it == CHOOSE f : Folding(f, m, s, n)
<1>1. Folding(it, m, s, n)
  BY FoldingExists
<1> HIDE DEF it
<1> DEFINE Bad == {k \in 0 .. n : it[1 .. k] # g[k]}
<1>2. Bad = {}
  <2> SUFFICES ASSUME Bad # {} PROVE FALSE
    OBVIOUS
  <2>0. Bad \in SUBSET Nat
    OBVIOUS
  <2>1. PICK k \in Bad : \A l \in Bad : k <= l
    BY <2>0, MinExists
  <2>2. \A S \in SUBSET (1 .. n) : it[S] =
          IF S = {} THEN m ELSE Heard(it[S \ {Max(S)}], s[Max(S)])
    BY <1>1 DEF Folding
  <2>3. CASE k = 0
    <3>1. 1 .. 0 = {} /\ 1 .. 0 \in SUBSET (1 .. n)
      OBVIOUS
    <3>2. it[1 .. 0] = m
      BY <2>2, <3>1
    <3> QED
      BY <2>1, <2>3, <3>2
  <2>4. CASE k # 0
    <3> DEFINE j == k - 1
    <3>1. j \in Nat /\ j \in 0 .. n /\ k = j + 1 /\ k \in 1 .. n /\ j \notin Bad
      BY <2>1, <2>4
    <3> HIDE DEF j
    <3>2. it[1 .. j] = g[j]
      BY <3>1
    <3>3. 1 .. k \in SUBSET (1 .. j + 1) /\ j + 1 \in 1 .. k /\ (1 .. k) \ {k} = 1 .. j
      BY <3>1
    <3>4. Max(1 .. k) = k
      BY <3>1, <3>3, GreatestIs
    <3>5. 1 .. k # {} /\ 1 .. k \in SUBSET (1 .. n)
      BY <3>1
    <3>6. it[1 .. k] = Heard(it[1 .. j], s[k])
      BY <2>2, <3>3, <3>4, <3>5
    <3>7. g[k] = Heard(g[j], s[k])
      <4>1. k - 1 = j
        BY <3>1
      <4> QED
        BY <3>1, <4>1
    <3> QED
      BY <2>1, <3>2, <3>6, <3>7
  <2> QED
    BY <2>3, <2>4
<1>3. HeardAll(m, s) = it[1 .. n]
  BY FoldUnfolds DEF it
<1>4. n \in 0 .. n
  OBVIOUS
<1> QED
  BY <1>2, <1>3, <1>4

LEMMA HeardNone ==
  ASSUME NEW m PROVE HeardAll(m, <<>>) = m
<1> DEFINE s == <<>>
           n == 0
           g == [k \in 0 .. n |-> m]
<1>1. /\ n \in Nat /\ DOMAIN s = 1 .. n /\ g[0] = m /\ g[n] = m
      /\ \A k \in 1 .. n : g[k] = Heard(g[k - 1], s[k])
  OBVIOUS
<1> HIDE DEF g, s, n
<1>2. HeardAll(m, s) = g[n]
  BY <1>1, Trail
<1> QED
  BY <1>1, <1>2 DEF s

LEMMA HeardOne ==
  ASSUME NEW m, NEW e PROVE HeardAll(m, <<e>>) = Heard(m, e)
<1> DEFINE s == <<e>>
           n == 1
           g == [k \in 0 .. n |-> IF k = 0 THEN m ELSE Heard(m, e)]
<1>1. n \in Nat /\ DOMAIN s = 1 .. n /\ g[0] = m /\ g[n] = Heard(m, e)
  OBVIOUS
<1>2. \A k \in 1 .. n : g[k] = Heard(g[k - 1], s[k])
  <2>1. \A k \in 1 .. n : k = n /\ k - 1 = 0 /\ s[k] = e
    OBVIOUS
  <2> HIDE DEF g
  <2> QED
    BY <1>1, <2>1
<1> HIDE DEF g, s, n
<1>3. HeardAll(m, s) = g[n]
  BY <1>1, <1>2, Trail
<1> QED
  BY <1>1, <1>3 DEF s
-----------------------------------------------------------------------------
(* Ids in rising order                                                     *)

Rank(S, i) == Cardinality({j \in S : j <= i})

\* Each element of a set of ids has a rank of its own, and each rank up to the
\* number of elements is taken.
LEMMA RanksAre ==
  ASSUME NEW S \in SUBSET Ids
  PROVE  /\ Cardinality(S) \in Nat
         /\ \A i \in S : Rank(S, i) \in 1 .. Cardinality(S)
         /\ \A i, j \in S : Rank(S, i) = Rank(S, j) => i = j
         /\ \A k \in 1 .. Cardinality(S) : \E i \in S : Rank(S, i) = k
<1> DEFINE n == Cardinality(S)
           Upto(i) == {j \in S : j <= i}
<1>1. /\ S \subseteq Int
      /\ \A T \in SUBSET S : IsFiniteSet(T) /\ Cardinality(T) \in Nat
  <2>1. \A T \in SUBSET S : T \subseteq Ids
    OBVIOUS
  <2>2. Ids \subseteq Int
    BY DEF Ids
  <2> QED
    BY <2>1, <2>2, IdsAreFinite, FS_Subset, FS_CardinalityType
<1>2. \A i \in S : IsFiniteSet(Upto(i)) /\ Cardinality(Upto(i)) \in Nat /\ i \in Upto(i)
  BY <1>1
<1>3. ASSUME NEW i \in S
      PROVE  Rank(S, i) \in 1 .. n
  <2>1. Upto(i) \in SUBSET S /\ IsFiniteSet(S) /\ n \in Nat
    BY <1>1
  <2>2. Cardinality(Upto(i)) <= n
    BY <2>1, FS_Subset
  <2>3. Cardinality(Upto(i)) # 0
    BY <1>2, FS_EmptySet
  <2> QED
    BY <1>2, <2>1, <2>2, <2>3 DEF Rank
<1>4. ASSUME NEW i \in S, NEW j \in S, i < j
      PROVE  Rank(S, i) < Rank(S, j)
  <2>0. i \in Int /\ j \in Int /\ \A l \in S : l \in Int
    BY <1>1
  <2>1. Upto(i) \subseteq Upto(j) \ {j}
    <3> SUFFICES ASSUME NEW l \in S, l <= i PROVE l <= j /\ l # j
      OBVIOUS
    <3> QED
      BY <1>4, <2>0
  <2>2. IsFiniteSet(Upto(j) \ {j}) /\ Cardinality(Upto(j) \ {j}) = Cardinality(Upto(j)) - 1
    BY <1>2, FS_RemoveElement
  <2>3. Cardinality(Upto(i)) <= Cardinality(Upto(j) \ {j})
    BY <2>1, <2>2, FS_Subset
  <2>4. Rank(S, i) = Cardinality(Upto(i)) /\ Rank(S, j) = Cardinality(Upto(j))
    BY DEF Rank
  <2>5. Cardinality(Upto(i)) \in Nat /\ Cardinality(Upto(j)) \in Nat
    BY <1>2
  <2> HIDE DEF Upto
  <2> QED
    BY <2>2, <2>3, <2>4, <2>5
<1>5. \A i, j \in S : Rank(S, i) = Rank(S, j) => i = j
  <2> SUFFICES ASSUME NEW i \in S, NEW j \in S, i # j PROVE Rank(S, i) # Rank(S, j)
    OBVIOUS
  <2>1. i < j \/ j < i
    BY <1>1
  <2>2. Rank(S, i) \in Int /\ Rank(S, j) \in Int
    BY <1>3
  <2> QED
    BY <1>4, <2>1, <2>2
<1>6. ASSUME NEW k \in 1 .. n
      PROVE  \E i \in S : Rank(S, i) = k
  <2> DEFINE f == [i \in S |-> Rank(S, i)]
  <2>1. n \in Nat
    BY <1>1
  <2>2. IsFiniteSet(1 .. n) /\ Cardinality(1 .. n) = n
    BY <2>1, FS_Interval
  <2>3. f \in Injection(S, 1 .. n)
    BY <1>3, <1>5 DEF Injection, IsInjective
  <2> HIDE DEF n
  <2>4. f \in Surjection(S, 1 .. n)
    <3>1. Cardinality(S) = Cardinality(1 .. n)
      BY <2>2 DEF n
    <3> HIDE DEF f
    <3> QED
      BY <2>2, <2>3, <3>1, FS_Injection
  <2>5. PICK i \in S : f[i] = k
    BY <2>4 DEF Surjection
  <2> QED
    BY <2>5
<1> QED
  BY <1>1, <1>3, <1>5, <1>6

\* A list of n entries that names every id of a set once.
Lists(order, n, S) ==
  /\ n \in Nat /\ DOMAIN order = 1 .. n
  /\ \A k \in 1 .. n : order[k] \in S
  /\ \A k, l \in 1 .. n : order[k] = order[l] => k = l
  /\ \A i \in S : \E k \in 1 .. n : order[k] = i

LEMMA InOrderIs ==
  ASSUME NEW S \in SUBSET Ids
  PROVE  Lists(InOrder(S), Cardinality(S), S)
<1> DEFINE n == Cardinality(S)
           order == InOrder(S)
<1>1. order = [k \in 1 .. n |-> CHOOSE i \in S : Rank(S, i) = k]
  BY DEF InOrder, Rank
<1> HIDE DEF order, n
<1>2. \A k \in 1 .. n : order[k] \in S /\ Rank(S, order[k]) = k
  BY <1>1, RanksAre DEF n
<1>3. \A i \in S : Rank(S, i) \in 1 .. n /\ order[Rank(S, i)] = i
  BY <1>2, RanksAre DEF n
<1>4. n \in Nat
  BY RanksAre DEF n
<1> QED
  BY <1>1, <1>2, <1>3, <1>4 DEF order, n, Lists

-----------------------------------------------------------------------------
(* Pairs by id                                                             *)

View(p) == [a |-> p.a, b |-> p.b, mode |-> p.mode,
            energy |-> p.energy, pressure |-> p.pressure, last |-> p.last]

\* A pair table in which a lookup finds the only pair of its id.
Ordered(t) ==
  /\ t \in Seq(Pair)
  /\ \A j, k \in 1 .. Len(t) : t[j].id = t[k].id => j = k

ById(t) ==
  [id \in {t[k].id : k \in DOMAIN t} |-> View(t[SelectInSeq(t, LAMBDA p : p.id = id)])]

LEMMA PairsByIdIs == PairsById = ById(pairs)
  BY DEF PairsById, ById, PairIndex, View

\* The copy of a table is whatever has its ids and shows its pairs.
LEMMA ByIdUnique ==
  ASSUME NEW t, Ordered(t), NEW f, NEW D, f = [id \in D |-> f[id]],
         \A id : id \in D <=> \E k \in 1 .. Len(t) : t[k].id = id,
         \A k \in 1 .. Len(t) : f[t[k].id] = View(t[k])
  PROVE  ById(t) = f
<1>1. DOMAIN t = 1 .. Len(t) /\ Len(t) \in Nat
  BY LenProperties DEF Ordered
<1>2. D = {t[k].id : k \in DOMAIN t}
  BY <1>1
<1>3. ASSUME NEW id \in D
      PROVE  View(t[SelectInSeq(t, LAMBDA p : p.id = id)]) = f[id]
  <2> DEFINE I == {i \in 1 .. Len(t) : t[i].id = id}
  <2>1. I # {} /\ I \in SUBSET Nat
    BY <1>1
  <2>2. SelectInSeq(t, LAMBDA p : p.id = id) = Min(I)
    BY <2>1 DEF SelectInSeq
  <2>3. Min(I) \in I
    BY <2>1, MinExists
  <2> HIDE DEF I
  <2>4. Min(I) \in 1 .. Len(t) /\ t[Min(I)].id = id
    BY <2>3 DEF I
  <2> QED
    BY <2>2, <2>4
<1> QED
  BY <1>2, <1>3 DEF ById

LEMMA ByIdShows ==
  ASSUME NEW t, Ordered(t)
  PROVE  /\ ById(t) = [id \in DOMAIN ById(t) |-> ById(t)[id]]
         /\ \A id : id \in DOMAIN ById(t) <=> \E k \in 1 .. Len(t) : t[k].id = id
         /\ \A k \in 1 .. Len(t) : ById(t)[t[k].id] = View(t[k])
<1> DEFINE D == {t[k].id : k \in 1 .. Len(t)}
           at(id) == CHOOSE k \in 1 .. Len(t) : t[k].id = id
           f == [id \in D |-> View(t[at(id)])]
<1>1. \A k \in 1 .. Len(t) : at(t[k].id) = k
  BY DEF Ordered
<1> HIDE DEF at
<1>2. /\ \A id : id \in D <=> \E k \in 1 .. Len(t) : t[k].id = id
      /\ \A k \in 1 .. Len(t) : f[t[k].id] = View(t[k])
  BY <1>1
<1>3. f = [id \in D |-> f[id]] /\ DOMAIN f = D
  OBVIOUS
<1> HIDE DEF f, D
<1>4. ById(t) = f
  BY <1>2, <1>3, ByIdUnique
<1> QED
  BY <1>2, <1>3, <1>4

Added(m, id, x) == [i \in DOMAIN m \cup {id} |-> IF i = id THEN x ELSE m[i]]
Dropped(m, id) == [i \in DOMAIN m \ {id} |-> m[i]]

\* A new pair of a new id.
LEMMA ByIdAppend ==
  ASSUME NEW t, Ordered(t), NEW p \in Pair, \A k \in 1 .. Len(t) : t[k].id # p.id
  PROVE  ById(Append(t, p)) = Added(ById(t), p.id, View(p))
<1> DEFINE u == Append(t, p)
           m == ById(t)
           D == DOMAIN m \cup {p.id}
           f == [id \in D |-> IF id = p.id THEN View(p) ELSE m[id]]
           n == Len(t)
<1>1. /\ n \in Nat /\ u \in Seq(Pair) /\ Len(u) = n + 1
      /\ \A k \in 1 .. n : u[k] = t[k]
      /\ u[n + 1] = p
  BY AppendProperties, LenProperties DEF Ordered
<1>2. /\ \A id : id \in DOMAIN m <=> \E k \in 1 .. n : t[k].id = id
      /\ \A k \in 1 .. n : m[t[k].id] = View(t[k])
  BY ByIdShows
<1> HIDE DEF u, m, n
<1>3. \A k \in 1 .. n + 1 : k \in 1 .. n \/ k = n + 1
  BY <1>1
<1>4. 1 .. n \subseteq 1 .. n + 1 /\ n + 1 \in 1 .. n + 1
  BY <1>1
<1>5. Ordered(u)
  <2> SUFFICES ASSUME NEW j \in 1 .. n + 1, NEW k \in 1 .. n + 1, u[j].id = u[k].id
               PROVE  j = k
    BY <1>1 DEF Ordered
  <2> QED
    BY <1>1, <1>3 DEF Ordered, n
<1>6. \A id : id \in D <=> \E k \in 1 .. n + 1 : u[k].id = id
  BY <1>1, <1>2, <1>3, <1>4
<1>7. \A k \in 1 .. n + 1 : f[u[k].id] = View(u[k])
  <2>1. ASSUME NEW k \in 1 .. n PROVE f[u[k].id] = View(u[k])
    <3>1. t[k].id # p.id /\ t[k].id \in DOMAIN m /\ u[k] = t[k]
      BY <1>1, <1>2 DEF n
    <3> QED
      BY <1>2, <3>1
  <2>2. f[u[n + 1].id] = View(u[n + 1])
    BY <1>1
  <2> QED
    BY <1>3, <2>1, <2>2
<1>8. f = [id \in D |-> f[id]]
  OBVIOUS
<1> HIDE DEF f, D
<1>9. ById(u) = f
  BY <1>1, <1>5, <1>6, <1>7, <1>8, ByIdUnique
<1> QED
  BY <1>9 DEF f, D, m, u, Added

\* A pair taken out of the table.
LEMMA ByIdRemove ==
  ASSUME NEW t, Ordered(t), NEW i \in 1 .. Len(t)
  PROVE  ById(RemoveAt(t, i)) = Dropped(ById(t), t[i].id)
<1> DEFINE u == RemoveAt(t, i)
           m == ById(t)
           D == DOMAIN m \ {t[i].id}
           f == [id \in D |-> m[id]]
           n == Len(t)
           from(k) == IF k < i THEN k ELSE k + 1
<1>1. /\ n \in Nat /\ u \in Seq(Pair) /\ Len(u) = n - 1 /\ i \in 1 .. n
      /\ \A k \in 1 .. n - 1 : u[k] = IF k < i THEN t[k] ELSE t[k + 1]
  BY RemoveAtProperties, LenProperties DEF Ordered
<1>2. /\ \A id : id \in DOMAIN m <=> \E k \in 1 .. n : t[k].id = id
      /\ \A k \in 1 .. n : m[t[k].id] = View(t[k])
      /\ \A j, k \in 1 .. n : t[j].id = t[k].id => j = k
  BY ByIdShows DEF Ordered
<1> HIDE DEF u, m, n
<1>3. \A k \in 1 .. n - 1 : from(k) \in 1 .. n /\ from(k) # i /\ u[k] = t[from(k)]
  BY <1>1
<1>4. \A j, k \in 1 .. n - 1 : from(j) = from(k) => j = k
  BY <1>1
<1>5. \A k \in 1 .. n : k # i => \E j \in 1 .. n - 1 : from(j) = k
  <2> SUFFICES ASSUME NEW k \in 1 .. n, k # i PROVE \E j \in 1 .. n - 1 : from(j) = k
    OBVIOUS
  <2>1. CASE k < i
    <3>1. k \in 1 .. n - 1 /\ from(k) = k
      BY <1>1, <2>1
    <3> QED
      BY <3>1
  <2>2. CASE k > i
    <3>1. k - 1 \in 1 .. n - 1 /\ from(k - 1) = k
      BY <1>1, <2>2
    <3> QED
      BY <3>1
  <2> QED
    BY <1>1, <2>1, <2>2
<1> HIDE DEF from
<1>6. Ordered(u)
  <2> SUFFICES ASSUME NEW j \in 1 .. n - 1, NEW k \in 1 .. n - 1, u[j].id = u[k].id
               PROVE  j = k
    BY <1>1 DEF Ordered
  <2> QED
    BY <1>2, <1>3, <1>4
<1>7. \A id : id \in D <=> \E k \in 1 .. n - 1 : u[k].id = id
  <2>1. ASSUME NEW id, id \in D PROVE \E k \in 1 .. n - 1 : u[k].id = id
    <3>1. PICK k \in 1 .. n : t[k].id = id /\ k # i
      BY <1>2, <2>1
    <3>2. PICK j \in 1 .. n - 1 : from(j) = k
      BY <1>5, <3>1
    <3> QED
      BY <1>3, <3>1, <3>2
  <2>2. ASSUME NEW k \in 1 .. n - 1 PROVE u[k].id \in D
    <3>1. t[from(k)].id \in DOMAIN m /\ t[from(k)].id # t[i].id
      BY <1>1, <1>2, <1>3
    <3> QED
      BY <1>3, <3>1
  <2> QED
    BY <2>1, <2>2
<1>8. \A k \in 1 .. n - 1 : f[u[k].id] = View(u[k])
  <2> SUFFICES ASSUME NEW k \in 1 .. n - 1 PROVE f[u[k].id] = View(u[k])
    OBVIOUS
  <2>1. u[k].id \in D
    BY <1>7
  <2>2. m[t[from(k)].id] = View(t[from(k)])
    BY <1>2, <1>3
  <2> HIDE DEF D
  <2> QED
    BY <1>3, <2>1, <2>2
<1>9. f = [id \in D |-> f[id]]
  OBVIOUS
<1> HIDE DEF f, D
<1>10. ById(u) = f
  BY <1>1, <1>6, <1>7, <1>8, <1>9, ByIdUnique
<1> QED
  BY <1>10 DEF f, D, m, u, Dropped

\* A pair replaced by one of the same id.
LEMMA ByIdReplace ==
  ASSUME NEW t, Ordered(t), NEW i \in 1 .. Len(t), NEW p \in Pair, p.id = t[i].id
  PROVE  ById([t EXCEPT ![i] = p]) = [ById(t) EXCEPT ![p.id] = View(p)]
<1> DEFINE u == [t EXCEPT ![i] = p]
           m == ById(t)
           D == DOMAIN m
           f == [m EXCEPT ![p.id] = View(p)]
           n == Len(t)
<1>1. /\ u \in Seq(Pair) /\ Len(u) = n
      /\ \A k \in 1 .. n : u[k] = IF k = i THEN p ELSE t[k]
  BY ExceptSeq DEF Ordered
<1>2. /\ \A id : id \in D <=> \E k \in 1 .. n : t[k].id = id
      /\ \A k \in 1 .. n : m[t[k].id] = View(t[k])
      /\ \A j, k \in 1 .. n : t[j].id = t[k].id => j = k
      /\ m = [id \in D |-> m[id]]
  BY ByIdShows DEF Ordered
<1> HIDE DEF u, m, n
<1>3. \A k \in 1 .. n : u[k].id = t[k].id
  BY <1>1
<1>4. Ordered(u)
  <2> SUFFICES ASSUME NEW j \in 1 .. n, NEW k \in 1 .. n, u[j].id = u[k].id
               PROVE  j = k
    BY <1>1 DEF Ordered
  <2> QED
    BY <1>2, <1>3
<1>5. \A id : id \in D <=> \E k \in 1 .. n : u[k].id = id
  BY <1>2, <1>3
<1>6. \A k \in 1 .. n : f[u[k].id] = View(u[k])
  <2> SUFFICES ASSUME NEW k \in 1 .. n PROVE f[t[k].id] = View(u[k])
    BY <1>3
  <2>1. t[k].id \in D
    BY <1>2
  <2>2. i \in 1 .. n
    BY DEF n
  <2>3. CASE k = i
    BY <1>1, <2>1, <2>3
  <2>4. CASE k # i
    <3>1. t[k].id # p.id
      BY <1>2, <2>2, <2>4
    <3> QED
      BY <1>1, <1>2, <2>1, <2>4, <3>1
  <2> QED
    BY <2>3, <2>4
<1>7. f = [id \in D |-> f[id]]
  BY <1>2
<1> HIDE DEF f, D
<1>8. ById(u) = f
  BY <1>1, <1>4, <1>5, <1>6, <1>7, ByIdUnique
<1> QED
  BY <1>8 DEF f, m, u
-----------------------------------------------------------------------------
(* What the client makes of each event                                     *)

Copy(n, p) == [nodes |-> n, pairs |-> p]

OnlineIs(n, id, v) == [n EXCEPT ![id].online = v]
EnergyIs(n, id, v) == [n EXCEPT ![id].energy = v]
HealthIs(n, id, v) == [n EXCEPT ![id].health = v]
TickedIs(n, id, v, w) == [n EXCEPT ![id] = [@ EXCEPT !.energy = v, !.health = w]]

LEMMA HearsNode ==
  ASSUME NEW n \in [Ids -> Node], NEW p, NEW id \in Ids
  PROVE  /\ Heard(Copy(n, p), Event("add", <<id>>)) = Copy([n EXCEPT ![id] = FreshNode], p)
         /\ Heard(Copy(n, p), Event("del", <<id>>)) = Copy(WithoutNode(n, id), p)
<1>1. Heard(Copy(n, p), Event("add", <<id>>)) = Copy([n EXCEPT ![id] = FreshNode], p)
  BY DEF Heard, Event, Copy
<1>2. Heard(Copy(n, p), Event("del", <<id>>)) = Copy(WithoutNode(n, id), p)
  BY DEF Heard, Event, Copy, WithoutNode
<1> QED
  BY <1>1, <1>2

LEMMA HearsOnline ==
  ASSUME NEW n, NEW p, NEW id, NEW v
  PROVE  Heard(Copy(n, p), Event("online", <<id, v>>)) = Copy(OnlineIs(n, id, v), p)
  BY DEF Heard, Event, Copy, OnlineIs

LEMMA HearsEnergy ==
  ASSUME NEW n, NEW p, NEW id, NEW v
  PROVE  Heard(Copy(n, p), Event("energy", <<id, v>>)) = Copy(EnergyIs(n, id, v), p)
  BY DEF Heard, Event, Copy, EnergyIs

LEMMA HearsHealth ==
  ASSUME NEW n, NEW p, NEW id, NEW v
  PROVE  Heard(Copy(n, p), Event("health", <<id, v>>)) = Copy(HealthIs(n, id, v), p)
  BY DEF Heard, Event, Copy, HealthIs

LEMMA HearsTick ==
  ASSUME NEW n, NEW p, NEW id, NEW v, NEW w
  PROVE  Heard(Copy(n, p), Event("tick", <<id, v, w>>)) = Copy(TickedIs(n, id, v, w), p)
  BY DEF Heard, Event, Copy, TickedIs

LEMMA HearsLink ==
  ASSUME NEW n \in [Ids -> Node], NEW p, NEW a \in Ids, NEW b \in Ids, a # b
  PROVE  /\ Heard(Copy(n, p), Event("link", <<a, b>>)) = Copy(WithLink(n, a, b), p)
         /\ Heard(Copy(n, p), Event("unlink", <<a, b>>)) = Copy(WithoutLink(n, a, b), p)
<1>1. Heard(Copy(n, p), Event("link", <<a, b>>)) = Copy(WithLink(n, a, b), p)
  BY DEF Heard, Event, Copy, WithLink
<1>2. Heard(Copy(n, p), Event("unlink", <<a, b>>)) = Copy(WithoutLink(n, a, b), p)
  BY DEF Heard, Event, Copy, WithoutLink
<1> QED
  BY <1>1, <1>2

LEMMA HearsAddedPair ==
  ASSUME NEW n, NEW p, NEW id, NEW a, NEW b, NEW mode
  PROVE  Heard(Copy(n, p), Event("duo_add", <<id, a, b, mode>>)) =
           Copy(n, Added(p, id, MirroredPair(a, b, mode)))
  BY DEF Heard, Event, Copy, Added

LEMMA HearsDroppedPair ==
  ASSUME NEW n, NEW p, NEW id
  PROVE  Heard(Copy(n, p), Event("duo_del", <<id>>)) = Copy(n, Dropped(p, id))
  BY DEF Heard, Event, Copy, Dropped

\* Both ends of a pulsed pair move to the mean of their energy and the pair's.
FedNodes(n, a, b, e) ==
  [n EXCEPT ![a].energy = Mean(n[a].energy, e), ![b].energy = Mean(n[b].energy, e)]

PulsedShown(x, energy, pressure, value) ==
  [x EXCEPT !.energy = energy, !.pressure = pressure, !.last = value]

LEMMA HearsPulse ==
  ASSUME NEW n, NEW p, NEW id, NEW a, NEW b, NEW value, NEW energy, NEW pressure,
         p[id].a = a, p[id].b = b
  PROVE  Heard(Copy(n, p), Event("duo_pulse", <<id, value, energy, pressure>>)) =
           Copy(FedNodes(n, a, b, energy),
                [p EXCEPT ![id] = PulsedShown(p[id], energy, pressure, value)])
<1>1. Heard(Copy(n, p), Event("duo_pulse", <<id, value, energy, pressure>>)) =
        MirrorPulse(Copy(n, p), id, value, energy, pressure)
  BY DEF Heard, Event
<1>2. MirrorPulse(Copy(n, p), id, value, energy, pressure) =
        Copy(FedNodes(n, a, b, energy),
             [p EXCEPT ![id] = PulsedShown(p[id], energy, pressure, value)])
  BY DEF MirrorPulse, Copy, FedNodes, PulsedShown
<1> QED
  BY <1>1, <1>2

LEMMA HearsOther ==
  ASSUME NEW m, NEW arg,
         NEW kind \in {"snapshot", "duo_snapshot", "help", "duo_hook_register",
                       "duo_hook_unregister"}
  PROVE  Heard(m, Event(kind, arg)) = m
  BY DEF Heard, Event
-----------------------------------------------------------------------------
(* The client's copy after a handler                                       *)

Tracks == mirror = Copy(nodes, ById(pairs))

\* What is known of the tables before a step.
LEMMA Tables ==
  ASSUME Inv
  PROVE  nodes \in [Ids -> Node] /\ Ordered(pairs) /\ DOMAIN pairs = 1 .. Len(pairs)
<1>1. pairs \in Seq(Pair) /\ nodes \in [Ids -> Node]
  BY DEF Inv, TypeOK
<1>2. DOMAIN pairs = 1 .. Len(pairs) /\ Len(pairs) \in Nat
  BY <1>1, LenProperties
<1>3. ASSUME NEW j \in 1 .. Len(pairs), NEW k \in 1 .. Len(pairs), pairs[j].id = pairs[k].id
      PROVE  j = k
  <2>1. pairs[j].id \in Int /\ pairs[k].id \in Int
    <3>1. pairs[j] \in Pair /\ pairs[k] \in Pair
      BY <1>1, ElementOfSeq
    <3> QED
      BY <3>1 DEF Pair
  <2>2. j < k => pairs[j].id < pairs[k].id
    BY <1>2 DEF Inv, PairTableOrdered
  <2>3. k < j => pairs[k].id < pairs[j].id
    BY <1>2 DEF Inv, PairTableOrdered
  <2> QED
    BY <1>2, <1>3, <2>1, <2>2, <2>3
<1> QED
  BY <1>1, <1>2, <1>3 DEF Ordered

\* A handler that emits nothing and changes nothing.
LEMMA QuietTracks ==
  ASSUME Tracks, mirror' = HeardAll(mirror, out'.events), out'.events = <<>>,
         UNCHANGED <<nodes, pairs>>
  PROVE  Tracks'
  BY HeardNone DEF Tracks

LEMMA FailTracks ==
  ASSUME Tracks, mirror' = HeardAll(mirror, out'.events), NEW code, Fail(code)
  PROVE  Tracks'
  BY QuietTracks DEF Fail

\* A handler that emits one event, which tells what it did to the nodes.
LEMMA CommitTracks ==
  ASSUME Tracks, mirror' = HeardAll(mirror, out'.events), NEW e, NEW table,
         Commit(table, <<e>>), Heard(Copy(nodes, ById(pairs)), e) = Copy(table, ById(pairs))
  PROVE  Tracks'
<1>1. out'.events = <<e>> /\ nodes' = table /\ pairs' = pairs
  BY DEF Commit, Succeed
<1>2. mirror' = Heard(mirror, e)
  BY <1>1, HeardOne
<1> QED
  BY <1>1, <1>2 DEF Tracks

\* A handler that emits one event and leaves the nodes alone.
LEMMA PairTracks ==
  ASSUME Tracks, mirror' = HeardAll(mirror, out'.events), NEW e,
         Succeed(<<e>>), nodes' = nodes,
         Heard(Copy(nodes, ById(pairs)), e) = Copy(nodes, ById(pairs'))
  PROVE  Tracks'
<1>1. out'.events = <<e>>
  BY DEF Succeed
<1>2. mirror' = Heard(mirror, e)
  BY <1>1, HeardOne
<1> QED
  BY <1>2 DEF Tracks

LEMMA NodeCommandTracks ==
  ASSUME Inv, Tracks, mirror' = HeardAll(mirror, out'.events), NodeCommand
  PROVE  Tracks'
<1>0. nodes \in [Ids -> Node]
  BY Tables
<1> PICK id \in ClientIds :
      \/ AddNode(id)
      \/ DelNode(id)
      \/ \E on \in OnlineInputs : SetOnline(id, on)
      \/ \E v \in EnergyInputs : SetEnergy(id, v)
      \/ \E v \in HealthInputs : SetHealth(id, v)
  BY DEF NodeCommand
<1>1. CASE \E code : Fail(code)
  BY <1>1, FailTracks
<1>2. CASE /\ id \in Ids /\ ~Present(id)
           /\ Commit(WithNode(nodes, id), <<Event("add", <<id>>)>>)
  <2>1. WithNode(nodes, id) = [nodes EXCEPT ![id] = FreshNode]
    BY <1>2 DEF WithNode, Present
  <2>2. Heard(Copy(nodes, ById(pairs)), Event("add", <<id>>)) =
          Copy([nodes EXCEPT ![id] = FreshNode], ById(pairs))
    BY <1>0, <1>2, HearsNode
  <2> QED
    BY <1>2, <2>1, <2>2, CommitTracks
<1>3. CASE Present(id) /\ Commit(WithoutNode(nodes, id), <<Event("del", <<id>>)>>)
  <2>1. id \in Ids
    BY <1>3 DEF Present
  <2> QED
    BY <1>0, <1>3, <2>1, HearsNode, CommitTracks
<1>4. ASSUME NEW v, Present(id),
             \/ Commit([nodes EXCEPT ![id].online = v], <<Event("online", <<id, v>>)>>)
             \/ Commit([nodes EXCEPT ![id].energy = v], <<Event("energy", <<id, v>>)>>)
             \/ Commit([nodes EXCEPT ![id].health = v], <<Event("health", <<id, v>>)>>)
      PROVE  Tracks'
  <2>1. id \in Ids
    BY <1>4 DEF Present
  <2>2. CASE Commit([nodes EXCEPT ![id].online = v], <<Event("online", <<id, v>>)>>)
    <3> DEFINE table == OnlineIs(nodes, id, v)
    <3>1. Heard(Copy(nodes, ById(pairs)), Event("online", <<id, v>>)) = Copy(table, ById(pairs))
      BY HearsOnline
    <3>2. Commit(table, <<Event("online", <<id, v>>)>>)
      BY <2>2 DEF OnlineIs
    <3> HIDE DEF table
    <3> QED
      BY <3>1, <3>2, CommitTracks
  <2>3. CASE Commit([nodes EXCEPT ![id].energy = v], <<Event("energy", <<id, v>>)>>)
    <3> DEFINE table == EnergyIs(nodes, id, v)
    <3>1. Heard(Copy(nodes, ById(pairs)), Event("energy", <<id, v>>)) = Copy(table, ById(pairs))
      BY HearsEnergy
    <3>2. Commit(table, <<Event("energy", <<id, v>>)>>)
      BY <2>3 DEF EnergyIs
    <3> HIDE DEF table
    <3> QED
      BY <3>1, <3>2, CommitTracks
  <2>4. CASE Commit([nodes EXCEPT ![id].health = v], <<Event("health", <<id, v>>)>>)
    <3> DEFINE table == HealthIs(nodes, id, v)
    <3>1. Heard(Copy(nodes, ById(pairs)), Event("health", <<id, v>>)) = Copy(table, ById(pairs))
      BY HearsHealth
    <3>2. Commit(table, <<Event("health", <<id, v>>)>>)
      BY <2>4 DEF HealthIs
    <3> HIDE DEF table
    <3> QED
      BY <3>1, <3>2, CommitTracks
  <2> QED
    BY <1>4, <2>2, <2>3, <2>4
<1>5. CASE AddNode(id)
  BY <1>1, <1>2, <1>5 DEF AddNode
<1>6. CASE DelNode(id)
  BY <1>1, <1>3, <1>6 DEF DelNode
<1>7. ASSUME NEW on, SetOnline(id, on) PROVE Tracks'
  <2>1. \/ Fail("ENOENT")
        \/ /\ Present(id)
           /\ \E x : Commit([nodes EXCEPT ![id].online = x], <<Event("online", <<id, x>>)>>)
    BY <1>7 DEF SetOnline, SetField
  <2> QED
    BY <1>1, <1>4, <2>1
<1>8. ASSUME NEW v, SetEnergy(id, v) PROVE Tracks'
  <2>1. \/ Fail("ENOENT")
        \/ /\ Present(id)
           /\ \E x : Commit([nodes EXCEPT ![id].energy = x], <<Event("energy", <<id, x>>)>>)
    BY <1>8 DEF SetEnergy, SetField
  <2> QED
    BY <1>1, <1>4, <2>1
<1>9. ASSUME NEW v, SetHealth(id, v) PROVE Tracks'
  <2>1. \/ Fail("ENOENT")
        \/ /\ Present(id)
           /\ \E x : Commit([nodes EXCEPT ![id].health = x], <<Event("health", <<id, x>>)>>)
    BY <1>9 DEF SetHealth, SetField
  <2> QED
    BY <1>1, <1>4, <2>1
<1> QED
  BY <1>5, <1>6, <1>7, <1>8, <1>9

LEMMA LinkCommandTracks ==
  ASSUME Inv, Tracks, mirror' = HeardAll(mirror, out'.events), LinkCommand
  PROVE  Tracks'
<1>0. nodes \in [Ids -> Node]
  BY Tables
<1>1. PICK a, b, enable : Link(a, b, enable)
  BY DEF LinkCommand
<1>2. CASE \E code : Fail(code)
  BY <1>2, FailTracks
<1>3. CASE /\ a # b /\ Present(a) /\ Present(b)
           /\ \/ Commit(WithLink(nodes, a, b), <<Event("link", <<a, b>>)>>)
              \/ Commit(WithoutLink(nodes, a, b), <<Event("unlink", <<a, b>>)>>)
  <2>1. a \in Ids /\ b \in Ids
    BY <1>3 DEF Present
  <2>2. CASE Commit(WithLink(nodes, a, b), <<Event("link", <<a, b>>)>>)
    BY <1>0, <1>3, <2>1, <2>2, HearsLink, CommitTracks
  <2>3. CASE Commit(WithoutLink(nodes, a, b), <<Event("unlink", <<a, b>>)>>)
    BY <1>0, <1>3, <2>1, <2>3, HearsLink, CommitTracks
  <2> QED
    BY <1>3, <2>2, <2>3
<1> QED
  BY <1>1, <1>2, <1>3 DEF Link

LEMMA ReportTracks ==
  ASSUME Tracks, mirror' = HeardAll(mirror, out'.events), Report
  PROVE  Tracks'
<1>1. PICK kind \in {"snapshot", "duo_snapshot", "help"} :
        \E arg : Succeed(<<Event(kind, arg)>>)
  BY DEF Report
<1>2. PICK arg : Succeed(<<Event(kind, arg)>>)
  BY <1>1
<1>3. nodes' = nodes /\ pairs' = pairs
  BY DEF Report
<1> DEFINE m == Copy(nodes, ById(pairs))
<1>4. Heard(m, Event(kind, arg)) = m
  BY HearsOther
<1> QED
  BY <1>2, <1>3, <1>4, PairTracks

LEMMA AddPairTracks ==
  ASSUME Inv, Tracks, mirror' = HeardAll(mirror, out'.events),
         NEW a, NEW b, NEW mode \in Modes, AddPair(a, b, mode)
  PROVE  Tracks'
<1>1. CASE \E code : Fail(code)
  BY <1>1, FailTracks
<1>2. CASE /\ Present(a) /\ Present(b)
           /\ nextPairId < MaxPairId
           /\ pairs' = Append(pairs, NewPair(a, b, mode))
           /\ Succeed(<<Event("duo_add", <<NewPairId, a, b, mode>>)>>)
           /\ UNCHANGED nodes
  <2> DEFINE p == NewPair(a, b, mode)
             id == NewPairId
             m == ById(pairs)
  <2>1. nextPairId \in Nat /\ nextPairId + 1 \in 1 .. MaxPairId
    BY <1>2, PairsAssumption DEF Inv, TypeOK
  <2>2. p \in Pair /\ p.id = id /\ View(p) = MirroredPair(a, b, mode)
    <3>1. MaxPpm \div 2 \in Ppm /\ 0 \in Ppm /\ 0 \in 0 .. PulseModulus - 1
      BY PpmAssumption, CounterAssumption DEF Ppm
    <3> QED
      BY <1>2, <2>1, <3>1 DEF NewPair, WithLadder, NewPairId, Present, Pair, View, MirroredPair
  <2>3. Ordered(pairs)
    BY Tables
  <2>4. ASSUME NEW k \in 1 .. Len(pairs) PROVE pairs[k].id # id
    <3>1. pairs[k].id <= nextPairId
      BY Tables DEF Inv, PairTableOrdered
    <3>2. pairs[k].id \in Nat
      <4>1. pairs[k] \in Pair
        BY <2>3, ElementOfSeq DEF Ordered
      <4> QED
        BY <4>1 DEF Pair
    <3> QED
      BY <2>1, <3>1, <3>2 DEF NewPairId
  <2> HIDE DEF p, id, m
  <2>5. ById(Append(pairs, p)) = Added(m, id, View(p))
    BY <2>2, <2>3, <2>4, ByIdAppend DEF m
  <2>6. Heard(Copy(nodes, m), Event("duo_add", <<id, a, b, mode>>)) =
          Copy(nodes, Added(m, id, MirroredPair(a, b, mode)))
    BY HearsAddedPair
  <2>7. Heard(Copy(nodes, m), Event("duo_add", <<id, a, b, mode>>)) = Copy(nodes, ById(pairs'))
    BY <1>2, <2>2, <2>5, <2>6 DEF p
  <2>8. Succeed(<<Event("duo_add", <<id, a, b, mode>>)>>) /\ nodes' = nodes
    BY <1>2 DEF id
  <2> QED
    BY <2>7, <2>8, PairTracks DEF m
<1> QED
  BY <1>1, <1>2 DEF AddPair

LEMMA DelPairTracks ==
  ASSUME Inv, Tracks, mirror' = HeardAll(mirror, out'.events), NEW id, DelPair(id)
  PROVE  Tracks'
<1>1. CASE \E code : Fail(code)
  BY <1>1, FailTracks
<1>2. CASE /\ PairIndex(id) # 0
           /\ pairs' = RemoveAt(pairs, PairIndex(id))
           /\ Succeed(<<Event("duo_del", <<id>>)>>)
           /\ UNCHANGED nodes
  <2> DEFINE k == PairIndex(id)
  <2>1. Ordered(pairs) /\ k \in 1 .. Len(pairs) /\ pairs[k].id = id
    BY <1>2, Tables, PairIndexFinds DEF Ordered
  <2> HIDE DEF k
  <2>2. ById(RemoveAt(pairs, k)) = Dropped(ById(pairs), id)
    BY <2>1, ByIdRemove
  <2>3. Heard(Copy(nodes, ById(pairs)), Event("duo_del", <<id>>)) = Copy(nodes, ById(pairs'))
    BY <1>2, <2>2, HearsDroppedPair DEF k
  <2> QED
    BY <1>2, <2>3, PairTracks
<1> QED
  BY <1>1, <1>2 DEF DelPair

\* The feedback the client repeats is the one the module makes.
LEMMA FedBackIs ==
  ASSUME NEW n \in Node, NEW e \in Ppm
  PROVE  FedBack(n, e) = [n EXCEPT !.energy = Mean(n.energy, e)]
<1> DEFINE m == Mean(n.energy, e)
<1>1. m \in Ppm
  BY MeanType DEF Node
<1> HIDE DEF m
<1>2. Clamp(m, 0, MaxPpm) = m
  BY <1>1, PpmAssumption DEF Clamp, Ppm
<1> QED
  BY <1>2 DEF FedBack, m

LEMMA ShownIs ==
  ASSUME NEW a, NEW b, NEW mode, NEW e, NEW p, NEW l, NEW energy, NEW pressure, NEW value
  PROVE  PulsedShown([a |-> a, b |-> b, mode |-> mode, energy |-> e, pressure |-> p, last |-> l],
                     energy, pressure, value) =
           [a |-> a, b |-> b, mode |-> mode,
            energy |-> energy, pressure |-> pressure, last |-> value]
<1> DEFINE r == [a |-> a, b |-> b, mode |-> mode, energy |-> e, pressure |-> p, last |-> l]
           s == PulsedShown(r, energy, pressure, value)
           R == [a : {a}, b : {b}, mode : {mode},
                 energy : {e, energy}, pressure : {p, pressure}, last : {l, value}]
<1>1. r \in R
  OBVIOUS
<1>2. /\ s \in R
      /\ s.energy = energy /\ s.pressure = pressure /\ s.last = value
  BY <1>1 DEF PulsedShown
<1>3. s.a = a /\ s.b = b /\ s.mode = mode
  BY <1>2
<1> HIDE DEF r, s
<1>4. s = [a |-> a, b |-> b, mode |-> mode,
           energy |-> energy, pressure |-> pressure, last |-> value]
  BY <1>2, <1>3
<1> QED
  BY <1>4 DEF s, r

LEMMA PulsedView ==
  ASSUME NEW p \in Pair, NEW na, NEW nb, NEW value,
         NEW q, q = PulsedPair(p, na, nb, value)
  PROVE  View(q) = PulsedShown(View(p), q.energy, q.pressure, q.last)
<1> DEFINE energy == Clamp(Mean(Mean(na.energy, nb.energy), value), 0, MaxPpm)
           pressure == Clamp(Mean(Mean(na.health, nb.health), MaxPpm - value), 0, MaxPpm)
           pulses == Bumped(p.pulses, PulseModulus)
<1>1. q = [p EXCEPT !.last = value, !.pulses = pulses, !.energy = energy,
                    !.pressure = pressure, !.ladder = <<energy, pressure>>]
  BY DEF PulsedPair, WithLadder, Pair
<1> HIDE DEF energy, pressure, pulses
<1>2. q.a = p.a /\ q.b = p.b /\ q.mode = p.mode
  BY <1>1 DEF Pair
<1>3. PulsedShown(View(p), q.energy, q.pressure, q.last) =
        [a |-> p.a, b |-> p.b, mode |-> p.mode,
         energy |-> q.energy, pressure |-> q.pressure, last |-> q.last]
  BY ShownIs DEF View
<1> QED
  BY <1>2, <1>3 DEF View

LEMMA PulseTracks ==
  ASSUME Inv, Tracks, mirror' = HeardAll(mirror, out'.events),
         NEW id, NEW v \in Nat, Pulse(id, v)
  PROVE  Tracks'
<1> DEFINE k == PairIndex(id)
           old == pairs[k]
           new == PulsedPair(old, nodes[old.a], nodes[old.b], Clamp(v, 0, MaxPpm))
<1>1. CASE \E code : Fail(code)
  BY <1>1, FailTracks
<1>2. CASE /\ k # 0
           /\ Present(old.a) /\ Present(old.b)
           /\ pairs' = [pairs EXCEPT ![k] = new]
           /\ nodes' = [nodes EXCEPT ![old.a] = FedBack(@, new.energy),
                                     ![old.b] = FedBack(@, new.energy)]
           /\ out'.events = <<Event("duo_pulse", <<id, new.last, new.energy, new.pressure>>)>>
  <2> DEFINE m == ById(pairs)
             e == Event("duo_pulse", <<id, new.last, new.energy, new.pressure>>)
             shown == PulsedShown(View(old), new.energy, new.pressure, new.last)
  <2>1. /\ k \in 1 .. Len(pairs)
        /\ old \in Pair /\ new \in Pair
        /\ old.a \in Ids /\ old.b \in Ids /\ old.a # old.b
        /\ new.id = old.id /\ new.a = old.a /\ new.b = old.b
    BY <1>2, PulseFacts
  <2>2. Ordered(pairs) /\ nodes \in [Ids -> Node]
    BY Tables
  <2>3. old.id = id
    BY <1>2, <2>2, PairIndexFinds DEF Ordered
  <2>4. View(new) = shown
    BY <2>1, PulsedView
  <2>5. m[id] = View(old)
    BY <2>1, <2>2, <2>3, ByIdShows
  <2>6. new.energy \in Ppm
    BY <2>1 DEF Pair
  <2> HIDE DEF k, new
  <2>7. ById(pairs') = [m EXCEPT ![id] = shown]
    <3>1. ById([pairs EXCEPT ![k] = new]) = [ById(pairs) EXCEPT ![new.id] = View(new)]
      BY <2>1, <2>2, ByIdReplace
    <3> QED
      BY <1>2, <2>1, <2>3, <2>4, <3>1
  <2> DEFINE fed(i) == [nodes[i] EXCEPT !.energy = Mean(nodes[i].energy, new.energy)]
             table == [i \in Ids |-> IF i = old.a \/ i = old.b THEN fed(i) ELSE nodes[i]]
  <2>8. nodes' = table
    <3>1. nodes' = [i \in Ids |-> IF i = old.a \/ i = old.b
                                  THEN FedBack(nodes[i], new.energy) ELSE nodes[i]]
      BY <1>2, <2>1, <2>2
    <3>2. \A i \in Ids : FedBack(nodes[i], new.energy) = fed(i)
      BY <2>2, <2>6, FedBackIs
    <3> HIDE DEF fed
    <3> QED
      BY <3>1, <3>2
  <2>9. Heard(Copy(nodes, m), e) = Copy(table, [m EXCEPT ![id] = shown])
    <3>1. m[id].a = old.a /\ m[id].b = old.b
      BY <2>5 DEF View
    <3>2. Heard(Copy(nodes, m), e) =
            Copy(FedNodes(nodes, old.a, old.b, new.energy), [m EXCEPT ![id] = shown])
      <4> HIDE DEF m
      <4> QED
        BY <2>5, <3>1, HearsPulse
    <3>3. FedNodes(nodes, old.a, old.b, new.energy) = table
      BY <2>1, <2>2 DEF FedNodes
    <3> QED
      BY <3>2, <3>3
  <2>10. mirror' = Heard(mirror, e)
    BY <1>2, HeardOne
  <2> HIDE DEF m, e, shown, table
  <2>11. mirror' = Copy(nodes', ById(pairs'))
    BY <2>7, <2>8, <2>9, <2>10 DEF Tracks, m
  <2> QED
    BY <2>11 DEF Tracks
<1> QED
  BY <1>1, <1>2 DEF Pulse

LEMMA DuoCommandTracks ==
  ASSUME Inv, Tracks, mirror' = HeardAll(mirror, out'.events), DuoCommand
  PROVE  Tracks'
<1>1. ASSUME NEW hook \in Hooks, RegisterHook(hook) \/ UnregisterHook(hook) PROVE Tracks'
  <2> DEFINE m == Copy(nodes, ById(pairs))
  <2>1. PICK kind \in {"duo_hook_register", "duo_hook_unregister"} :
          Succeed(<<Event(kind, <<hook>>)>>)
    BY <1>1 DEF RegisterHook, UnregisterHook
  <2>2. nodes' = nodes /\ pairs' = pairs
    BY <1>1 DEF RegisterHook, UnregisterHook
  <2>3. Heard(m, Event(kind, <<hook>>)) = m
    BY HearsOther
  <2> QED
    BY <2>1, <2>2, <2>3, PairTracks
<1>2. ASSUME NEW id, NEW v \in PulseInputs, Pulse(id, v) PROVE Tracks'
  <2>1. v \in Nat
    BY InputsAssumption
  <2> QED
    BY <1>2, <2>1, PulseTracks
<1> QED
  BY <1>1, <1>2, AddPairTracks, DelPairTracks DEF DuoCommand

\* What a tick changes of a node is what its event tells.
LEMMA TickedNodeIs ==
  ASSUME NEW n \in Node
  PROVE  [n EXCEPT !.energy = TickedNode(n).energy, !.health = TickedNode(n).health]
           = TickedNode(n)
<1> DEFINE e == Clamp(n.energy + TickGain + LinkGain * Cardinality(n.links), EnergyFloor, MaxPpm)
           h == IF n.health > HealthFloor THEN n.health - HealthDrop ELSE n.health
<1>1. TickedNode(n) = [n EXCEPT !.energy = e, !.health = h]
  BY DEF TickedNode, Node
<1> HIDE DEF e, h
<1>2. TickedNode(n).energy = e /\ TickedNode(n).health = h
  BY <1>1 DEF Node
<1> QED
  BY <1>1, <1>2

\* The node table when the nodes in a set have their new value.
Partly(S, new, old) == [i \in Ids |-> IF i \in S THEN new[i] ELSE old[i]]

Put(t, i, v) == [t EXCEPT ![i] = v]

Done(order, k) == {order[l] : l \in 1 .. k}

\* One more node has its new value.
LEMMA PartlyNext ==
  ASSUME NEW S \in SUBSET Ids, NEW order, NEW n, Lists(order, n, S), NEW new, NEW old,
         NEW k \in 1 .. n
  PROVE  /\ order[k] \in Ids
         /\ Partly(Done(order, k - 1), new, old)[order[k]] = old[order[k]]
         /\ Partly(Done(order, k), new, old) =
              Put(Partly(Done(order, k - 1), new, old), order[k], new[order[k]])
<1> DEFINE x == order[k]
           D == Done(order, k - 1)
<1>0. n \in Nat
  BY DEF Lists
<1>1. x \in Ids
  BY DEF Lists
<1>2. x \notin D
  <2> SUFFICES ASSUME NEW l \in 1 .. k - 1 PROVE order[l] # order[k]
    BY DEF Done
  <2>1. l \in 1 .. n /\ l # k
    BY <1>0
  <2> QED
    BY <2>1 DEF Lists
<1>3. Done(order, k) = D \cup {x}
  <2>1. 1 .. k = (1 .. k - 1) \cup {k}
    BY <1>0
  <2> QED
    BY <2>1 DEF Done
<1> HIDE DEF x, D
<1>4. /\ Partly(D, new, old)[x] = old[x]
      /\ Partly(D \cup {x}, new, old) = [Partly(D, new, old) EXCEPT ![x] = new[x]]
  BY <1>1, <1>2 DEF Partly
<1> QED
  BY <1>1, <1>3, <1>4 DEF x, D, Put

LEMMA PartlyEnds ==
  ASSUME NEW S \in SUBSET Ids, NEW order, NEW n, Lists(order, n, S), NEW new,
         NEW old \in [Ids -> Node]
  PROVE  /\ Partly(Done(order, 0), new, old) = old
         /\ Partly(Done(order, n), new, old) = Partly(S, new, old)
<1>1. Done(order, 0) = {}
  BY DEF Done
<1>2. Done(order, n) = S
  BY DEF Done, Lists
<1> QED
  BY <1>1, <1>2 DEF Partly

LEMMA TickTracks ==
  ASSUME Inv, Tracks, mirror' = HeardAll(mirror, out'.events), Tick
  PROVE  Tracks'
<1> DEFINE S == {i \in Ids : Ticking(i)}
           order == InOrder(S)
           n == Cardinality(S)
           new == [i \in Ids |-> TickedNode(nodes[i])]
           table == [i \in Ids |-> IF Ticking(i) THEN TickedNode(nodes[i]) ELSE nodes[i]]
           events == [k \in DOMAIN order |->
                        Event("tick", <<order[k], table[order[k]].energy,
                                        table[order[k]].health>>)]
           p == ById(pairs)
           after(k) == Partly(Done(order, k), new, nodes)
           g == [k \in 0 .. n |-> Copy(after(k), p)]
<1>0. nodes \in [Ids -> Node]
  BY Tables
<1>1. Lists(order, n, S)
  BY InOrderIs
<1>2. nodes' = table /\ pairs' = pairs /\ out'.events = events
  BY DEF Tick, Commit, Succeed
<1>3. Partly(S, new, nodes) = table
  BY DEF Partly
<1>4. \A i \in S : table[i] = new[i] /\ new[i] = TickedNode(nodes[i])
  OBVIOUS
<1>5. S \in SUBSET Ids
  OBVIOUS
<1> HIDE DEF S, order, n, new, table
<1>6. g[0] = Copy(nodes, p) /\ g[n] = Copy(table, p)
  <2>1. after(0) = nodes /\ after(n) = table
    BY <1>0, <1>1, <1>3, <1>5, PartlyEnds
  <2>2. g[0] = Copy(after(0), p) /\ g[n] = Copy(after(n), p)
    BY <1>1 DEF Lists
  <2> HIDE DEF after, g
  <2> QED
    BY <2>1, <2>2
<1>7. ASSUME NEW k \in 1 .. n
      PROVE  g[k] = Heard(g[k - 1], events[k])
  <2> DEFINE x == order[k]
             was == after(k - 1)
  <2>1. /\ x \in Ids /\ was[x] = nodes[x]
        /\ after(k) = Put(was, x, new[x])
    BY <1>1, <1>5, PartlyNext
  <2>2. events[k] = Event("tick", <<x, new[x].energy, new[x].health>>)
    BY <1>1, <1>4 DEF Lists
  <2>3. k \in 0 .. n /\ k - 1 \in 0 .. n
    BY <1>1 DEF Lists
  <2>4. g[k] = Copy(after(k), p) /\ g[k - 1] = Copy(was, p)
    BY <2>3
  <2>5. [nodes[x] EXCEPT !.energy = new[x].energy, !.health = new[x].health] = new[x]
    <3>1. x \in S /\ nodes[x] \in Node
      BY <1>0, <1>1, <1>5 DEF Lists
    <3> QED
      BY <1>4, <3>1, TickedNodeIs
  <2> HIDE DEF after, was, x, events, g
  <2>6. TickedIs(was, x, new[x].energy, new[x].health) = after(k)
    BY <2>1, <2>5 DEF TickedIs, Put
  <2>7. Heard(Copy(was, p), Event("tick", <<x, new[x].energy, new[x].health>>)) =
          Copy(after(k), p)
    BY <2>6, HearsTick
  <2> QED
    BY <2>2, <2>4, <2>7
<1>8. DOMAIN events = 1 .. n /\ n \in Nat
  BY <1>1 DEF Lists
<1> HIDE DEF events, g, p
<1>9. HeardAll(Copy(nodes, p), events) = g[n]
  BY <1>6, <1>7, <1>8, Trail
<1> QED
  BY <1>2, <1>6, <1>9 DEF Tracks, p

\* The events of seeding: an add for every missing default node, two links.
LEMMA SeedEvents ==
  ASSUME NEW n \in Nat, NEW order, DOMAIN order = 1 .. n,
         \A k \in 1 .. n : order[k] \in Ids
  PROVE  LET link(b) == Event("link", <<0, b>>)
             s == [k \in DOMAIN order |-> Event("add", <<order[k]>>)] \o <<link(1), link(2)>>
         IN  /\ DOMAIN s = 1 .. n + 2
             /\ \A k \in 1 .. n : s[k] = Event("add", <<order[k]>>)
             /\ s[n + 1] = link(1) /\ s[n + 2] = link(2)
<1> DEFINE link(b) == Event("link", <<0, b>>)
           adds == [k \in DOMAIN order |-> Event("add", <<order[k]>>)]
           E == {Event("add", <<i>>) : i \in Ids} \cup {link(1), link(2)}
           s == adds \o <<link(1), link(2)>>
<1>1. adds \in Seq(E) /\ Len(adds) = n
  <2>1. \A k \in 1 .. n : adds[k] \in E
    OBVIOUS
  <2>2. DOMAIN adds = 1 .. n /\ adds = [k \in 1 .. n |-> adds[k]]
    OBVIOUS
  <2> HIDE DEF adds, E
  <2> QED
    BY <2>1, <2>2, IsASeq, LenProperties
<1>2. \A k \in 1 .. n : adds[k] = Event("add", <<order[k]>>)
  OBVIOUS
<1>3. link(1) \in E /\ link(2) \in E
  OBVIOUS
<1> HIDE DEF adds, E, link
<1>4. <<link(1), link(2)>> \in Seq(E) /\ Len(<<link(1), link(2)>>) = 2
  BY <1>3
<1>5. /\ s \in Seq(E) /\ Len(s) = n + 2
      /\ \A k \in 1 .. n + 2 :
           s[k] = IF k <= n THEN adds[k] ELSE <<link(1), link(2)>>[k - n]
  BY <1>1, <1>4, ConcatProperties
<1>6. DOMAIN s = 1 .. n + 2
  BY <1>5, LenProperties
<1> HIDE DEF s
<1>7. n + 1 \in 1 .. n + 2 /\ n + 2 \in 1 .. n + 2 /\ 1 .. n \subseteq 1 .. n + 2
  OBVIOUS
<1>8. s[n + 1] = link(1) /\ s[n + 2] = link(2)
  <2>1. ~(n + 1 <= n) /\ (n + 1) - n = 1 /\ ~(n + 2 <= n) /\ (n + 2) - n = 2
    OBVIOUS
  <2> QED
    BY <1>5, <1>7, <2>1
<1>9. \A k \in 1 .. n : s[k] = Event("add", <<order[k]>>)
  BY <1>2, <1>5, <1>7
<1> QED
  BY <1>6, <1>8, <1>9 DEF s, adds, link

\* What adding the missing default nodes makes of the table.
LEMMA SeedAdds ==
  ASSUME nodes \in [Ids -> Node]
  PROVE  WithNode(WithNode(WithNode(nodes, 0), 1), 2) =
           Partly({i \in DefaultIds : ~Present(i)}, [i \in Ids |-> FreshNode], nodes)
<1> DEFINE with(t, id) == [i \in Ids |-> IF i = id /\ ~t[i].present THEN FreshNode ELSE t[i]]
<1>1. ASSUME NEW t \in [Ids -> Node], NEW id \in Ids
      PROVE  WithNode(t, id) = with(t, id) /\ with(t, id) \in [Ids -> Node]
  BY NodeConstants DEF WithNode
<1>2. 0 \in Ids /\ 1 \in Ids /\ 2 \in Ids
  BY NodesAssumption DEF Ids
<1>3. WithNode(WithNode(WithNode(nodes, 0), 1), 2) = with(with(with(nodes, 0), 1), 2)
  <2> HIDE DEF with
  <2> QED
    BY <1>1, <1>2
<1>4. with(with(with(nodes, 0), 1), 2) =
        Partly({i \in DefaultIds : ~Present(i)}, [i \in Ids |-> FreshNode], nodes)
  BY <1>2 DEF Partly, DefaultIds, Present
<1> QED
  BY <1>3, <1>4

LEMMA SeedTracks ==
  ASSUME Inv, Tracks, mirror' = HeardAll(mirror, out'.events), Seed
  PROVE  Tracks'
<1> DEFINE S == {i \in DefaultIds : ~Present(i)}
           order == InOrder(S)
           n == Cardinality(S)
           new == [i \in Ids |-> FreshNode]
           t2 == WithNode(WithNode(WithNode(nodes, 0), 1), 2)
           t3 == WithLink(t2, 0, 1)
           t4 == WithLink(t3, 0, 2)
           events == [k \in DOMAIN order |-> Event("add", <<order[k]>>)]
                       \o <<Event("link", <<0, 1>>), Event("link", <<0, 2>>)>>
           p == ById(pairs)
           after(k) == IF k <= n THEN Partly(Done(order, k), new, nodes)
                       ELSE IF k = n + 1 THEN t3 ELSE t4
           g == [k \in 0 .. n + 2 |-> Copy(after(k), p)]
<1>0. nodes \in [Ids -> Node]
  BY Tables
<1>1. nodes' = t4 /\ pairs' = pairs /\ out'.events = events
  BY DEF Seed, SeededTable, Succeed
<1>2. S \in SUBSET Ids /\ 0 \in Ids /\ 1 \in Ids /\ 2 \in Ids
  BY NodesAssumption DEF Ids, DefaultIds
<1>3. Lists(order, n, S)
  BY <1>2, InOrderIs
<1>4. t2 = Partly(S, new, nodes)
  BY <1>0, SeedAdds
<1>5. t2 \in [Ids -> Node] /\ t3 \in [Ids -> Node]
  <2>1. Partly(S, new, nodes) \in [Ids -> Node]
    BY <1>0, NodeConstants DEF Partly
  <2>2. t2 \in [Ids -> Node]
    BY <1>4, <2>1
  <2> HIDE DEF t2
  <2>3. /\ t2[0].links \cup {1} \in SUBSET Ids /\ t2[1].links \cup {0} \in SUBSET Ids
        /\ t2[0] \in Node /\ t2[1] \in Node
    BY <1>2, <2>2 DEF Node
  <2>4. [t2[0] EXCEPT !.links = @ \cup {1}] \in Node /\ [t2[1] EXCEPT !.links = @ \cup {0}] \in Node
    BY <2>3, Relinked
  <2>5. t3 = [i \in Ids |-> IF i = 0 THEN [t2[0] EXCEPT !.links = @ \cup {1}]
                            ELSE IF i = 1 THEN [t2[1] EXCEPT !.links = @ \cup {0}] ELSE t2[i]]
    BY <1>2, <2>2 DEF WithLink
  <2> QED
    BY <2>2, <2>4, <2>5
<1>6. n \in Nat /\ DOMAIN order = 1 .. n /\ \A k \in 1 .. n : order[k] \in Ids
  BY <1>2, <1>3 DEF Lists
<1>7. /\ DOMAIN events = 1 .. n + 2
      /\ \A k \in 1 .. n : events[k] = Event("add", <<order[k]>>)
      /\ events[n + 1] = Event("link", <<0, 1>>) /\ events[n + 2] = Event("link", <<0, 2>>)
  BY <1>6, SeedEvents
<1> HIDE DEF S, order, n, t2, t3, t4, events
<1>8. after(0) = nodes /\ after(n) = t2 /\ after(n + 1) = t3 /\ after(n + 2) = t4
  <2>1. Partly(Done(order, 0), new, nodes) = nodes /\ Partly(Done(order, n), new, nodes) = t2
    BY <1>0, <1>2, <1>3, <1>4, PartlyEnds
  <2> QED
    BY <1>6, <2>1
<1>9. ASSUME NEW k \in 1 .. n
      PROVE  Heard(Copy(after(k - 1), p), events[k]) = Copy(after(k), p)
  <2> DEFINE x == order[k]
             was == Partly(Done(order, k - 1), new, nodes)
  <2>1. x \in Ids /\ Partly(Done(order, k), new, nodes) = Put(was, x, new[x])
    BY <1>2, <1>3, PartlyNext
  <2>2. after(k) = Put(was, x, FreshNode) /\ after(k - 1) = was
    BY <1>6, <2>1
  <2>3. was \in [Ids -> Node]
    BY <1>0, NodeConstants DEF Partly
  <2>4. events[k] = Event("add", <<x>>)
    BY <1>7
  <2> HIDE DEF x, was, after
  <2>5. Heard(Copy(was, p), Event("add", <<x>>)) = Copy([was EXCEPT ![x] = FreshNode], p)
    BY <2>1, <2>3, HearsNode
  <2> QED
    BY <2>2, <2>4, <2>5 DEF Put
<1>10. Heard(Copy(after(n), p), events[n + 1]) = Copy(after(n + 1), p)
  <2> HIDE DEF after
  <2> QED
    BY <1>2, <1>5, <1>7, <1>8, HearsLink DEF t3
<1>11. Heard(Copy(after(n + 1), p), events[n + 2]) = Copy(after(n + 2), p)
  <2> HIDE DEF after
  <2> QED
    BY <1>2, <1>5, <1>7, <1>8, HearsLink DEF t4
<1> HIDE DEF after
<1>12. ASSUME NEW k \in 1 .. n + 2
       PROVE  g[k] = Heard(g[k - 1], events[k])
  <2>1. g[k] = Copy(after(k), p) /\ g[k - 1] = Copy(after(k - 1), p)
    BY <1>6
  <2>2. k \in 1 .. n \/ (k = n + 1 /\ k - 1 = n) \/ (k = n + 2 /\ k - 1 = n + 1)
    BY <1>6
  <2> HIDE DEF g
  <2> QED
    BY <1>9, <1>10, <1>11, <2>1, <2>2
<1>13. g[0] = Copy(nodes, p) /\ g[n + 2] = Copy(t4, p)
  BY <1>6, <1>8
<1>14. n + 2 \in Nat
  BY <1>6
<1> HIDE DEF g, p
<1>15. HeardAll(Copy(nodes, p), events) = g[n + 2]
  BY <1>7, <1>12, <1>13, <1>14, Trail
<1> QED
  BY <1>1, <1>13, <1>15 DEF Tracks, p

-----------------------------------------------------------------------------
(* The client's copy is exact                                              *)

LEMMA MirrorInitTracks == MirrorInit => Tracks
<1> SUFFICES ASSUME MirrorInit PROVE Tracks
  OBVIOUS
<1>1. pairs = <<>> /\ nodes = [i \in Ids |-> NoNode] /\ mirror = EmptyMirror
  BY DEF MirrorInit, Init
<1>2. Ordered(<<>>)
  BY DEF Ordered
<1>3. ById(<<>>) = <<>>
  <2> DEFINE f == <<>>
  <2>1. /\ f = [id \in {} |-> f[id]]
        /\ \A id : id \in {} <=> \E k \in 1 .. Len(<<>>) : <<>>[k].id = id
        /\ \A k \in 1 .. Len(<<>>) : f[<<>>[k].id] = View(<<>>[k])
    OBVIOUS
  <2> HIDE DEF f
  <2>2. ById(<<>>) = f
    BY <1>2, <2>1, ByIdUnique
  <2> QED
    BY <2>2 DEF f
<1> QED
  BY <1>1, <1>3 DEF Tracks, EmptyMirror, Copy

LEMMA MirrorNextTracks ==
  ASSUME Inv, Tracks, [MirrorNext]_mirrorVars
  PROVE  Tracks'
<1>1. CASE MirrorNext
  <2>1. Next /\ mirror' = HeardAll(mirror, out'.events)
    BY <1>1 DEF MirrorNext, HeardAll
  <2> QED
    BY <2>1, SeedTracks, TickTracks, NodeCommandTracks, LinkCommandTracks,
       DuoCommandTracks, ReportTracks DEF Next
<1>2. CASE UNCHANGED mirrorVars
  BY <1>2 DEF mirrorVars, vars, Tracks
<1> QED
  BY <1>1, <1>2

\* A client that hears every event of a handler knows after it what the module
\* knows: each handler of dawnhex_kmod.c that changes a node, a link or a pair
\* emits, under the same lock, events that tell the whole change, the loop over
\* all ticking nodes, a pulse's feedback and the seeding at load included.
THEOREM MirrorStaysExact == MirrorSpec => []MirrorTracksCluster
<1>1. MirrorInit => Inv /\ Tracks
  BY InitInv, MirrorInitTracks DEF MirrorInit
<1>2. Inv /\ Tracks /\ [MirrorNext]_mirrorVars => (Inv /\ Tracks)'
  <2>1. [MirrorNext]_mirrorVars => [Next]_vars
    BY DEF MirrorNext, mirrorVars
  <2> QED
    BY <2>1, NextInv, MirrorNextTracks
<1>3. Tracks => MirrorTracksCluster
  BY PairsByIdIs DEF Tracks, MirrorTracksCluster, Copy
<1> QED
  BY <1>1, <1>2, <1>3, PTL DEF MirrorSpec
=============================================================================
