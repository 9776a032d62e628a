------------------------ MODULE InfinityRelay_proofs ------------------------
(***************************************************************************)
(* Proofs about InfinityRelay, for every size of the buffers and of the    *)
(* sockets, every number of bytes and every idle limit.                    *)
(***************************************************************************)
EXTENDS InfinityRelay, SequenceTheorems, TLAPS

\* RelayIntact for one direction: n bytes received, o sent on, b between them.
Carries(o, b, n) ==
  /\ Len(o) + Size(b) = n
  /\ \A i \in 1 .. Len(o) : o[i] = i
  /\ \A i \in 1 .. Size(b) : b.data[b.start + i] = Len(o) + i

\* A buffer whose indices are in order.
Good(b) == b \in Buffer /\ b.start <= Len(b.data) /\ Len(b.data) <= Cap

-----------------------------------------------------------------------------
(* Buffers                                                                 *)

\* Adding to the second of two numbers adds to their sum.
LEMMA SizesAddUp ==
  ASSUME NEW k \in Int, NEW x \in Int, NEW y \in Int, NEW n \in Int, x + y = k
  PROVE  x + (y + n) = k + n
  OBVIOUS

\* The indices of a buffer and what is computed from them are numbers.
LEMMA BufferNumbers ==
  ASSUME NEW b, Good(b)
  PROVE  /\ Len(b.data) \in Nat /\ b.start \in Nat /\ b.data \in Seq(Nat)
         /\ Size(b) \in Nat /\ Space(b) \in Nat
         /\ Size(b) = Len(b.data) - b.start /\ Space(b) = Cap - Len(b.data)
  BY RelayAssumption, LenProperties DEF Good, Buffer, Size, Space

\* The same numbers by names of their own.
LEMMA BufferLengths ==
  ASSUME NEW b, Good(b)
  PROVE  \E l, m, z \in Nat : /\ l = Len(b.data) /\ m = b.start /\ z = Size(b)
                             /\ l = m + z /\ l <= Cap
<1>1. Size(b) = Len(b.data) - b.start => Len(b.data) = b.start + Size(b)
  BY BufferNumbers
<1> QED
  BY <1>1, BufferNumbers DEF Good

\* A run of consecutive numbers is a sequence.
LEMMA RunOfNumbers ==
  ASSUME NEW first \in Nat, NEW n \in Nat
  PROVE  /\ [i \in 1 .. n |-> first + i] \in Seq(Nat)
         /\ Len([i \in 1 .. n |-> first + i]) = n
  OBVIOUS

\* The next n bytes of a buffer continue what was sent on.
LEMMA FrontContinues ==
  ASSUME NEW o \in Seq(Nat), NEW b, NEW k \in Nat, Good(b), Carries(o, b, k),
         NEW n \in Nat, n <= Size(b)
  PROVE  /\ Front(b, n) \in Seq(Nat)
         /\ Len(Front(b, n)) = n
         /\ \A i \in 1 .. n : Front(b, n)[i] = b.data[b.start + i]
         /\ \A i \in 1 .. n : Front(b, n)[i] = Len(o) + i
<1>1. /\ Len(b.data) \in Nat /\ b.start \in Nat /\ b.data \in Seq(Nat)
      /\ b.start + n <= Len(b.data)
  BY BufferNumbers
<1>2. \A i \in b.start + 1 .. b.start + n : b.data[i] \in Nat
  <2> TAKE i \in b.start + 1 .. b.start + n
  <2>1. PICK l, m \in Nat : l = Len(b.data) /\ m = b.start /\ m + n <= l
    BY <1>1
  <2>2. i \in 1 .. l
    BY <2>1
  <2> QED
    BY <1>1, <2>1, <2>2, ElementOfSeq, Zenon
<1>3. /\ Front(b, n) \in Seq(Nat)
      /\ Len(Front(b, n)) = n
      /\ \A i \in 1 .. n : Front(b, n)[i] = b.data[b.start + i]
  <2> DEFINE m == b.start + 1
             l == b.start + n
  <2>1. m \in Int /\ l \in Int /\ \A i \in m .. l : b.data[i] \in Nat
    BY <1>1, <1>2
  <2>2. /\ SubSeq(b.data, m, l) \in Seq(Nat)
        /\ Len(SubSeq(b.data, m, l)) = IF m <= l THEN l - m + 1 ELSE 0
        /\ \A i \in 1 .. l - m + 1 : SubSeq(b.data, m, l)[i] = b.data[m + i - 1]
    <3> HIDE DEF m, l
    <3> QED
      BY <2>1, SubSeqProperties
  <2>3. Front(b, n) = SubSeq(b.data, m, l)
    BY DEF Front
  <2>4. l - m + 1 = n /\ (m <= l <=> n > 0)
    BY <1>1
  <2>5. \A i \in 1 .. n : m + i - 1 = b.start + i
    BY <1>1
  <2> QED
    BY <2>2, <2>3, <2>4, <2>5
<1>4. \A i \in 1 .. n : b.data[b.start + i] = Len(o) + i
  BY BufferNumbers DEF Carries
<1> QED
  BY <1>3, <1>4

\* A new session's buffers carry nothing.
LEMMA EmptyGood == Good(EmptyBuffer) /\ Carries(<<>>, EmptyBuffer, 0) /\ Size(EmptyBuffer) = 0
  BY RelayAssumption DEF Good, Buffer, EmptyBuffer, Carries, Size

\* buffer_compact moves the bytes and leaves the stream as it was.
LEMMA CompactedGood ==
  ASSUME NEW o \in Seq(Nat), NEW b, NEW k \in Nat, Good(b), Carries(o, b, k)
  PROVE  /\ Good(Compacted(b)) /\ Carries(o, Compacted(b), k)
         /\ Size(Compacted(b)) = Size(b)
         /\ Space(Compacted(b)) = Cap - Size(b)
<1> DEFINE c == Compacted(b)
<1>1. /\ Len(b.data) \in Nat /\ b.start \in Nat /\ Size(b) \in Nat
      /\ Size(b) <= Cap
  BY BufferNumbers, RelayAssumption DEF Good
<1>2. c.data = Front(b, Size(b)) /\ c.start = 0 /\ c = [data |-> c.data, start |-> c.start]
  BY DEF Compacted
<1>3. /\ c.data \in Seq(Nat) /\ Len(c.data) = Size(b)
      /\ \A i \in 1 .. Size(b) : c.data[i] = Len(o) + i
  BY <1>1, <1>2, FrontContinues
<1>4. Good(c)
  BY <1>1, <1>2, <1>3 DEF Good, Buffer
<1>5. Size(c) = Size(b) /\ Space(c) = Cap - Size(b)
  BY <1>1, <1>2, <1>3 DEF Size, Space
<1>6. Len(o) \in Nat
  BY LenProperties
<1>7. Carries(o, c, k)
  <2>1. \A i \in 1 .. Size(c) : c.data[c.start + i] = Len(o) + i
    <3> SUFFICES ASSUME NEW i \in 1 .. Size(b) PROVE c.data[c.start + i] = Len(o) + i
      BY <1>5
    <3>1. c.start + i = i
      BY <1>1, <1>2
    <3> QED
      BY <1>3, <3>1
  <2> QED
    BY <1>5, <2>1 DEF Carries
<1> QED
  BY <1>4, <1>5, <1>7

\* recv() appends the next bytes of the stream.
LEMMA FilledGood ==
  ASSUME NEW o \in Seq(Nat), NEW b, NEW k \in Nat, Good(b), Carries(o, b, k),
         NEW n \in Nat, n <= Space(b)
  PROVE  /\ Good(Filled(b, k, n)) /\ Carries(o, Filled(b, k, n), k + n)
         /\ Size(Filled(b, k, n)) = Size(b) + n
<1> DEFINE new == [i \in 1 .. n |-> k + i]
           f == Filled(b, k, n)
<1>1. /\ Len(b.data) \in Nat /\ b.start \in Nat /\ b.data \in Seq(Nat)
      /\ Size(b) = Len(b.data) - b.start /\ Len(b.data) + n <= Cap
      /\ b.start <= Len(b.data)
  BY BufferNumbers, RelayAssumption DEF Good, Space
<1>2. new \in Seq(Nat) /\ Len(new) = n /\ \A i \in 1 .. n : new[i] = k + i
  BY RunOfNumbers
<1>3. f.data = b.data \o new /\ f.start = b.start /\ f = [data |-> f.data, start |-> f.start]
  BY DEF Filled, Good, Buffer
<1>4. /\ f.data \in Seq(Nat) /\ Len(f.data) = Len(b.data) + n
      /\ \A i \in 1 .. Len(b.data) + n :
           f.data[i] = IF i <= Len(b.data) THEN b.data[i] ELSE new[i - Len(b.data)]
  BY <1>1, <1>2, <1>3, ConcatProperties
<1>5. Good(f) /\ Size(f) = Size(b) + n
  <2>1. f \in Buffer
    BY <1>1, <1>3, <1>4 DEF Buffer
  <2>2. Good(f)
    BY <1>1, <1>3, <1>4, <2>1 DEF Good
  <2>3. Size(f) = Len(f.data) - f.start
    BY DEF Size
  <2> QED
    BY <1>1, <1>3, <1>4, <2>2, <2>3
<1>6. Len(o) \in Nat /\ Size(b) \in Nat /\ Len(o) + Size(b) = k
  BY BufferNumbers, LenProperties DEF Carries
<1>7. ASSUME NEW i \in 1 .. Size(b) + n
      PROVE  f.data[b.start + i] = Len(o) + i
  <2>0. PICK l, m, z \in Nat : /\ l = Len(b.data) /\ m = b.start /\ z = Size(b)
                              /\ l = m + z
    BY BufferLengths
  <2>1. CASE i <= Size(b)
    <3>1. /\ b.start + i \in 1 .. Len(b.data) + n
          /\ b.start + i <= Len(b.data) /\ i \in 1 .. Size(b)
      BY <2>0, <2>1
    <3> QED
      BY <1>4, <3>1 DEF Carries
  <2>2. CASE ~(i <= Size(b))
    <3>1. PICK j \in 1 .. n : i = Size(b) + j
      <4>1. i - Size(b) \in 1 .. n /\ i = Size(b) + (i - Size(b))
        BY <1>6, <2>2
      <4> QED
        BY <4>1
    <3>2. b.start + i = Len(b.data) + j
      BY <2>0, <3>1
    <3>3. f.data[b.start + i] = new[j] /\ new[j] = k + j
      <4>1. l + j \in 1 .. l + n /\ ~(l + j <= l) /\ l + j - l = j
        BY <3>1
      <4>2. \A h \in 1 .. l + n : f.data[h] = IF h <= l THEN b.data[h] ELSE new[h - l]
        BY <1>4, <2>0
      <4>3. \A h \in 1 .. l + n : ~(h <= l) => f.data[h] = new[h - l]
        BY ONLY <4>2, Zenon
      <4>4. PICK h \in 1 .. l + n : h = l + j /\ ~(h <= l) /\ h - l = j
        BY <4>1
      <4>5. f.data[h] = new[h - l]
        BY <4>3, <4>4, Zenon
      <4>6. f.data[h] = new[j]
        BY <4>4, <4>5, Zenon
      <4> QED
        BY <1>2, <2>0, <3>2, <4>4, <4>6
    <3>4. k + j = Len(o) + i
      BY <1>6, <3>1
    <3> QED
      BY <3>3, <3>4
  <2> QED
    BY <2>1, <2>2
<1>8. Carries(o, f, k + n)
  <2>1. Len(o) + Size(f) = k + n
    <3>1. Len(o) \in Int /\ Size(b) \in Int /\ Len(o) + Size(b) = k
      BY <1>6, BufferNumbers DEF Carries
    <3> QED
      BY <1>5, <3>1, SizesAddUp
  <2>2. \A i \in 1 .. Len(o) : o[i] = i
    BY DEF Carries
  <2>3. \A i \in 1 .. Size(f) : f.data[f.start + i] = Len(o) + i
    BY <1>3, <1>5, <1>7
  <2> QED
    BY <2>1, <2>2, <2>3 DEF Carries
<1> QED
  BY <1>5, <1>8

\* send() takes bytes off the front and the indices follow.
LEMMA AdvancedGood ==
  ASSUME NEW o \in Seq(Nat), NEW b, NEW k \in Nat, Good(b), Carries(o, b, k),
         NEW n \in Nat, n <= Size(b)
  PROVE  /\ o \o Front(b, n) \in Seq(Nat)
         /\ Len(o \o Front(b, n)) = Len(o) + n
         /\ Good(Advanced(b, n)) /\ Carries(o \o Front(b, n), Advanced(b, n), k)
         /\ Size(Advanced(b, n)) = Size(b) - n
<1> DEFINE p == o \o Front(b, n)
           a == Advanced(b, n)
<1>1. /\ Len(b.data) \in Nat /\ b.start \in Nat /\ b.data \in Seq(Nat)
      /\ Size(b) = Len(b.data) - b.start /\ b.start <= Len(b.data)
      /\ Len(b.data) <= Cap /\ Len(o) \in Nat
  BY BufferNumbers, LenProperties DEF Good
<1>2. /\ Front(b, n) \in Seq(Nat) /\ Len(Front(b, n)) = n
      /\ \A i \in 1 .. n : Front(b, n)[i] = Len(o) + i
  BY FrontContinues
<1>0. Len(o) + n = Len(o) + Len(Front(b, n))
  BY <1>2
<1>3. /\ p \in Seq(Nat) /\ Len(p) = Len(o) + n
      /\ \A i \in 1 .. Len(o) + n :
           p[i] = IF i <= Len(o) THEN o[i] ELSE Front(b, n)[i - Len(o)]
  BY <1>0, <1>2, ConcatProperties
<1>4. \A i \in 1 .. Len(p) : p[i] = i
  <2> SUFFICES ASSUME NEW i \in 1 .. Len(o) + n PROVE p[i] = i
    BY <1>3
  <2>1. CASE i <= Len(o)
    <3>1. p[i] = o[i] /\ i \in 1 .. Len(o)
      BY <1>1, <1>3, <2>1
    <3> QED
      BY <3>1 DEF Carries
  <2>2. CASE i > Len(o)
    <3> DEFINE j == i - Len(o)
    <3>1. j \in 1 .. n /\ ~(i <= Len(o)) /\ Len(o) + j = i
      BY <1>1, <2>2
    <3>2. p[i] = Front(b, n)[j] /\ Front(b, n)[j] = Len(o) + j
      BY <1>2, <1>3, <3>1
    <3> QED
      BY <3>1, <3>2
  <2> QED
    <3>1. i \in Int /\ (i <= Len(o) \/ i > Len(o))
      BY <1>1
    <3> QED
      BY <2>1, <2>2, <3>1
<1>5. Len(o) + Size(b) = k
  BY DEF Carries
<1>6. CASE n = Size(b)
  <2>1. a = EmptyBuffer
    BY <1>6 DEF Advanced
  <2>2. Good(a) /\ Size(a) = 0 /\ Len(a.data) = 0 /\ a.start = 0
    BY <2>1, EmptyGood DEF EmptyBuffer
  <2>3. Carries(p, a, k)
    BY <1>1, <1>3, <1>4, <1>5, <1>6, <2>2 DEF Carries
  <2> QED
    BY <1>1, <1>3, <1>6, <2>2, <2>3
<1>7. CASE n # Size(b)
  <2>1. a = [data |-> b.data, start |-> b.start + n]
    BY <1>7 DEF Advanced
  <2>2. a.data = b.data /\ a.start = b.start + n /\ a \in Buffer
    BY <1>1, <2>1 DEF Buffer
  <2>3. Good(a) /\ Size(a) = Size(b) - n
    BY <1>1, <2>2 DEF Good, Size
  <2>4. ASSUME NEW i \in 1 .. Size(b) - n
        PROVE  a.data[a.start + i] = Len(p) + i
    <3>0. PICK l, m, z \in Nat : /\ l = Len(b.data) /\ m = b.start /\ z = Size(b)
                                /\ l = m + z
      BY BufferLengths
    <3>1. n + i \in 1 .. Size(b) /\ a.start + i = b.start + (n + i)
      BY <2>2, <3>0
    <3>2. b.data[b.start + (n + i)] = Len(o) + (n + i)
      BY <3>1 DEF Carries
    <3>3. Len(o) + (n + i) = Len(p) + i
      BY <1>1, <1>3
    <3> QED
      BY <2>2, <3>1, <3>2, <3>3
  <2>5. Carries(p, a, k)
    <3>1. Len(p) + Size(a) = k
      BY <1>1, <1>3, <1>5, <2>3
    <3>2. \A i \in 1 .. Size(a) : a.data[a.start + i] = Len(p) + i
      BY <2>3, <2>4
    <3> QED
      BY <1>4, <3>1, <3>2 DEF Carries
  <2> QED
    BY <1>3, <2>3, <2>5
<1> QED
  BY <1>6, <1>7

-----------------------------------------------------------------------------
(* The inductive invariant                                                 *)

\* A batch has at most one event of each side, and one is left to handle
\* while handle_side_io runs.
BatchShape ==
  /\ Len(batch) <= 2
  /\ pc \in {"begin", "read", "write", "finish"} => Len(batch) > 0
  /\ Len(batch) = 2 => batch[1].side # batch[2].side

\* A side that has ended is not asked for input again, and no event that is
\* still to be read for asks to: its buffer only drains.
EofStopsReading ==
  /\ pc \in {"wait", "begin", "read", "maintain"} => \A s \in Sides : eof[s] => "IN" \notin interest[s]
  /\ \A k \in 1 .. Len(batch) :
       (k = 2 \/ pc \in {"begin", "read"}) /\ eof[batch[k].side] => "IN" \notin batch[k].events

\* The artifact is written when the session is destroyed, not before.
WrittenOnce == Open => artifact = <<<<>>, <<>>>>

DataInv == TypeOK /\ RelayIntact /\ BatchShape
Inv == DataInv /\ EofStopsReading /\ DrainedBeforeShutdown /\ WrittenOnce /\ ArtifactHoldsNextBytes

\* One direction of a session.
LEMMA Direction ==
  ASSUME TypeOK, RelayIntact, NEW s \in Sides
  PROVE  /\ Good(buf[s]) /\ out[Other(s)] \in Seq(Nat) /\ recvd[s] \in Nat /\ sent[s] \in Nat
         /\ Carries(out[Other(s)], buf[s], recvd[s])
         /\ Other(s) \in Sides /\ Other(s) # s /\ Other(Other(s)) = s
<1>1. Other(s) \in Sides /\ Other(s) # s /\ Other(Other(s)) = s
  BY DEF Sides, Other
<1>2. Good(buf[s]) /\ out[Other(s)] \in Seq(Nat) /\ recvd[s] \in Nat /\ sent[s] \in Nat
  BY <1>1 DEF TypeOK, Good
<1>3. Carries(out[Other(s)], buf[s], recvd[s])
  BY DEF RelayIntact, Carries
<1> QED
  BY <1>1, <1>2, <1>3

\* The length of a sequence, whatever it holds.
LEMMA LenIsNatural ==
  ASSUME NEW Item, NEW q \in Seq(Item)
  PROVE  Len(q) \in Nat
  BY LenProperties

\* The event at the head of the batch.
LEMMA HandledEvent ==
  ASSUME TypeOK, BatchShape, pc \in {"begin", "read", "write", "finish"}
  PROVE  /\ Side \in Sides /\ Events \in SUBSET EventName
         /\ Len(batch) \in {1, 2} /\ 1 \in 1 .. Len(batch)
<1>1. batch \in Seq([side : Sides, events : SUBSET EventName])
  BY DEF TypeOK
<1>2. Len(batch) \in {1, 2}
  <2>1. Len(batch) \in Nat
    BY <1>1, LenIsNatural, Zenon
  <2>2. Len(batch) <= 2 /\ Len(batch) > 0
    BY Zenon DEF BatchShape
  <2>3. \A n \in Nat : n <= 2 /\ n > 0 => n \in {1, 2}
    OBVIOUS
  <2> QED
    BY <2>1, <2>2, <2>3, Zenon
<1>3. 1 \in 1 .. Len(batch)
  <2>1. \A n \in {1, 2} : 1 \in 1 .. n
    OBVIOUS
  <2> QED
    BY <1>2, <2>1, Zenon
<1>4. batch[1] \in [side : Sides, events : SUBSET EventName]
  BY <1>1, <1>3, ElementOfSeq
<1> QED
  BY <1>2, <1>3, <1>4 DEF Side, Events

\* The loop's next round starts with well-formed events of what is asked for.
LEMMA SampledEvents ==
  ASSUME TypeOK, NEW b \in Batches
  PROVE  /\ b \in Seq([side : Sides, events : SUBSET EventName])
         /\ Len(b) \in {0, 1, 2}
         /\ b # <<>> => Len(b) > 0
         /\ Len(b) = 2 => b[1].side # b[2].side
         /\ \A k \in 1 .. Len(b) : b[k].events = Ready(b[k].side) /\ b[k].side \in Sides
<1> DEFINE Item == [side : Sides, events : SUBSET EventName]
           c == [side |-> 0, events |-> Ready(0)]
           u == [side |-> 1, events |-> Ready(1)]
<1>1. \A s \in Sides : Ready(s) \in SUBSET EventName
  BY DEF TypeOK, Ready, EventName
<1>2. c \in Item /\ u \in Item /\ c.side # u.side /\ c.side = 0 /\ u.side = 1
      /\ c.events = Ready(0) /\ u.events = Ready(1)
  BY <1>1 DEF Sides
<1>3. b \in {<<>>, <<c>>, <<u>>, <<c, u>>, <<u, c>>}
  BY DEF Batches
<1>4. 0 \in Sides /\ 1 \in Sides
  BY DEF Sides
<1> HIDE DEF c, u, Item
<1>5. CASE b = <<>>
  BY <1>5
<1>6. ASSUME NEW x \in Item, b = <<x>>, x = c \/ x = u
      PROVE  /\ b \in Seq(Item) /\ Len(b) = 1
             /\ \A k \in 1 .. Len(b) : b[k].events = Ready(b[k].side) /\ b[k].side \in Sides
  BY <1>2, <1>4, <1>6
<1>7. ASSUME NEW x \in Item, NEW y \in Item, b = <<x, y>>, (x = c /\ y = u) \/ (x = u /\ y = c)
      PROVE  /\ b \in Seq(Item) /\ Len(b) = 2 /\ b[1].side # b[2].side
             /\ \A k \in 1 .. Len(b) : b[k].events = Ready(b[k].side) /\ b[k].side \in Sides
  BY <1>2, <1>4, <1>7
<1>8. /\ b \in Seq(Item) /\ Len(b) \in {0, 1, 2}
      /\ b # <<>> => Len(b) > 0
      /\ Len(b) = 2 => b[1].side # b[2].side
      /\ \A k \in 1 .. Len(b) : b[k].events = Ready(b[k].side) /\ b[k].side \in Sides
  <2>1. CASE b = <<c>> \/ b = <<u>>
    <3>1. PICK x \in Item : b = <<x>> /\ (x = c \/ x = u)
      BY <1>2, <2>1
    <3> QED
      BY <1>6, <3>1
  <2>2. CASE b = <<c, u>> \/ b = <<u, c>>
    <3>1. PICK x \in Item, y \in Item : b = <<x, y>> /\ ((x = c /\ y = u) \/ (x = u /\ y = c))
      BY <1>2, <2>2
    <3> QED
      BY <1>7, <3>1
  <2> QED
    BY <1>3, <1>5, <2>1, <2>2
<1> QED
  BY <1>8 DEF Item

\* What session_destroy leaves of the loop.
LEMMA Destroyed ==
  ASSUME Destroy
  PROVE  pc' = "closed" /\ batch' = <<>>
  BY Zenon DEF Destroy

\* An unchanged direction stays as it is.
LEMMA UntouchedData ==
  ASSUME RelayIntact, UNCHANGED dataVars
  PROVE  RelayIntact'
<1>1. recvd' = recvd /\ buf' = buf /\ out' = out
  BY DEF dataVars
<1> QED
  BY <1>1, Zenon DEF RelayIntact, Size

\* A closed session and one whose batch is used up.
LEMMA ShapeOfNone ==
  ASSUME batch' = <<>>, pc' \in {"closed", "wait", "maintain"}
  PROVE  BatchShape' /\ batch' \in Seq([side : Sides, events : SUBSET EventName])
<1>1. Len(<<>>) <= 2 /\ Len(<<>>) # 2
  OBVIOUS
<1>2. <<>> \in Seq([side : Sides, events : SUBSET EventName])
  BY EmptySeq
<1> QED
  BY <1>1, <1>2 DEF BatchShape

\* A batch that is neither taken from nor filled keeps its shape.
LEMMA ShapeUnchanged ==
  ASSUME BatchShape, batch' = batch,
         pc' \in {"begin", "read", "write", "finish"} => pc \in {"begin", "read", "write", "finish"}
  PROVE  BatchShape'
  BY Zenon DEF BatchShape

\* What the remote ends do leaves buffers and batch alone and overfills no socket.
LEMMA RemoteData == ASSUME DataInv, Remote PROVE DataInv'
<1> USE DEF DataInv, Remote
<1>1. RelayIntact' /\ BatchShape'
  <2>1. RelayIntact'
    BY UntouchedData
  <2>2. BatchShape'
    BY ShapeUnchanged DEF loopVars
  <2> QED
    BY <2>1, <2>2
<1>2. CASE LinkResolves
  BY <1>1, <1>2 DEF LinkResolves, TypeOK, dataVars, peerVars, loopVars, timeVars, Sides
<1>3. ASSUME NEW s \in Sides, RemoteFin(s) \/ RemoteReset(s)
      PROVE  TypeOK'
  BY <1>3 DEF RemoteFin, RemoteReset, TypeOK, dataVars, peerVars, loopVars, timeVars
<1>4. ASSUME NEW s \in Sides, RemoteSend(s) \/ RemoteRead(s)
      PROVE  TypeOK'
  <2>1. /\ sent' \in [Sides -> Nat] /\ taken' \in [Sides -> Nat]
        /\ \A t \in Sides : recvd[t] <= sent'[t]
    <3>1. /\ sent \in [Sides -> Nat] /\ taken \in [Sides -> Nat] /\ recvd \in [Sides -> Nat]
          /\ \A t \in Sides : recvd[t] <= sent[t]
      BY Zenon DEF TypeOK
    <3>2. CASE RemoteSend(s)
      BY ONLY <3>1, <3>2 DEF RemoteSend
    <3>3. CASE RemoteRead(s)
      BY ONLY <3>1, <3>3 DEF RemoteRead
    <3> QED
      BY <1>4, <3>2, <3>3
  <2>2. \A t \in Sides : taken'[t] <= Len(out[t]) /\ Len(out[t]) <= taken'[t] + SndCap
    <3> TAKE t \in Sides
    <3>1. PICK n \in Nat : n = Len(out[t])
      BY LenIsNatural, Zenon DEF TypeOK
    <3>2. taken[t] <= n /\ n <= taken[t] + SndCap /\ taken[t] \in Nat
      BY <3>1 DEF TypeOK
    <3>3. taken'[t] = taken[t] \/ (taken'[t] = taken[t] + 1 /\ taken[t] < n)
      BY <1>4, <3>1 DEF RemoteSend, RemoteRead, TypeOK
    <3>4. taken'[t] <= n /\ n <= taken'[t] + SndCap
      BY <3>2, <3>3, RelayAssumption
    <3> QED
      BY <3>1, <3>4
  <2>3. UNCHANGED <<fin, err, link>>
    BY <1>4 DEF RemoteSend, RemoteRead
  <2> QED
    BY <2>1, <2>2, <2>3 DEF TypeOK, dataVars, peerVars, loopVars, timeVars
<1> QED
  BY <1>1, <1>2, <1>3, <1>4

\* The age stops at one over the limit.
LEMMA ClockData == ASSUME DataInv, Clock PROVE DataInv'
<1> USE DEF DataInv, Clock
<1>1. RelayIntact'
  BY UntouchedData
<1>2. BatchShape'
  BY ShapeUnchanged DEF loopVars
<1>3. age' \in 0 .. IdleLimit + 1
  BY RelayAssumption DEF Least, TypeOK
<1>4. TypeOK'
  BY <1>3 DEF TypeOK, remoteVars, dataVars, peerVars, loopVars
<1> QED
  BY <1>1, <1>2, <1>4

\* Errors, hang-ups and the completed connection leave the data alone.
LEMMA BeginData == ASSUME DataInv, Begin PROVE DataInv'
<1>1. RelayIntact'
  BY UntouchedData DEF DataInv, Begin
<1>2. /\ BatchShape' /\ batch' \in Seq([side : Sides, events : SUBSET EventName])
      /\ pc' \in {"closed", "read"} /\ connecting' \in BOOLEAN
  <2>1. CASE Destroy /\ UNCHANGED connecting
    BY <2>1, Destroyed, ShapeOfNone DEF DataInv, TypeOK
  <2>2. CASE pc' = "read" /\ batch' = batch /\ connecting' \in BOOLEAN
    BY <2>2, ShapeUnchanged DEF DataInv, TypeOK, Begin
  <2> QED
    BY <2>1, <2>2 DEF Begin
<1>3. TypeOK'
  BY <1>2, RelayAssumption DEF DataInv, Begin, TypeOK, remoteVars, dataVars, peerVars
<1> QED
  BY <1>1, <1>2, <1>3 DEF DataInv

\* The idle scan leaves the data alone.
LEMMA MaintainData == ASSUME DataInv, Maintain PROVE DataInv'
<1>1. RelayIntact'
  BY UntouchedData DEF DataInv, Maintain
<1>2. BatchShape'
  BY ShapeUnchanged DEF DataInv, Maintain
<1>3. TypeOK'
  BY DEF DataInv, Maintain, TypeOK, remoteVars, dataVars, peerVars
<1> QED
  BY <1>1, <1>2, <1>3 DEF DataInv

\* epoll_wait fills an empty batch.
LEMMA WaitData == ASSUME DataInv, Wait PROVE DataInv'
<1>1. RelayIntact'
  BY UntouchedData DEF DataInv, Wait
<1>2. /\ batch' \in Seq([side : Sides, events : SUBSET EventName])
      /\ Len(batch') \in {0, 1, 2}
      /\ batch' # <<>> => Len(batch') > 0
      /\ Len(batch') = 2 => batch'[1].side # batch'[2].side
  BY SampledEvents, Zenon DEF DataInv, Wait
<1>3. BatchShape'
  <2>1. \A n \in {0, 1, 2} : n <= 2
    OBVIOUS
  <2>2. Len(batch') <= 2
    BY <1>2, <2>1, Zenon
  <2>3. pc' \in {"begin", "read", "write", "finish"} => batch' # <<>>
    BY DEF Wait
  <2> QED
    BY <1>2, <2>2, <2>3, Zenon DEF BatchShape
<1>4. TypeOK'
  BY <1>2 DEF DataInv, Wait, TypeOK, remoteVars, dataVars, peerVars, timeVars
<1> QED
  BY <1>1, <1>3, <1>4 DEF DataInv

\* Both directions in order make the relay intact.
LEMMA FromDirections ==
  ASSUME \A s \in Sides : Carries(out'[Other(s)], buf'[s], recvd'[s])
  PROVE  RelayIntact'
  BY DEF Carries, RelayIntact, Size

\* recv() of what the compacted buffer has room for.
LEMMA ReadDirections ==
  ASSUME DataInv, Read
  PROVE  /\ Side \in Sides /\ out' = out
         /\ recvd' \in [Sides -> Nat]
         /\ buf' = [buf EXCEPT ![Side] = buf'[Side]]
         /\ \A t \in Sides : /\ Good(buf'[t]) /\ recvd'[t] <= sent[t]
                             /\ Carries(out[Other(t)], buf'[t], recvd'[t])
<1> DEFINE s == Side
           c == Compacted(buf[s])
           n == IF "IN" \in Events THEN Received(s) ELSE 0
<1>1. s \in Sides
  BY HandledEvent DEF DataInv, Read
<1>2. /\ Good(buf[s]) /\ out[Other(s)] \in Seq(Nat) /\ recvd[s] \in Nat /\ sent[s] \in Nat
      /\ Carries(out[Other(s)], buf[s], recvd[s])
  BY <1>1, Direction, Zenon DEF DataInv
<1>3. Good(c) /\ Carries(out[Other(s)], c, recvd[s])
  BY <1>2, CompactedGood, Zenon
<1>4. n \in Nat /\ n <= Space(c) /\ recvd[s] + n <= sent[s]
  <2>1. Space(c) \in Nat
    BY <1>3, BufferNumbers, Zenon
  <2>2. recvd[s] <= sent[s]
    BY <1>1 DEF DataInv, TypeOK
  <2>3. Unread(s) = sent[s] - recvd[s] /\ Received(s) = Least(Unread(s), Space(c))
    BY DEF Unread, Received
  <2> HIDE DEF s, c
  <2> QED
    BY <1>2, <2>1, <2>2, <2>3 DEF Least
<1>5. /\ out' = out
      /\ recvd' = [recvd EXCEPT ![s] = @ + n]
      /\ buf' = IF "IN" \in Events THEN [buf EXCEPT ![s] = Filled(c, recvd[s], n)] ELSE buf
  BY Zenon DEF Read
<1>6. recvd \in [Sides -> Nat] /\ buf \in [Sides -> Buffer]
  BY Zenon DEF DataInv, TypeOK
<1> HIDE DEF s, c, n
<1>7. /\ Good(Filled(c, recvd[s], n))
      /\ Carries(out[Other(s)], Filled(c, recvd[s], n), recvd[s] + n)
  BY <1>2, <1>3, <1>4, FilledGood, Zenon
<1>8. recvd' \in [Sides -> Nat] /\ recvd'[s] = recvd[s] + n
      /\ \A t \in Sides \ {s} : recvd'[t] = recvd[t]
  BY <1>1, <1>4, <1>5, <1>6
<1>9. /\ buf' = [buf EXCEPT ![s] = buf'[s]]
      /\ \A t \in Sides \ {s} : buf'[t] = buf[t]
      /\ Good(buf'[s]) /\ Carries(out[Other(s)], buf'[s], recvd'[s])
  <2>1. CASE "IN" \in Events
    <3>1. buf'[s] = Filled(c, recvd[s], n)
      BY <1>1, <1>5, <1>6, <2>1
    <3>2. buf' = [buf EXCEPT ![s] = buf'[s]] /\ \A t \in Sides \ {s} : buf'[t] = buf[t]
      BY <1>1, <1>5, <1>6, <2>1
    <3> QED
      BY <1>7, <1>8, <3>1, <3>2, Zenon
  <2>2. CASE "IN" \notin Events
    <3>1. n = 0 /\ buf' = buf
      BY <1>5, <2>2 DEF n
    <3>2. recvd'[s] = recvd[s]
      BY <1>2, <1>8, <3>1
    <3>3. buf' = [buf EXCEPT ![s] = buf'[s]]
      BY <1>1, <1>6, <3>1
    <3> QED
      BY <1>2, <3>1, <3>2, <3>3, Zenon
  <2> QED
    BY <2>1, <2>2
<1>10. ASSUME NEW t \in Sides
       PROVE  /\ Good(buf'[t]) /\ recvd'[t] <= sent[t]
              /\ Carries(out[Other(t)], buf'[t], recvd'[t])
  <2>1. CASE t = s
    <3>1. recvd'[s] <= sent[s]
      BY <1>4, <1>8
    <3> QED
      BY <1>9, <2>1, <3>1, Zenon
  <2>2. CASE t # s
    <3>1. Good(buf[t]) /\ Carries(out[Other(t)], buf[t], recvd[t])
      BY Direction, Zenon DEF DataInv
    <3>2. recvd[t] <= sent[t]
      BY Zenon DEF DataInv, TypeOK
    <3>3. buf'[t] = buf[t] /\ recvd'[t] = recvd[t]
      BY <1>8, <1>9, <2>2
    <3> QED
      BY <3>1, <3>2, <3>3, Zenon
  <2> QED
    BY <2>1, <2>2
<1> QED
  BY <1>1, <1>5, <1>8, <1>9, <1>10, Zenon DEF s

\* A read keeps types, streams and batch in order.
LEMMA ReadData == ASSUME DataInv, Read PROVE DataInv'
<1>1. RelayIntact'
  <2>1. \A t \in Sides : Carries(out'[Other(t)], buf'[t], recvd'[t])
    BY ReadDirections, Zenon
  <2> QED
    BY <2>1, FromDirections, Zenon
<1>2. /\ BatchShape' /\ batch' \in Seq([side : Sides, events : SUBSET EventName])
      /\ pc' \in {"closed", "write"} /\ eof' \in [Sides -> BOOLEAN]
  <2>1. CASE Destroy /\ UNCHANGED eof
    BY <2>1, Destroyed, ShapeOfNone, Zenon DEF DataInv, TypeOK
  <2>2. CASE pc' = "write" /\ batch' = batch /\ eof' \in [Sides -> BOOLEAN]
    BY <2>2, ShapeUnchanged DEF DataInv, TypeOK, Read
  <2>3. \A e \in BOOLEAN : [eof EXCEPT ![Side] = @ \/ e] \in [Sides -> BOOLEAN]
    BY ReadDirections, Zenon DEF DataInv, TypeOK
  <2> QED
    BY <2>1, <2>2, <2>3, Zenon DEF Read
<1>3. /\ buf' \in [Sides -> Buffer] /\ recvd' \in [Sides -> Nat] /\ out' = out
      /\ \A t \in Sides : /\ buf'[t].start <= Len(buf'[t].data) /\ Len(buf'[t].data) <= Cap
                          /\ recvd'[t] <= sent[t]
  BY ReadDirections, Zenon DEF Good, DataInv, TypeOK
<1>4. TypeOK'
  BY <1>2, <1>3 DEF DataInv, Read, TypeOK, remoteVars, timeVars
<1> QED
  BY <1>1, <1>2, <1>4 DEF DataInv

\* A send() of nothing changes neither the stream nor the buffer.
LEMMA NothingSent ==
  ASSUME NEW o \in Seq(Nat), NEW b, NEW k \in Nat, Good(b), Carries(o, b, k)
  PROVE  o \o Front(b, 0) = o
<1>1. Front(b, 0) \in Seq(Nat) /\ Len(Front(b, 0)) = 0
  <2>1. 0 \in Nat /\ 0 <= Size(b)
    BY BufferNumbers
  <2> QED
    BY <2>1, FrontContinues, Zenon
<1>2. Front(b, 0) = <<>>
  BY <1>1, EmptySeq
<1> QED
  BY <1>2, ConcatEmptySeq, Zenon

\* send() of what the socket has room for.
LEMMA WriteDirections ==
  ASSUME DataInv, Write
  PROVE  /\ Side \in Sides /\ recvd' = recvd
         /\ out' \in [Sides -> Seq(Nat)]
         /\ \A t \in Sides : Len(out[t]) <= Len(out'[t]) /\ Len(out'[t]) <= taken[t] + SndCap
         /\ buf' = [buf EXCEPT ![Other(Side)] = buf'[Other(Side)]]
         /\ Size(buf'[Other(Side)]) <= Size(buf[Other(Side)])
         /\ \A t \in Sides : Good(buf'[t]) /\ Carries(out'[Other(t)], buf'[t], recvd'[t])
         /\ pc' = "closed" => out' = out /\ buf' = buf
<1> DEFINE s == Side
           o == Other(Side)
           b == buf[o]
           asked == "OUT" \in Events /\ ~(s = 1 /\ connecting) /\ Size(b) > 0
           fails == asked /\ (err[s] \/ shut[s])
           n == IF asked /\ ~fails THEN Least(Size(b), Room(s)) ELSE 0
<1>1. s \in Sides /\ o \in Sides /\ o # s /\ Other(o) = s
  <2>1. s \in Sides
    BY HandledEvent DEF DataInv, Write
  <2> QED
    BY <2>1, Direction, Zenon DEF DataInv
<1>2. /\ Good(b) /\ out[s] \in Seq(Nat) /\ recvd[o] \in Nat
      /\ Carries(out[s], b, recvd[o])
  BY <1>1, Direction, Zenon DEF DataInv
<1>3. /\ taken[s] \in Nat /\ Len(out[s]) \in Nat /\ Size(b) \in Nat
      /\ taken[s] <= Len(out[s]) /\ Len(out[s]) <= taken[s] + SndCap
  <2>1. Len(out[s]) \in Nat /\ Size(b) \in Nat
    BY <1>2, LenIsNatural, BufferNumbers, Zenon
  <2>2. taken[s] \in Nat /\ taken[s] <= Len(out[s]) /\ Len(out[s]) <= taken[s] + SndCap
    BY <1>1 DEF DataInv, TypeOK
  <2> QED
    BY <2>1, <2>2
<1>4. n \in Nat /\ n <= Size(b) /\ Len(out[s]) + n <= taken[s] + SndCap
  <2>1. Room(s) = SndCap - (Len(out[s]) - taken[s])
    BY DEF Room
  <2> HIDE DEF s, o, b, asked, fails
  <2> QED
    BY <1>3, <2>1, RelayAssumption DEF Least
<1>5. /\ out' = [out EXCEPT ![s] = @ \o Front(b, n)]
      /\ buf' = IF n > 0 THEN [buf EXCEPT ![o] = Advanced(@, n)] ELSE buf
      /\ recvd' = recvd
      /\ fails \/ pc' = "finish"
  BY Zenon DEF Write
<1>6. fails => n = 0
  OBVIOUS
<1>7. /\ out \in [Sides -> Seq(Nat)] /\ buf \in [Sides -> Buffer]
  BY Zenon DEF DataInv, TypeOK
<1> HIDE DEF s, o, b, n, asked, fails
<1>8. /\ out[s] \o Front(b, n) \in Seq(Nat) /\ Len(out[s] \o Front(b, n)) = Len(out[s]) + n
      /\ Good(Advanced(b, n)) /\ Carries(out[s] \o Front(b, n), Advanced(b, n), recvd[o])
      /\ Size(Advanced(b, n)) = Size(b) - n
  BY <1>2, <1>4, AdvancedGood, Zenon
<1>9. /\ out' \in [Sides -> Seq(Nat)] /\ out'[s] = out[s] \o Front(b, n)
      /\ \A t \in Sides \ {s} : out'[t] = out[t]
  BY <1>1, <1>5, <1>7, <1>8
<1>10. /\ buf' = [buf EXCEPT ![o] = buf'[o]]
       /\ \A t \in Sides \ {o} : buf'[t] = buf[t]
       /\ Good(buf'[o]) /\ Carries(out'[s], buf'[o], recvd[o])
       /\ Size(buf'[o]) <= Size(b)
       /\ n = 0 => out' = out /\ buf' = buf
  <2>1. CASE n > 0
    <3>1. buf'[o] = Advanced(b, n) /\ buf' = [buf EXCEPT ![o] = buf'[o]]
          /\ \A t \in Sides \ {o} : buf'[t] = buf[t]
      BY <1>1, <1>5, <1>7, <2>1 DEF b
    <3>2. Size(Advanced(b, n)) <= Size(b) /\ n # 0
      BY <1>3, <1>4, <1>8, <2>1
    <3> QED
      BY <1>8, <1>9, <3>1, <3>2, Zenon
  <2>2. CASE n = 0
    <3>1. buf' = buf
      BY <1>5, <2>2
    <3>2. out[s] \o Front(b, n) = out[s]
      BY <1>2, <2>2, NothingSent, Zenon
    <3>3. out' = out
      BY <1>1, <1>5, <1>7, <3>2
    <3>4. buf' = [buf EXCEPT ![o] = buf'[o]] /\ Size(b) <= Size(b)
      BY <1>1, <1>3, <1>7, <3>1
    <3> QED
      BY <1>2, <3>1, <3>3, <3>4, Zenon DEF b
  <2> QED
    BY <1>4, <2>1, <2>2
<1>11. ASSUME NEW t \in Sides
       PROVE  Good(buf'[t]) /\ Carries(out'[Other(t)], buf'[t], recvd'[t])
  <2>1. CASE t = o
    BY <1>1, <1>5, <1>10, <2>1, Zenon
  <2>2. CASE t # o
    <3>1. Good(buf[t]) /\ Carries(out[Other(t)], buf[t], recvd[t]) /\ Other(t) \in Sides
      BY Direction, Zenon DEF DataInv
    <3>2. Other(t) # s
      BY <1>1, <2>2 DEF Other, Sides
    <3>3. buf'[t] = buf[t] /\ out'[Other(t)] = out[Other(t)]
      BY <1>9, <1>10, <2>2, <3>1, <3>2
    <3> QED
      BY <1>5, <3>1, <3>3, Zenon
  <2> QED
    BY <2>1, <2>2
<1>12. ASSUME NEW t \in Sides
       PROVE  Len(out[t]) <= Len(out'[t]) /\ Len(out'[t]) <= taken[t] + SndCap
  <2>1. CASE t = s
    <3>1. Len(out'[s]) = Len(out[s]) + n
      BY <1>8, <1>9, Zenon
    <3> QED
      BY <1>3, <1>4, <2>1, <3>1
  <2>2. CASE t # s
    <3>1. out'[t] = out[t]
      BY <1>9, <2>2
    <3>2. Len(out[t]) \in Nat
      BY <1>7, LenIsNatural, Zenon
    <3>3. Len(out[t]) <= taken[t] + SndCap
      BY Zenon DEF DataInv, TypeOK
    <3> QED
      BY <3>1, <3>2, <3>3
  <2> QED
    BY <2>1, <2>2
<1>13. pc' = "closed" => out' = out /\ buf' = buf
  BY <1>5, <1>6, <1>10
<1> QED
  BY <1>1, <1>5, <1>9, <1>10, <1>11, <1>12, <1>13, Zenon DEF s, o, b

\* So does a write.
LEMMA WriteData == ASSUME DataInv, Write PROVE DataInv'
<1>1. RelayIntact'
  <2>1. \A t \in Sides : Carries(out'[Other(t)], buf'[t], recvd'[t])
    BY WriteDirections, Zenon
  <2> QED
    BY <2>1, FromDirections, Zenon
<1>2. /\ BatchShape' /\ batch' \in Seq([side : Sides, events : SUBSET EventName])
      /\ pc' \in {"closed", "finish"}
  <2>1. CASE Destroy
    BY <2>1, Destroyed, ShapeOfNone, Zenon DEF DataInv, TypeOK
  <2>2. CASE pc' = "finish" /\ batch' = batch
    BY <2>2, ShapeUnchanged DEF DataInv, TypeOK, Write
  <2> QED
    BY <2>1, <2>2, Zenon DEF Write
<1>3. /\ buf' \in [Sides -> Buffer] /\ recvd' = recvd /\ out' \in [Sides -> Seq(Nat)]
      /\ \A t \in Sides : buf'[t].start <= Len(buf'[t].data) /\ Len(buf'[t].data) <= Cap
  BY WriteDirections, Direction, Zenon DEF Good, DataInv, TypeOK
<1>4. \A t \in Sides : taken[t] <= Len(out'[t]) /\ Len(out'[t]) <= taken[t] + SndCap
  <2> TAKE t \in Sides
  <2>1. /\ Len(out[t]) \in Nat /\ Len(out'[t]) \in Nat /\ taken[t] \in Nat
        /\ Len(out[t]) <= Len(out'[t]) /\ taken[t] <= Len(out[t])
        /\ Len(out'[t]) <= taken[t] + SndCap
    BY WriteDirections, LenIsNatural, Zenon DEF DataInv, TypeOK
  <2>2. \A x, y, z \in Nat : x <= y /\ y <= z => x <= z
    OBVIOUS
  <2> QED
    BY <2>1, <2>2, Zenon
<1>5. TypeOK'
  BY <1>2, <1>3, <1>4 DEF DataInv, Write, TypeOK, remoteVars, peerVars, timeVars
<1> QED
  BY <1>1, <1>2, <1>5 DEF DataInv

\* The batch after its first event.
LEMMA RestOfBatch ==
  ASSUME DataInv, pc = "finish"
  PROVE  /\ Tail(batch) \in Seq([side : Sides, events : SUBSET EventName])
         /\ Len(Tail(batch)) = Len(batch) - 1 /\ Len(batch) \in {1, 2}
         /\ \A k \in 1 .. Len(Tail(batch)) : k = 1 /\ Len(batch) = 2 /\ Tail(batch)[k] = batch[2]
<1>1. Len(batch) \in {1, 2}
  BY HandledEvent DEF DataInv
<1>2. batch \in Seq([side : Sides, events : SUBSET EventName])
  BY Zenon DEF DataInv, TypeOK
<1>3. batch # <<>>
  <2>1. Len(batch) # 0
    BY <1>1
  <2> QED
    BY <2>1, EmptySeq, Zenon
<1>4. /\ Tail(batch) \in Seq([side : Sides, events : SUBSET EventName])
      /\ Len(Tail(batch)) = Len(batch) - 1
      /\ \A k \in 1 .. Len(Tail(batch)) : Tail(batch)[k] = batch[k + 1]
  BY <1>2, <1>3, HeadTailProperties, Zenon
<1>5. \A l \in {1, 2} : \A k \in 1 .. l - 1 : k = 1 /\ l = 2 /\ k + 1 = 2
  OBVIOUS
<1>6. \A k \in 1 .. Len(Tail(batch)) : k = 1 /\ Len(batch) = 2 /\ k + 1 = 2
  BY <1>1, <1>4, <1>5, Zenon
<1> QED
  BY <1>1, <1>4, <1>6, Zenon

\* Half-closing and new interest leave the data alone; one event is used up.
LEMMA FinishData == ASSUME DataInv, Finish PROVE DataInv'
<1>1. RelayIntact'
  BY UntouchedData DEF DataInv, Finish
<1>2. /\ BatchShape' /\ batch' \in Seq([side : Sides, events : SUBSET EventName])
      /\ pc' \in {"closed", "maintain", "begin"}
      /\ interest' \in [Sides -> SUBSET {"IN", "OUT"}]
  <2>1. CASE Destroy /\ UNCHANGED interest
    BY <2>1, Destroyed, ShapeOfNone, Zenon DEF DataInv, TypeOK
  <2>2. CASE /\ interest' = [s \in Sides |-> Wanted(s)]
             /\ batch' = Tail(batch)
             /\ pc' = IF Len(batch) = 1 THEN "maintain" ELSE "begin"
    <3>1. interest' \in [Sides -> SUBSET {"IN", "OUT"}]
      BY <2>2 DEF Wanted
    <3>2. \A l \in {1, 2} : /\ l - 1 <= 2 /\ l - 1 # 2
                            /\ l # 1 => l - 1 > 0
      OBVIOUS
    <3>3. BatchShape' /\ batch' \in Seq([side : Sides, events : SUBSET EventName])
      <4>1. /\ Len(batch) \in {1, 2} /\ Len(batch') = Len(batch) - 1
            /\ batch' \in Seq([side : Sides, events : SUBSET EventName])
        BY <2>2, RestOfBatch, Zenon DEF Finish
      <4>2. /\ Len(batch') <= 2 /\ Len(batch') # 2
            /\ Len(batch) # 1 => Len(batch') > 0
        BY <3>2, <4>1, Zenon
      <4>3. pc' \in {"begin", "read", "write", "finish"} => Len(batch) # 1
        BY <2>2
      <4> QED
        BY <4>1, <4>2, <4>3, Zenon DEF BatchShape
    <3> QED
      BY <2>2, <3>1, <3>3
  <2> QED
    BY <2>1, <2>2, Zenon DEF Finish
<1>3. /\ shut' \in [Sides -> BOOLEAN] /\ err' \in [Sides -> BOOLEAN]
      /\ link' \in {"syn", "up", "failed"}
  BY DEF DataInv, Finish, TypeOK, HalfClosed, Other, Sides
<1>4. TypeOK'
  BY <1>2, <1>3 DEF DataInv, Finish, TypeOK, dataVars, timeVars
<1> QED
  BY <1>1, <1>2, <1>4 DEF DataInv

\* A new session carries nothing.
LEMMA InitData == ASSUME Init PROVE DataInv
<1>1. /\ RelayIntact
  <2>1. \A s \in Sides : Carries(out[Other(s)], buf[s], recvd[s])
    BY EmptyGood DEF Init, Other, Sides
  <2> QED
    BY <2>1 DEF RelayIntact, Carries
<1>2. BatchShape
  BY DEF Init, BatchShape
<1>3. \A s \in Sides : buf[s] \in Buffer /\ buf[s].start <= Len(buf[s].data) /\ Len(buf[s].data) <= Cap
  BY EmptyGood DEF Init, Good
<1>4. TypeOK
  <2>1. /\ batch \in Seq([side : Sides, events : SUBSET EventName])
        /\ out \in [Sides -> Seq(Nat)] /\ \A s \in Sides : Len(out[s]) = 0
    BY EmptySeq DEF Init
  <2>2. /\ buf \in [Sides -> Buffer] /\ interest \in [Sides -> SUBSET {"IN", "OUT"}]
    BY <1>3 DEF Init
  <2>3. /\ age \in 0 .. IdleLimit + 1
        /\ \A s \in Sides : /\ recvd[s] <= sent[s] /\ taken[s] <= Len(out[s])
                            /\ Len(out[s]) <= taken[s] + SndCap
    BY <2>1, RelayAssumption DEF Init
  <2> QED
    BY <1>3, <2>1, <2>2, <2>3 DEF Init, TypeOK
<1> QED
  BY <1>1, <1>2, <1>4 DEF DataInv

\* DataInv is inductive.
LEMMA NextData == ASSUME DataInv, [Next]_vars PROVE DataInv'
<1>1. CASE Remote
  BY <1>1, RemoteData
<1>2. CASE Clock
  BY <1>2, ClockData
<1>3. CASE Loop
  BY <1>3, WaitData, BeginData, ReadData, WriteData, FinishData, MaintainData, Zenon DEF Loop
<1>4. CASE UNCHANGED vars
  <2>1. RelayIntact'
    BY <1>4, UntouchedData DEF DataInv, vars
  <2>2. BatchShape'
    BY <1>4, ShapeUnchanged DEF DataInv, vars, loopVars
  <2>3. TypeOK'
    BY <1>4 DEF DataInv, TypeOK, vars, remoteVars, dataVars, peerVars, loopVars, timeVars
  <2> QED
    BY <2>1, <2>2, <2>3 DEF DataInv
<1> QED
  BY <1>1, <1>2, <1>3, <1>4 DEF Next

-----------------------------------------------------------------------------
(* Ends of streams                                                         *)

\* Steps that change neither ends, interest nor batch.
LEMMA EofKept ==
  ASSUME EofStopsReading, eof' = eof, interest' = interest, batch' = batch,
         pc' \in {"wait", "begin", "read", "maintain"} => pc \in {"wait", "begin", "read", "maintain"},
         pc' \in {"begin", "read"} => pc \in {"begin", "read"}
  PROVE  EofStopsReading'
  BY Zenon DEF EofStopsReading

\* A destroyed session has no events left.
LEMMA EofOfClosed ==
  ASSUME batch' = <<>>, pc' = "closed"
  PROVE  EofStopsReading'
<1>1. \A k \in 1 .. Len(<<>>) : FALSE
  OBVIOUS
<1>2. pc' \notin {"wait", "begin", "read", "maintain"}
  OBVIOUS
<1> QED
  BY <1>1, <1>2, Zenon DEF EofStopsReading

\* An event to be read asks for no input of a side that has ended.
LEMMA LoopEof == ASSUME DataInv, EofStopsReading, Loop PROVE EofStopsReading'
<1>1. CASE Wait
  <2>1. /\ pc = "wait" /\ pc' \in {"maintain", "begin"}
        /\ eof' = eof /\ interest' = interest /\ batch' \in Batches
    BY <1>1 DEF Wait, peerVars
  <2>2. \A s \in Sides : eof[s] => "IN" \notin interest[s]
    BY <2>1 DEF EofStopsReading
  <2>3. \A s \in Sides : eof[s] => "IN" \notin Ready(s)
    BY <2>2 DEF Ready
  <2>4. \A k \in 1 .. Len(batch') : batch'[k].events = Ready(batch'[k].side) /\ batch'[k].side \in Sides
    BY <2>1, SampledEvents, Zenon DEF DataInv
  <2> QED
    BY <2>1, <2>2, <2>3, <2>4, Zenon DEF EofStopsReading
<1>2. CASE Begin
  <2>1. CASE Destroy
    BY <2>1, Destroyed, EofOfClosed, Zenon
  <2>2. CASE pc' = "read" /\ batch' = batch
    BY <1>2, <2>2, EofKept DEF Begin
  <2> QED
    BY <1>2, <2>1, <2>2, Zenon DEF Begin
<1>3. CASE Read
  <2>1. CASE Destroy
    BY <2>1, Destroyed, EofOfClosed, Zenon
  <2>2. CASE /\ pc' = "write" /\ batch' = batch
             /\ \E e \in BOOLEAN : eof' = [eof EXCEPT ![Side] = @ \/ e]
    <3>1. eof \in [Sides -> BOOLEAN] /\ Side \in Sides
      BY <1>3, ReadDirections, Zenon DEF DataInv, TypeOK
    <3>2. \A t : t # batch[1].side /\ eof'[t] => eof[t]
      BY <2>2, <3>1 DEF Side
    <3>3. ASSUME NEW k \in 1 .. Len(batch), k = 2, eof'[batch[k].side]
          PROVE  "IN" \notin batch[k].events
      <4>1. Len(batch) = 2
        <5>1. Len(batch) \in {1, 2}
          BY <1>3, HandledEvent DEF DataInv, Read
        <5>2. \A l \in {1, 2} : 2 \in 1 .. l => l = 2
          OBVIOUS
        <5> QED
          BY <3>3, <5>1, <5>2, Zenon
      <4>2. batch[k].side # batch[1].side
        BY <3>3, <4>1, Zenon DEF DataInv, BatchShape
      <4> QED
        BY <3>2, <3>3, <4>2, Zenon DEF EofStopsReading
    <3>4. pc' \notin {"wait", "begin", "read", "maintain"} /\ pc' \notin {"begin", "read"}
      BY <2>2
    <3> QED
      BY <2>2, <3>3, <3>4, Zenon DEF EofStopsReading
  <2> QED
    BY <1>3, <2>1, <2>2, Zenon DEF Read
<1>4. CASE Write
  <2>1. CASE Destroy
    BY <2>1, Destroyed, EofOfClosed, Zenon
  <2>2. CASE pc' = "finish" /\ batch' = batch
    BY <1>4, <2>2, EofKept DEF Write, peerVars
  <2> QED
    BY <1>4, <2>1, <2>2, Zenon DEF Write
<1>5. CASE Finish
  <2>1. CASE Destroy
    BY <2>1, Destroyed, EofOfClosed, Zenon
  <2>2. CASE interest' = [s \in Sides |-> Wanted(s)] /\ batch' = Tail(batch)
    <3>1. \A s \in Sides : eof[s] => "IN" \notin Wanted(s)
      BY DEF Wanted
    <3>2. \A s \in Sides : eof'[s] => "IN" \notin interest'[s]
      BY <1>5, <2>2, <3>1 DEF Finish
    <3>3. ASSUME NEW k \in 1 .. Len(batch'), eof'[batch'[k].side]
          PROVE  "IN" \notin batch'[k].events
      <4>1. Len(batch) = 2 /\ batch'[k] = batch[2] /\ eof' = eof
        BY <1>5, <2>2, RestOfBatch, Zenon DEF Finish
      <4>2. 2 \in 1 .. Len(batch)
        BY <4>1
      <4> QED
        BY <3>3, <4>1, <4>2, Zenon DEF EofStopsReading
    <3> QED
      BY <3>2, <3>3, Zenon DEF EofStopsReading
  <2> QED
    BY <1>5, <2>1, <2>2, Zenon DEF Finish
<1>6. CASE Maintain
  BY <1>6, EofKept DEF Maintain, peerVars
<1> QED
  BY <1>1, <1>2, <1>3, <1>4, <1>5, <1>6 DEF Loop

\* No byte comes in behind an end that was passed on.
LEMMA LoopDrained ==
  ASSUME DataInv, EofStopsReading, DrainedBeforeShutdown, Loop
  PROVE  DrainedBeforeShutdown'
<1>1. CASE shut' = shut /\ eof' = eof /\ buf' = buf
  BY <1>1, Zenon DEF DrainedBeforeShutdown, Size
<1>2. CASE Read
  <2>1. Side \in Sides /\ buf' = [buf EXCEPT ![Side] = buf'[Side]] /\ buf \in [Sides -> Buffer]
        /\ eof \in [Sides -> BOOLEAN]
    BY <1>2, ReadDirections, Zenon DEF DataInv, TypeOK
  <2>2. shut' = shut /\ \A t \in Sides : eof[t] => eof'[t]
    BY <1>2, <2>1 DEF Read
  <2>3. ASSUME NEW t \in Sides, shut[Other(t)]
        PROVE  buf'[t] = buf[t]
    <3>1. eof[t]
      BY <2>3 DEF DrainedBeforeShutdown
    <3>2. CASE t = Side
      <4>1. 1 \in 1 .. Len(batch) /\ pc = "read"
        BY <1>2, HandledEvent DEF DataInv, Read
      <4>2. "IN" \notin Events
        BY <3>1, <3>2, <4>1 DEF EofStopsReading, Side, Events
      <4> QED
        BY <1>2, <4>2 DEF Read
    <3>3. CASE t # Side
      BY <2>1, <3>3
    <3> QED
      BY <3>2, <3>3
  <2>4. ASSUME NEW t \in Sides, shut'[Other(t)]
        PROVE  eof'[t] /\ Size(buf[t]) = 0 /\ buf'[t] = buf[t]
    BY <2>2, <2>3, <2>4, Zenon DEF DrainedBeforeShutdown
  <2> QED
    BY <2>4, Zenon DEF DrainedBeforeShutdown, Size
<1>3. CASE Write
  <2> DEFINE o == Other(Side)
  <2>1. /\ o \in Sides /\ buf' = [buf EXCEPT ![o] = buf'[o]] /\ buf \in [Sides -> Buffer]
        /\ Size(buf'[o]) <= Size(buf[o]) /\ Good(buf'[o])
    BY <1>3, WriteDirections, Direction, Zenon DEF DataInv, TypeOK
  <2>2. shut' = shut /\ eof' = eof
    BY <1>3 DEF Write, peerVars
  <2>3. ASSUME NEW t \in Sides, Size(buf[t]) = 0
        PROVE  Size(buf'[t]) = 0
    <3>1. CASE t = o
      <4>1. Size(buf'[o]) \in Nat /\ Size(buf'[o]) <= 0
        BY <2>1, <2>3, <3>1, BufferNumbers, Zenon
      <4>2. \A z \in Nat : z <= 0 => z = 0
        OBVIOUS
      <4> QED
        BY <3>1, <4>1, <4>2, Zenon
    <3>2. CASE t # o
      <4>1. buf'[t] = buf[t]
        BY <2>1, <3>2
      <4> QED
        BY <2>3, <4>1, Zenon
    <3> QED
      BY <3>1, <3>2
  <2> QED
    BY <2>2, <2>3, Zenon DEF DrainedBeforeShutdown, Size
<1>4. CASE Finish
  <2>1. /\ shut' = [s \in Sides |-> shut[s] \/ HalfClosed(Other(s))]
        /\ eof' = eof /\ buf' = buf
    BY <1>4 DEF Finish, dataVars
  <2>2. ASSUME NEW t \in Sides, shut'[Other(t)]
        PROVE  eof[t] /\ Size(buf[t]) = 0
    <3>1. Other(t) \in Sides /\ Other(Other(t)) = t
      BY DEF Other, Sides
    <3>2. shut[Other(t)] \/ HalfClosed(t)
      BY <2>1, <2>2, <3>1
    <3> QED
      BY <3>2, Zenon DEF DrainedBeforeShutdown, HalfClosed
  <2> QED
    BY <2>1, <2>2, Zenon DEF DrainedBeforeShutdown, Size
<1> QED
  BY <1>1, <1>2, <1>3, <1>4 DEF Loop, Wait, Begin, Maintain, peerVars, dataVars

-----------------------------------------------------------------------------
(* The artifact                                                            *)

\* No artifact, or an empty one, holds nothing wrong.
LEMMA EmptyArtifact ==
  ASSUME artifact' = <<<<>>, <<>>>>
  PROVE  ArtifactHoldsNextBytes'
<1>1. Len(artifact'[1]) = 0 /\ Len(artifact'[2]) = 0
  OBVIOUS
<1>2. \A s \in Sides : Len(artifact'[s + 1]) = 0
  BY <1>1 DEF Sides
<1>3. \A s \in Sides : \A i \in 1 .. Len(artifact'[s + 1]) : FALSE
  BY <1>2
<1>4. Len(artifact'[1]) + Len(artifact'[2]) <= Cap
  BY <1>1, RelayAssumption
<1> QED
  BY <1>3, <1>4, Zenon DEF ArtifactHoldsNextBytes

\* Neither share exceeds its buffer, nor both together one buffer.
LEMMA SharesFit ==
  ASSUME NEW a \in Nat, NEW b \in Nat
  PROVE  LET shares == ArtifactShares(a, b)
         IN  /\ shares[1] \in Nat /\ shares[1] <= a /\ shares[2] \in Nat /\ shares[2] <= b
             /\ shares[1] + shares[2] <= Cap
<1>1. Cap \div 2 \in Nat /\ Cap \div 2 <= Cap /\ Cap \in Nat
  BY RelayAssumption
<1> QED
  BY <1>1 DEF ArtifactShares, Least

\* The front of b, of whatever length, is what comes after o.
Continues(o, b) ==
  \A n \in Nat : n <= Size(b) =>
    /\ Len(Front(b, n)) = n
    /\ \A i \in 1 .. n : Front(b, n)[i] = Len(o) + i

\* FrontContinues for every length.
LEMMA FrontOfAnyLength ==
  ASSUME NEW o \in Seq(Nat), NEW b, NEW k \in Nat, Good(b), Carries(o, b, k)
  PROVE  Continues(o, b)
<1> SUFFICES ASSUME NEW n \in Nat, n <= Size(b)
             PROVE  /\ Len(Front(b, n)) = n
                    /\ \A i \in 1 .. n : Front(b, n)[i] = Len(o) + i
  BY DEF Continues
<1> QED
  BY FrontContinues

\* The front of a direction's buffer is what its receiver is sent next.
LEMMA NextBytes ==
  ASSUME NEW s \in Sides, DataInv
  PROVE  Continues(out[Other(s)], buf[s])
<1>1. /\ Good(buf[s]) /\ out[Other(s)] \in Seq(Nat) /\ recvd[s] \in Nat
      /\ Carries(out[Other(s)], buf[s], recvd[s])
  BY Direction, Zenon DEF DataInv
<1> QED
  BY <1>1, FrontOfAnyLength, Zenon

\* session_emit_artifact keeps the next bytes of both directions.
LEMMA DestroyedArtifact ==
  ASSUME DataInv, WrittenOnce, Open, Destroy, out' = out
  PROVE  ArtifactHoldsNextBytes'
<1> DEFINE shares == ArtifactShares(Size(buf[0]), Size(buf[1]))
<1>1. CASE artifact' = artifact
  BY <1>1, EmptyArtifact, Zenon DEF WrittenOnce
<1>2. CASE artifact' = <<Front(buf[0], shares[1]), Front(buf[1], shares[2])>>
  <2>0. 0 \in Sides /\ 1 \in Sides
    BY DEF Sides
  <2>1. /\ Good(buf[0]) /\ out[Other(0)] \in Seq(Nat) /\ recvd[0] \in Nat
        /\ Carries(out[Other(0)], buf[0], recvd[0])
        /\ Good(buf[1]) /\ out[Other(1)] \in Seq(Nat) /\ recvd[1] \in Nat
        /\ Carries(out[Other(1)], buf[1], recvd[1])
    BY <2>0, Direction, Zenon DEF DataInv
  <2>2. /\ shares[1] \in Nat /\ shares[1] <= Size(buf[0])
        /\ shares[2] \in Nat /\ shares[2] <= Size(buf[1])
        /\ shares[1] + shares[2] <= Cap
    <3>1. Size(buf[0]) \in Nat /\ Size(buf[1]) \in Nat
      BY <2>1, BufferNumbers, Zenon
    <3> QED
      BY <3>1, SharesFit, Zenon
  <2> HIDE DEF shares
  <2>3. /\ Len(Front(buf[0], shares[1])) = shares[1]
        /\ \A i \in 1 .. shares[1] : Front(buf[0], shares[1])[i] = Len(out[Other(0)]) + i
    BY <2>0, <2>2, NextBytes, Zenon DEF Continues
  <2>4. /\ Len(Front(buf[1], shares[2])) = shares[2]
        /\ \A i \in 1 .. shares[2] : Front(buf[1], shares[2])[i] = Len(out[Other(1)]) + i
    BY <2>0, <2>2, NextBytes, Zenon DEF Continues
  <2>5. artifact'[1] = Front(buf[0], shares[1]) /\ artifact'[2] = Front(buf[1], shares[2])
    BY <1>2
  <2>6. Len(artifact'[1]) + Len(artifact'[2]) <= Cap
    BY <2>2, <2>3, <2>4, <2>5, Zenon
  <2>7. ASSUME NEW s \in Sides, NEW i \in 1 .. Len(artifact'[s + 1])
        PROVE  artifact'[s + 1][i] = Len(out'[Other(s)]) + i
    <3>1. CASE s = 0
      <4>1. s + 1 = 1
        BY <3>1
      <4> QED
        BY <2>3, <2>5, <3>1, <4>1, Zenon
    <3>2. CASE s = 1
      <4>1. s + 1 = 2
        BY <3>2
      <4> QED
        BY <2>4, <2>5, <3>2, <4>1, Zenon
    <3> QED
      BY <3>1, <3>2 DEF Sides
  <2> QED
    BY <2>6, <2>7, Zenon DEF ArtifactHoldsNextBytes
<1> QED
  BY <1>1, <1>2, Zenon DEF Destroy

\* The artifact is written at most once, by session_destroy.
LEMMA NextArtifact ==
  ASSUME DataInv, WrittenOnce, Next
  PROVE  WrittenOnce' /\ ArtifactHoldsNextBytes'
<1>1. Open
  BY DEF Next, Remote, Clock, Loop, Wait, Begin, Read, Write, Finish, Maintain, Open
<1>2. artifact' = artifact \/ (Destroy /\ out' = out)
  <2>1. CASE Write
    <3>1. Destroy => out' = out
      BY <2>1, WriteDirections, Destroyed, Zenon
    <3> QED
      BY <2>1, <3>1, Zenon DEF Write
  <2>2. CASE Begin
    BY <2>2, Zenon DEF Begin, dataVars
  <2>3. CASE Read
    BY <2>3, Zenon DEF Read
  <2>4. CASE Finish
    BY <2>4, Zenon DEF Finish, dataVars
  <2> QED
    BY <2>1, <2>2, <2>3, <2>4, Zenon DEF Next, Remote, Clock, Loop, Wait, Maintain
<1>3. CASE artifact' = artifact
  BY <1>1, <1>3, EmptyArtifact, Zenon DEF WrittenOnce
<1>4. CASE Destroy /\ out' = out
  <2>1. ArtifactHoldsNextBytes'
    BY <1>1, <1>4, DestroyedArtifact, Zenon
  <2>2. WrittenOnce'
    BY <1>4, Destroyed, Zenon DEF WrittenOnce, Open
  <2> QED
    BY <2>1, <2>2
<1> QED
  BY <1>2, <1>3, <1>4

-----------------------------------------------------------------------------
(* Theorems                                                                *)

\* Inv holds in every reachable state: types, the stream each direction
\* carries, the shape of a batch, the rule that an ended side is not read, the
\* order of half-closing, and what the artifact holds.
THEOREM Invariance == Spec => []Inv
<1>1. Init => Inv
  <2> SUFFICES ASSUME Init PROVE Inv
    OBVIOUS
  <2>1. DataInv
    BY InitData
  <2>2. EofStopsReading /\ DrainedBeforeShutdown
    BY DEF Init, EofStopsReading, DrainedBeforeShutdown, Other, Sides
  <2>3. WrittenOnce /\ ArtifactHoldsNextBytes
    <3>1. artifact = <<<<>>, <<>>>>
      BY DEF Init
    <3>2. Len(artifact[1]) = 0 /\ Len(artifact[2]) = 0
      BY <3>1
    <3>3. \A s \in Sides : \A i \in 1 .. Len(artifact[s + 1]) : FALSE
      BY <3>2 DEF Sides
    <3> QED
      BY <3>1, <3>2, <3>3, RelayAssumption DEF WrittenOnce, ArtifactHoldsNextBytes
  <2> QED
    BY <2>1, <2>2, <2>3 DEF Inv
<1>2. Inv /\ [Next]_vars => Inv'
  <2> SUFFICES ASSUME Inv, [Next]_vars PROVE Inv'
    OBVIOUS
  <2>1. DataInv'
    BY NextData DEF Inv
  <2>2. CASE Loop
    BY <2>1, <2>2, LoopEof, LoopDrained, NextArtifact, Zenon DEF Inv, Next
  <2>3. CASE Remote \/ Clock
    <3>1. UNCHANGED <<buf, eof, shut, interest, pc, batch>>
      BY <2>3, Zenon DEF Remote, Clock, dataVars, peerVars, loopVars
    <3>2. EofStopsReading'
      BY <3>1, EofKept, Zenon DEF Inv
    <3>3. DrainedBeforeShutdown'
      BY <3>1, Zenon DEF Inv, DrainedBeforeShutdown, Size
    <3> QED
      BY <2>1, <2>3, <3>2, <3>3, NextArtifact, Zenon DEF Inv, Next
  <2>4. CASE UNCHANGED vars
    <3>1. UNCHANGED <<buf, out, eof, shut, interest, pc, batch, artifact>>
      BY <2>4, Zenon DEF vars, dataVars, peerVars, loopVars
    <3>2. EofStopsReading'
      BY <3>1, EofKept, Zenon DEF Inv
    <3>3. DrainedBeforeShutdown' /\ WrittenOnce' /\ ArtifactHoldsNextBytes'
      BY <3>1, Zenon DEF Inv, DrainedBeforeShutdown, Size, WrittenOnce, Open, ArtifactHoldsNextBytes
    <3> QED
      BY <2>1, <3>2, <3>3 DEF Inv
  <2> QED
    BY <2>2, <2>3, <2>4 DEF Next
<1> QED
  BY <1>1, <1>2, PTL DEF Spec

\* Every field keeps its type, and no buffer or socket is overfilled.
THEOREM TypeCorrectness == Spec => []TypeOK
<1>1. Inv => TypeOK
  BY DEF Inv, DataInv
<1> QED
  BY <1>1, Invariance, PTL

\* The bytes sent on are a prefix of those sent, and the buffer holds the rest
\* of those received, through compaction, partial sends and resets.
THEOREM RelayStaysIntact == Spec => []RelayIntact
<1>1. Inv => RelayIntact
  BY DEF Inv, DataInv
<1> QED
  BY <1>1, Invariance, PTL

\* An end of stream is passed on behind every byte received before it, and no
\* byte is received after it was passed on.
THEOREM ShutdownAfterDrain == Spec => []DrainedBeforeShutdown
<1>1. Inv => DrainedBeforeShutdown
  BY DEF Inv
<1> QED
  BY <1>1, Invariance, PTL

\* The artifact of a destroyed session holds the bytes that would have gone
\* next in either direction, and fits one buffer.
THEOREM ArtifactsHoldNextBytes == Spec => []ArtifactHoldsNextBytes
<1>1. Inv => ArtifactHoldsNextBytes
  BY DEF Inv
<1> QED
  BY <1>1, Invariance, PTL

=============================================================================
