--------------------------- MODULE HostTools_proofs ---------------------------
(***************************************************************************)
(* Proofs about the host programs, for any tasks, files and data: what the *)
(* exit status of the client says, that a pass of the sampler is honest    *)
(* and how its scores are ordered, that packed streams unpack and that the *)
(* transforms of a string lose none of it.                                 *)
(***************************************************************************)
EXTENDS CausticReports, DeltaTransforms, FiniteSetTheorems, SequenceTheorems, WellFoundedInduction, TLAPS

-----------------------------------------------------------------------------
(* The client of the task service.                                         *)

\* What the client makes of an answer holds of the task for ever, because a
\* task that has ended does not change any more.
RunwayInv ==
  /\ RunwayTellsOutcome
  /\ Runway("polled") /\ mem.answer \in Terminal => world[mem.id] = mem.answer

LEMMA RunwayInitInv == RunwayInit => RunwayInv
<1> SUFFICES ASSUME RunwayInit PROVE RunwayInv
  OBVIOUS
<1>1. RunwayTypeOK
  BY DEF RunwayInit, RunwayTypeOK, Statuses, NoTask
<1> QED
  BY <1>1 DEF RunwayInit, RunwayInv, RunwayTellsOutcome, Runway, At

\* What a step of the client leaves is as its fields say.
LEMMA RunwayFields ==
  ASSUME RunwayTypeOK', program' = "runway",
         pc' = "polled" /\ mem'.answer \in Terminal => world'[mem'.id] = mem'.answer,
         pc' = "exited" =>
           \/ mem'.why # "status" /\ mem'.code = 1
           \/ mem'.code = 0 /\ world'[mem'.id] = "SUCCEEDED"
           \/ mem'.code = 1 /\ world'[mem'.id] \in {"FAILED", "CANCELED"}
  PROVE  RunwayInv'
BY DEF RunwayInv, RunwayTellsOutcome, Runway, At, Terminal

\* A step of the client, with its answer and its end.
LEMMA RunwayStepInv ==
  ASSUME RunwayInv, RunwayStep
  PROVE  RunwayInv'
<1>0. program = "runway" /\ program' = program
  BY DEF RunwayStep, ParseArgs, SubmitTask, Poll, HandleAnswer, Polled, Exits, Becomes, Runway, At
<1>1. RunwayTypeOK
  BY DEF RunwayInv, RunwayTellsOutcome
<1> DEFINE Mem == [id : Tasks \union {NoTask}, code : 0..1,
                   answer : Statuses \union {NoTask, "http_error", "unparsed"},
                   why : {"running", "arguments", "submit", "curl", "status"}]
<1>2. mem \in Mem /\ world \in [Tasks -> Statuses \union {NoTask}]
  BY <1>0, <1>1 DEF RunwayTypeOK
<1>3. \A code \in 0..1, why \in {"arguments", "submit", "curl", "status"} :
        mem' = [mem EXCEPT !.code = code, !.why = why] =>
          mem' \in Mem /\ mem'.code = code /\ mem'.why = why /\ mem'.id = mem.id
  BY <1>2
<1>4. CASE ParseArgs
  <2>1. CASE Exits(1, "arguments")
    BY <1>0, <1>2, <1>3, <2>1, RunwayFields DEF RunwayTypeOK, Exits, Becomes
  <2>2. CASE Becomes("submit", mem)
    BY <1>0, <1>2, <2>2, RunwayFields DEF RunwayTypeOK, Becomes
  <2>3. ASSUME NEW id \in Tasks, Becomes("poll", [mem EXCEPT !.id = id])
        PROVE  RunwayInv'
    BY <1>0, <1>2, <2>3, RunwayFields DEF RunwayTypeOK, Becomes
  <2> QED
    BY <1>4, <2>1, <2>2, <2>3 DEF ParseArgs
<1>5. CASE SubmitTask
  <2>1. world' \in [Tasks -> Statuses \union {NoTask}]
    BY <1>2, <1>5 DEF SubmitTask, Submitted, Statuses
  <2>2. CASE mem' = [mem EXCEPT !.code = 1, !.why = "submit"] /\ pc' = "exited"
    BY <1>0, <1>3, <2>1, <2>2, RunwayFields DEF RunwayTypeOK
  <2>3. ASSUME NEW id \in Tasks, mem' = [mem EXCEPT !.id = id], pc' = "poll"
        PROVE  RunwayInv'
    <3>1. mem' \in Mem /\ mem'.id \in Tasks
      BY <1>2, <2>3
    <3> QED
      BY <1>0, <2>1, <2>3, <3>1, RunwayFields DEF RunwayTypeOK
  <2> QED
    BY <1>5, <2>2, <2>3 DEF SubmitTask, Submitted
<1>6. CASE Poll
  <2>0. mem.id \in Tasks
    BY <1>0, <1>1, <1>6 DEF Poll, Runway, At, RunwayTypeOK
  <2>1. CASE Exits(1, "curl")
    BY <1>0, <1>2, <1>3, <2>1, RunwayFields DEF RunwayTypeOK, Exits, Becomes
  <2>2. ASSUME NEW answer \in {world[mem.id], "http_error", "unparsed"},
               Becomes("polled", [mem EXCEPT !.answer = answer])
        PROVE  RunwayInv'
    <3>1. answer \in Statuses \union {NoTask, "http_error", "unparsed"}
      BY <1>2, <2>0
    <3>2. /\ mem' \in Mem /\ mem'.answer = answer /\ mem'.id = mem.id
          /\ pc' = "polled" /\ UNCHANGED world
      BY <1>2, <2>2, <3>1 DEF Becomes
    <3>3. answer \in Terminal => world[mem.id] = answer
      BY <2>2 DEF Terminal
    <3> QED
      BY <1>0, <1>2, <2>0, <3>2, <3>3, RunwayFields DEF RunwayTypeOK
  <2> QED
    BY <1>6, <2>1, <2>2 DEF Poll
<1>7. CASE HandleAnswer
  <2>0. mem.id \in Tasks /\ (mem.answer \in Terminal => world[mem.id] = mem.answer)
    BY <1>0, <1>1, <1>7 DEF HandleAnswer, Runway, At, RunwayTypeOK, RunwayInv
  <2>1. CASE mem.answer = "SUCCEEDED" /\ Exits(0, "status")
    BY <1>0, <1>2, <1>3, <2>0, <2>1, RunwayFields DEF RunwayTypeOK, Terminal, Exits, Becomes
  <2>2. CASE mem.answer \in {"FAILED", "CANCELED"} /\ Exits(1, "status")
    BY <1>0, <1>2, <1>3, <2>0, <2>2, RunwayFields DEF RunwayTypeOK, Terminal, Exits, Becomes
  <2>3. CASE Becomes("poll", [mem EXCEPT !.answer = NoTask])
    <3>1. mem' \in Mem /\ mem'.id = mem.id /\ pc' = "poll" /\ UNCHANGED world
      BY <1>2, <2>3 DEF Becomes
    <3> QED
      BY <1>0, <1>2, <2>0, <3>1, RunwayFields DEF RunwayTypeOK
  <2> QED
    BY <1>7, <2>1, <2>2, <2>3 DEF HandleAnswer, Polled, Terminal
<1> QED
  BY <1>4, <1>5, <1>6, <1>7 DEF RunwayStep

\* The service goes on with tasks that have not ended.
LEMMA ProgressInv ==
  ASSUME RunwayInv, Progress
  PROVE  RunwayInv'
<1>1. program = "runway" /\ UNCHANGED <<program, pc, mem>> /\ RunwayTypeOK
  BY DEF Progress, Meanwhile, RunwayInv, RunwayTellsOutcome
<1>2. PICK id \in Tasks, s \in Statuses \ {"PENDING"} :
        world[id] \in {"PENDING", "RUNNING"} /\ world' = [world EXCEPT ![id] = s]
  BY DEF Progress, Meanwhile
<1>3. RunwayTypeOK'
  BY <1>1, <1>2 DEF RunwayTypeOK
<1>4. \A t : world[t] \in Terminal => world'[t] = world[t]
  BY <1>1, <1>2 DEF RunwayTypeOK, Terminal
<1> QED
  BY <1>1, <1>3, <1>4 DEF RunwayInv, RunwayTellsOutcome, Runway, At, Terminal

-----------------------------------------------------------------------------
(* The sampler.                                                            *)

\* Tables over the names, to values or to the texts a report shows of them.
Tables(V) == UNION {[names -> V] : names \in SUBSET AttrNames}

LEMMA TablesAre ==
  ASSUME NEW V
  PROVE  \A f : f \in Tables(V) <=> DOMAIN f \subseteq AttrNames /\ f \in [DOMAIN f -> V]
<1> SUFFICES ASSUME NEW f
             PROVE  f \in Tables(V) <=> DOMAIN f \subseteq AttrNames /\ f \in [DOMAIN f -> V]
  OBVIOUS
<1>1. ASSUME f \in Tables(V)
      PROVE  DOMAIN f \subseteq AttrNames /\ f \in [DOMAIN f -> V]
  <2>1. PICK names \in SUBSET AttrNames : f \in [names -> V]
    BY <1>1 DEF Tables
  <2> QED
    BY <2>1
<1>2. ASSUME DOMAIN f \subseteq AttrNames, f \in [DOMAIN f -> V]
      PROVE  f \in Tables(V)
  BY <1>2 DEF Tables
<1> QED
  BY <1>1, <1>2

\* A table without names is the empty one.
LEMMA NoEntries ==
  ASSUME NEW V
  PROVE  <<>> \in Tables(V) /\ DOMAIN <<>> = {}
<1>1. DOMAIN <<>> = {} /\ <<>> = [x \in {} |-> x]
  OBVIOUS
<1>2. <<>> \in [{} -> V]
  BY <1>1
<1> QED
  BY <1>1, <1>2, TablesAre

\* Giving one name a value, and dropping one.
Gives(g, f, name, value, V) ==
  /\ g \in Tables(V) /\ DOMAIN g = DOMAIN f \union {name} /\ g[name] = value
  /\ \A n \in DOMAIN f \ {name} : g[n] = f[n]

LEMMA WithTable ==
  ASSUME NEW V, NEW f \in Tables(V), NEW name \in AttrNames, NEW value \in V
  PROVE  Gives(With(f, name, value), f, name, value, V)
<1> DEFINE g == With(f, name, value)
<1>1. DOMAIN f \subseteq AttrNames /\ f \in [DOMAIN f -> V]
  BY TablesAre
<1>2. /\ DOMAIN g = DOMAIN f \union {name} /\ g \in [DOMAIN g -> V]
      /\ g[name] = value /\ \A n \in DOMAIN f \ {name} : g[n] = f[n]
  BY <1>1 DEF With
<1> QED
  BY <1>1, <1>2, TablesAre DEF Gives

LEMMA RestrictTable ==
  ASSUME NEW V, NEW f \in Tables(V), NEW name \in AttrNames
  PROVE  /\ Restrict(f, DOMAIN f \ {name}) \in Tables(V)
         /\ DOMAIN Restrict(f, DOMAIN f \ {name}) = DOMAIN f \ {name}
         /\ \A n \in DOMAIN f \ {name} : Restrict(f, DOMAIN f \ {name})[n] = f[n]
<1> DEFINE g == [x \in DOMAIN f \ {name} |-> f[x]]
<1>1. DOMAIN f \subseteq AttrNames /\ f \in [DOMAIN f -> V]
  BY TablesAre
<1>2. DOMAIN g \subseteq AttrNames /\ g \in [DOMAIN g -> V] /\ DOMAIN g = DOMAIN f \ {name}
  BY <1>1
<1>3. \A n \in DOMAIN f \ {name} : g[n] = f[n]
  OBVIOUS
<1> QED
  BY <1>2, <1>3, TablesAre DEF Restrict

\* The types.
CausticMem ==
  [once : BOOLEAN, xattrs : BOOLEAN, size : FileSizes \union {NoFile}, count : Nat, room : Nat,
   todo : SUBSET AttrNames, next : AttrNames \union {NoName}, ok : BOOLEAN, listed : Tables(Nat)]
Files ==
  [size : FileSizes \union {NoFile}, attrs : Tables(Values), astray : SUBSET Questions,
   filled : BOOLEAN]

CausticTypeOK ==
  /\ pc \in {"pass", "countSize", "countNames", "listSize", "listNames", "valueSize", "value",
             "post", "exited", "undefined"}
  /\ mem \in CausticMem
  /\ world \in Files
  /\ pc = "value" => mem.next \in AttrNames

\* Where a pass has got to: whether it has listed names already.
PhaseInv ==
  /\ pc \in {"countSize", "countNames", "listSize", "listNames"} => ~mem.ok /\ mem.listed = <<>>
  /\ pc \in {"valueSize", "value"} => mem.ok

\* A buffer of no bytes was asked for only where there was nothing to read, and
\* that changes only when something is filled.
MemoryInv ==
  /\ pc = "undefined" => world.filled
  /\ ~world.filled =>
       /\ pc \in {"countNames", "listNames"} /\ mem.room = 0 => Listing = {}
       /\ pc = "value" /\ mem.room = 0 /\ mem.next \in Listing => world.attrs[mem.next].size = 0

StatInv == pc # "pass" /\ "stat" \notin world.astray => mem.size = world.size

\* As long as the names stay, the room is theirs, and so is their number.
ListInv == "list" \notin world.astray =>
  /\ pc \in {"countNames", "listNames"} => mem.room = Cardinality(Listing) /\ ~NoFileThere
  /\ pc \in {"valueSize", "value"} => ~NoFileThere
  /\ pc = "countSize" => mem.count = 0
  /\ pc \in {"listSize", "listNames", "valueSize", "value"} => mem.count = Cardinality(Listing)
  /\ pc = "post" /\ mem.xattrs => mem.count = Cardinality(Listing) /\ mem.ok = ~NoFileThere

\* An attribute nobody touched is listed, being read, or left to read, exactly
\* if the file has it; the room for its value is the value's size.
NameInv(n) ==
  /\ (pc \in {"valueSize", "value"} \/ (pc = "post" /\ mem.ok)) =>
       /\ n \in Listing <=> \/ n \in DOMAIN mem.listed
                            \/ (pc # "post" /\ n \in mem.todo)
                            \/ (pc = "value" /\ n = mem.next)
       /\ n \in DOMAIN mem.listed => mem.listed[n] = world.attrs[n].text
  /\ pc = "value" /\ n = mem.next => mem.room = world.attrs[n].size

CausticInv == program = "caustic" =>
  /\ CausticTypeOK
  /\ NoFileThere => Listing = {}
  /\ PhaseInv /\ MemoryInv /\ StatInv /\ ListInv
  /\ \A n \in AttrNames \ world.astray : NameInv(n)

\* A list has as many names as it has.
LEMMA ListingFinite ==
  ASSUME world.attrs \in Tables(Values)
  PROVE  /\ Cardinality(Listing) \in Nat /\ (Listing = {} <=> Cardinality(Listing) = 0)
         /\ Listing \subseteq AttrNames
         /\ \A n \in Listing : world.attrs[n].size \in Nat /\ world.attrs[n].text \in Nat
<1>1. Listing \subseteq AttrNames /\ world.attrs \in [Listing -> Values]
  BY TablesAre DEF Listing
<1>2. IsFiniteSet(Listing)
  BY <1>1, FS_Subset, AttrNamesAssumption
<1> QED
  BY <1>1, <1>2, FS_CardinalityType, FS_EmptySet, ValuesAssumption

LEMMA CausticInitInv == CausticInit => CausticInv
<1> SUFFICES ASSUME CausticInit PROVE CausticInv
  OBVIOUS
<1>1. mem \in CausticMem /\ world \in Files
  <2>1. world.attrs \in Tables(Values)
    BY DEF CausticInit, Attributes, Tables
  <2>2. <<>> \in Tables(Nat)
    BY NoEntries
  <2>3. mem \in CausticMem
    <3>1. mem \in [once : BOOLEAN, xattrs : BOOLEAN, size : {NoFile}, count : {0}, room : {0},
                   todo : {{}}, next : {NoName}, ok : {FALSE}, listed : {<<>>}]
      BY DEF CausticInit
    <3>2. mem = [once |-> mem.once, xattrs |-> mem.xattrs, size |-> NoFile, count |-> 0,
                 room |-> 0, todo |-> {}, next |-> NoName, ok |-> FALSE, listed |-> <<>>]
      BY <3>1
    <3>3. mem.once \in BOOLEAN /\ mem.xattrs \in BOOLEAN
      BY <3>1
    <3> DEFINE table == <<>>
    <3>4. table \in Tables(Nat)
      BY <2>2
    <3> HIDE DEF table
    <3>5. [once |-> mem.once, xattrs |-> mem.xattrs, size |-> NoFile, count |-> 0, room |-> 0,
           todo |-> {}, next |-> NoName, ok |-> FALSE, listed |-> table] \in CausticMem
      BY <3>3, <3>4 DEF CausticMem
    <3> QED
      BY <3>2, <3>5 DEF table
  <2> QED
    BY <2>1, <2>3 DEF CausticInit, Files
<1>2. ~NoFileThere
  BY FileAssumption DEF CausticInit, NoFileThere, NoFile
<1> QED
  BY <1>1, <1>2
     DEF CausticInit, CausticInv, CausticTypeOK, PhaseInv, MemoryInv, StatInv, ListInv, NameInv

LEMMA BeginPassInv ==
  ASSUME CausticInv, BeginPass
  PROVE  CausticInv'
<1>0. /\ program = "caustic" /\ program' = program /\ CausticTypeOK
      /\ pc' = IF mem.xattrs THEN "countSize" ELSE "post"
      /\ NoFileThere => Listing = {}
  BY DEF BeginPass, Caustic, At, CausticInv
<1>1. PICK refused \in BOOLEAN :
        /\ mem' = [mem EXCEPT !.size = IF refused THEN NoFile ELSE world.size,
                              !.count = 0, !.room = 0, !.ok = FALSE, !.listed = <<>>]
        /\ world' = [world EXCEPT !.astray = IF refused THEN {"stat"} ELSE {}, !.filled = FALSE]
  BY DEF BeginPass
<1>2. /\ mem' \in CausticMem /\ mem'.xattrs = mem.xattrs /\ mem'.count = 0 /\ mem'.ok = FALSE
      /\ mem'.listed = <<>> /\ mem'.size = IF refused THEN NoFile ELSE world.size
  BY <1>0, <1>1, NoEntries DEF CausticTypeOK, CausticMem, Files
<1>3. /\ world' \in Files /\ world'.size = world.size /\ world'.attrs = world.attrs
      /\ world'.astray = IF refused THEN {"stat"} ELSE {}
  BY <1>0, <1>1 DEF CausticTypeOK, Files, Questions
<1>4. UNCHANGED <<Listing, NoFileThere>>
  BY <1>3 DEF Listing, NoFileThere
<1>5. CausticTypeOK' /\ PhaseInv' /\ MemoryInv' /\ StatInv'
  BY <1>0, <1>2, <1>3 DEF CausticTypeOK, PhaseInv, MemoryInv, StatInv
<1>6. ListInv' /\ \A n \in AttrNames \ world'.astray : NameInv(n)'
  BY <1>0, <1>2 DEF ListInv, NameInv
<1> QED
  BY <1>0, <1>4, <1>5, <1>6 DEF CausticInv

\* A step of a pass leaves the file as it is; at most a refusal is noted.
Noted(question) ==
  /\ world' \in Files /\ world'.size = world.size /\ world'.attrs = world.attrs
  /\ world'.filled = world.filled /\ world'.astray = world.astray \union {question}
Going ==
  /\ program = "caustic" /\ program' = program /\ CausticTypeOK /\ CausticTypeOK'
  /\ UNCHANGED world \/ \E question \in Questions : Noted(question)

LEMMA PassKeepsFile ==
  ASSUME Going
  PROVE  /\ world'.attrs = world.attrs /\ world'.size = world.size
         /\ UNCHANGED <<Listing, NoFileThere>> /\ world'.filled = world.filled
         /\ world.astray \subseteq world'.astray
BY DEF Going, Noted, Listing, NoFileThere

\* What is left to show of a step of a pass.
LEMMA PassFields ==
  ASSUME CausticInv, Going, PhaseInv', MemoryInv', StatInv', ListInv',
         \A n \in AttrNames \ world'.astray : NameInv(n)'
  PROVE  CausticInv'
BY PassKeepsFile DEF CausticInv, Going

LEMMA RefusedFields ==
  ASSUME NEW question \in Questions, NEW label \in {"listSize", "post", "valueSize"},
         NEW m \in CausticMem, Refused(question, label, m), program = "caustic", CausticTypeOK
  PROVE  /\ Going /\ pc' = label /\ mem' = m /\ question \in world'.astray
BY DEF Refused, Going, Noted, CausticTypeOK, Files

LEMMA CountInv ==
  ASSUME CausticInv, CountSize \/ CountNames
  PROVE  CausticInv'
<1> DEFINE N == Cardinality(Listing)
<1>0. /\ program = "caustic" /\ CausticTypeOK /\ pc \in {"countSize", "countNames"}
      /\ NoFileThere => Listing = {}
      /\ PhaseInv /\ MemoryInv /\ StatInv /\ ListInv
  BY DEF CountSize, CountNames, Caustic, At, CausticInv
<1>1. N \in Nat /\ (Listing = {} <=> N = 0) /\ mem \in CausticMem
  BY <1>0, ListingFinite DEF CausticTypeOK, Files
<1>2. ASSUME NEW m \in CausticMem, NEW label \in {"listSize", "countNames", "undefined"},
             Becomes(label, m), m.size = mem.size, m.ok = mem.ok, m.listed = mem.listed,
             label = "undefined" => world.filled,
             label = "countNames" => m.room = N /\ ~NoFileThere,
             label = "listSize" /\ "list" \notin world.astray => m.count = N
      PROVE  CausticInv'
  <2>1. Going /\ pc' = label /\ mem' = m /\ UNCHANGED world
    BY <1>0, <1>2 DEF Becomes, Going, CausticTypeOK
  <2>2. UNCHANGED <<Listing, NoFileThere>>
    BY <2>1, PassKeepsFile
  <2>3. PhaseInv' /\ StatInv'
    BY <1>0, <1>2, <2>1 DEF PhaseInv, StatInv
  <2>4. MemoryInv'
    BY <1>0, <1>1, <1>2, <2>1, <2>2 DEF MemoryInv
  <2>5. ListInv'
    BY <1>0, <1>2, <2>1, <2>2 DEF ListInv
  <2>6. \A n \in AttrNames \ world'.astray : NameInv(n)'
    BY <1>2, <2>1 DEF NameInv
  <2> QED
    BY <2>1, <2>3, <2>4, <2>5, <2>6, PassFields
<1>3. ASSUME Refused("list", "listSize", mem) PROVE CausticInv'
  <2>1. Going /\ pc' = "listSize" /\ mem' = mem /\ "list" \in world'.astray
    BY <1>0, <1>1, <1>3, RefusedFields DEF Questions
  <2>2. PhaseInv' /\ MemoryInv' /\ StatInv'
    BY <1>0, <2>1, PassKeepsFile DEF PhaseInv, MemoryInv, StatInv
  <2> QED
    BY <2>1, <2>2, PassFields DEF ListInv, NameInv
<1>4. CASE CountSize
  <2>1. CASE Becomes("listSize", mem) /\ NoFileThere
    <3>1. pc = "countSize"
      BY <1>4 DEF CountSize, Caustic, At
    <3> QED
      BY <1>0, <1>1, <1>2, <2>1, <3>1 DEF ListInv
  <2>2. CASE Becomes("countNames", [mem EXCEPT !.room = N]) /\ ~NoFileThere
    <3> DEFINE m == [mem EXCEPT !.room = N]
    <3>1. /\ m \in CausticMem /\ m.size = mem.size /\ m.ok = mem.ok /\ m.listed = mem.listed
          /\ m.room = N
      BY <1>1 DEF CausticMem
    <3> HIDE DEF m, N
    <3> QED
      BY <1>2, <2>2, <3>1 DEF m
  <2> QED
    BY <1>3, <1>4, <2>1, <2>2 DEF CountSize
<1>5. CASE CountNames
  <2>0. pc = "countNames"
    BY <1>5 DEF CountNames, Caustic, At
  <2>1. /\ "list" \notin world.astray => Outcome(N) = "read"
        /\ Outcome(N) = "outside" => world.filled
    BY <1>0, <1>1, <2>0 DEF Outcome, ListInv, MemoryInv, CausticMem
  <2>2. CASE Becomes("listSize", mem) /\ Outcome(N) = "failed"
    BY <1>1, <1>2, <2>1, <2>2
  <2>3. CASE Becomes("undefined", mem) /\ Outcome(N) = "outside"
    BY <1>1, <1>2, <2>1, <2>3
  <2>4. CASE Becomes("listSize", [mem EXCEPT !.count = N])
    <3> DEFINE m == [mem EXCEPT !.count = N]
    <3>1. /\ m \in CausticMem /\ m.size = mem.size /\ m.ok = mem.ok /\ m.listed = mem.listed
          /\ m.count = N
      BY <1>1 DEF CausticMem
    <3> HIDE DEF m, N
    <3> QED
      BY <1>2, <2>4, <3>1 DEF m
  <2> QED
    BY <1>3, <1>5, <2>2, <2>3, <2>4 DEF CountNames
<1> QED
  BY <1>4, <1>5

LEMMA ListingInv ==
  ASSUME CausticInv, ListSize \/ ListNames
  PROVE  CausticInv'
<1> DEFINE N == Cardinality(Listing)
<1>0. /\ program = "caustic" /\ CausticTypeOK /\ pc \in {"listSize", "listNames"}
      /\ NoFileThere => Listing = {}
      /\ PhaseInv /\ MemoryInv /\ StatInv /\ ListInv
  BY DEF ListSize, ListNames, Caustic, At, CausticInv
<1>1. N \in Nat /\ (Listing = {} <=> N = 0) /\ mem \in CausticMem /\ Listing \subseteq AttrNames
  BY <1>0, ListingFinite DEF CausticTypeOK, Files
<1>2. ASSUME NEW m \in CausticMem,
             NEW label \in {"listNames", "valueSize", "post", "undefined"},
             Becomes(label, m), m.size = mem.size, m.listed = mem.listed, m.count = mem.count,
             m.ok = (label = "valueSize"),
             label = "undefined" => world.filled,
             label = "listNames" => m.room = N /\ ~NoFileThere,
             label = "post" /\ "list" \notin world.astray => NoFileThere,
             label = "valueSize" => m.todo = Listing /\ ~NoFileThere
      PROVE  CausticInv'
  <2>1. Going /\ pc' = label /\ mem' = m /\ UNCHANGED world
    BY <1>0, <1>2 DEF Becomes, Going, CausticTypeOK
  <2>2. UNCHANGED <<Listing, NoFileThere>> /\ DOMAIN m.listed = {}
    BY <1>0, <1>2, <2>1, PassKeepsFile, NoEntries DEF PhaseInv
  <2>3. PhaseInv' /\ StatInv'
    BY <1>0, <1>2, <2>1 DEF PhaseInv, StatInv
  <2>4. MemoryInv'
    BY <1>0, <1>1, <1>2, <2>1, <2>2 DEF MemoryInv
  <2>5. ListInv'
    BY <1>0, <1>2, <2>1, <2>2 DEF ListInv
  <2>6. \A n \in AttrNames \ world'.astray : NameInv(n)'
    BY <1>2, <2>1, <2>2 DEF NameInv
  <2> QED
    BY <2>1, <2>3, <2>4, <2>5, <2>6, PassFields
<1>3. ASSUME Refused("list", "post", mem) PROVE CausticInv'
  <2>1. Going /\ pc' = "post" /\ mem' = mem /\ "list" \in world'.astray
    BY <1>0, <1>1, <1>3, RefusedFields DEF Questions
  <2>2. PhaseInv' /\ MemoryInv' /\ StatInv'
    BY <1>0, <2>1, PassKeepsFile DEF PhaseInv, MemoryInv, StatInv
  <2>3. ~mem.ok
    BY <1>0 DEF PhaseInv
  <2> QED
    BY <2>1, <2>2, <2>3, PassFields DEF ListInv, NameInv
<1>4. mem.ok = FALSE
  BY <1>0, <1>1 DEF PhaseInv, CausticMem
<1>5. CASE ListSize
  <2>1. CASE Becomes("post", mem) /\ NoFileThere
    BY <1>1, <1>2, <1>4, <2>1
  <2>2. CASE Becomes("listNames", [mem EXCEPT !.room = N]) /\ ~NoFileThere
    <3> DEFINE m == [mem EXCEPT !.room = N]
    <3>1. /\ m \in CausticMem /\ m.size = mem.size /\ m.ok = mem.ok /\ m.listed = mem.listed
          /\ m.room = N /\ m.count = mem.count
      BY <1>1 DEF CausticMem
    <3> HIDE DEF m, N
    <3> QED
      BY <1>2, <1>4, <2>2, <3>1 DEF m
  <2> QED
    BY <1>3, <1>5, <2>1, <2>2 DEF ListSize
<1>6. CASE ListNames
  <2>0. pc = "listNames"
    BY <1>6 DEF ListNames, Caustic, At
  <2>1. /\ "list" \notin world.astray => Outcome(N) = "read"
        /\ Outcome(N) = "outside" => world.filled
        /\ Outcome(N) = "read" => ~NoFileThere
    BY <1>0, <1>1, <2>0 DEF Outcome, ListInv, MemoryInv, CausticMem
  <2>2. CASE Becomes("post", mem) /\ Outcome(N) = "failed"
    BY <1>1, <1>2, <1>4, <2>1, <2>2
  <2>3. CASE Becomes("undefined", mem) /\ Outcome(N) = "outside"
    BY <1>1, <1>2, <1>4, <2>1, <2>3
  <2>4. CASE Becomes("valueSize", [mem EXCEPT !.todo = Listing, !.ok = TRUE]) /\ Outcome(N) = "read"
    <3> DEFINE m == [mem EXCEPT !.todo = Listing, !.ok = TRUE]
    <3>1. /\ m \in CausticMem /\ m.size = mem.size /\ m.ok = TRUE /\ m.listed = mem.listed
          /\ m.todo = Listing /\ m.count = mem.count
      BY <1>1 DEF CausticMem
    <3> HIDE DEF m, N
    <3> QED
      BY <1>2, <2>1, <2>4, <3>1 DEF m
  <2> QED
    BY <1>3, <1>6, <2>2, <2>3, <2>4 DEF ListNames
<1> QED
  BY <1>5, <1>6

LEMMA ValueSizeInv ==
  ASSUME CausticInv, ValueSize
  PROVE  CausticInv'
<1>0. /\ program = "caustic" /\ CausticTypeOK /\ pc = "valueSize" /\ mem \in CausticMem
      /\ NoFileThere => Listing = {}
      /\ PhaseInv /\ StatInv /\ ListInv /\ \A n \in AttrNames \ world.astray : NameInv(n)
  BY DEF ValueSize, Caustic, At, CausticInv, CausticTypeOK
<1>1. \A n \in Listing : n \in AttrNames /\ world.attrs[n].size \in Nat
  BY <1>0, ListingFinite DEF CausticTypeOK, Files
<1>2. ASSUME mem.todo = {}, Becomes("post", [mem EXCEPT !.next = NoName])
      PROVE  CausticInv'
  <2> DEFINE m == [mem EXCEPT !.next = NoName]
  <2>1. /\ m \in CausticMem /\ m.size = mem.size /\ m.ok = mem.ok /\ m.listed = mem.listed
        /\ m.count = mem.count /\ m.xattrs = mem.xattrs
    BY <1>0 DEF CausticMem
  <2> HIDE DEF m
  <2>2. Going /\ pc' = "post" /\ mem' = m /\ UNCHANGED world
    BY <1>0, <1>2, <2>1 DEF Becomes, Going, CausticTypeOK, m
  <2>3. UNCHANGED <<Listing, NoFileThere>>
    BY <2>2, PassKeepsFile
  <2>4. PhaseInv' /\ MemoryInv' /\ StatInv'
    BY <1>0, <2>1, <2>2 DEF PhaseInv, MemoryInv, StatInv
  <2>5. ListInv'
    BY <1>0, <2>1, <2>2, <2>3 DEF ListInv, PhaseInv, CausticMem
  <2>6. ASSUME NEW n \in AttrNames \ world'.astray PROVE NameInv(n)'
    <3>1. NameInv(n)
      BY <1>0, <2>2
    <3> QED
      BY <1>0, <1>2, <2>1, <2>2, <2>3, <3>1 DEF NameInv
  <2> QED
    BY <2>2, <2>4, <2>5, <2>6, PassFields
<1>3. ASSUME NEW name \in mem.todo,
             \/ name \notin Listing /\ Becomes("valueSize", [mem EXCEPT !.todo = @ \ {name}])
             \/ Refused(name, "valueSize", [mem EXCEPT !.todo = @ \ {name}])
      PROVE  CausticInv'
  <2> DEFINE m == [mem EXCEPT !.todo = @ \ {name}]
  <2>1. /\ m \in CausticMem /\ m.size = mem.size /\ m.ok = mem.ok /\ m.listed = mem.listed
        /\ m.count = mem.count /\ m.xattrs = mem.xattrs /\ m.todo = mem.todo \ {name}
        /\ name \in Questions
    BY <1>0 DEF CausticMem, Questions
  <2> HIDE DEF m
  <2>2. Going /\ pc' = "valueSize" /\ mem' = m /\ (name \notin Listing \/ name \in world'.astray)
    <3>1. CASE name \notin Listing /\ Becomes("valueSize", m)
      BY <1>0, <2>1, <3>1 DEF Becomes, Going, CausticTypeOK
    <3>2. CASE Refused(name, "valueSize", m)
      BY <1>0, <2>1, <3>2, RefusedFields
    <3> QED
      BY <1>3, <3>1, <3>2 DEF m
  <2>4. PhaseInv' /\ MemoryInv' /\ StatInv' /\ ListInv'
    BY <1>0, <2>1, <2>2, PassKeepsFile DEF PhaseInv, MemoryInv, StatInv, ListInv
  <2>5. ASSUME NEW n \in AttrNames \ world'.astray PROVE NameInv(n)'
    <3>1. NameInv(n) /\ n \in AttrNames
      BY <1>0, <2>2, <2>5, PassKeepsFile
    <3>2. n # name
      BY <1>0, <2>2, <2>5, <3>1 DEF NameInv
    <3> QED
      BY <1>0, <2>1, <2>2, <3>1, <3>2, PassKeepsFile DEF NameInv
  <2> QED
    BY <2>2, <2>4, <2>5, PassFields
<1>4. ASSUME NEW name \in mem.todo, name \in Listing,
             Becomes("value", [mem EXCEPT !.todo = @ \ {name},
                                          !.room = world.attrs[name].size, !.next = name])
      PROVE  CausticInv'
  <2> DEFINE m == [mem EXCEPT !.todo = @ \ {name}, !.room = world.attrs[name].size, !.next = name]
  <2>1. /\ m \in CausticMem /\ m.size = mem.size /\ m.ok = mem.ok /\ m.listed = mem.listed
        /\ m.count = mem.count /\ m.xattrs = mem.xattrs /\ m.todo = mem.todo \ {name}
        /\ m.room = world.attrs[name].size /\ m.next = name
    BY <1>0, <1>1, <1>4 DEF CausticMem
  <2> HIDE DEF m
  <2>2. Going /\ pc' = "value" /\ mem' = m /\ UNCHANGED world
    BY <1>0, <1>1, <1>4, <2>1 DEF Becomes, Going, CausticTypeOK, m
  <2>3. UNCHANGED <<Listing, NoFileThere>>
    BY <2>2, PassKeepsFile
  <2>4. PhaseInv' /\ MemoryInv' /\ StatInv' /\ ListInv'
    BY <1>0, <2>1, <2>2, <2>3 DEF PhaseInv, MemoryInv, StatInv, ListInv
  <2>5. ASSUME NEW n \in AttrNames \ world'.astray PROVE NameInv(n)'
    <3>1. NameInv(n)
      BY <1>0, <2>2
    <3> QED
      BY <1>0, <1>4, <2>1, <2>2, <2>3, <3>1 DEF NameInv
  <2> QED
    BY <2>2, <2>4, <2>5, PassFields
<1> QED
  BY <1>2, <1>3, <1>4 DEF ValueSize

LEMMA ValueInv ==
  ASSUME CausticInv, Value
  PROVE  CausticInv'
<1> DEFINE name == mem.next
<1>0. /\ program = "caustic" /\ CausticTypeOK /\ pc = "value" /\ mem \in CausticMem
      /\ (NoFileThere => Listing = {}) /\ name \in AttrNames
      /\ PhaseInv /\ MemoryInv /\ StatInv /\ ListInv
      /\ \A n \in AttrNames \ world.astray : NameInv(n)
  BY DEF Value, Caustic, At, CausticInv, CausticTypeOK
<1>1. \A n \in Listing : n \in AttrNames /\ world.attrs[n].size \in Nat /\ world.attrs[n].text \in Nat
  BY <1>0, ListingFinite DEF CausticTypeOK, Files
<1>2. /\ name \notin world.astray => ValueOutcome(name) = "read"
      /\ ValueOutcome(name) = "outside" => world.filled
      /\ ValueOutcome(name) = "read" => name \in Listing
  <2>1. ASSUME name \notin world.astray PROVE ValueOutcome(name) = "read"
    <3>1. name \in Listing /\ mem.room = world.attrs[name].size /\ ~NoFileThere
      <4>1. NameInv(name)
        BY <1>0, <2>1
      <4> QED
        BY <1>0, <2>1, <4>1 DEF NameInv
    <3> QED
      BY <1>1, <3>1 DEF ValueOutcome, Outcome
  <2>2. ASSUME ValueOutcome(name) = "outside" PROVE world.filled
    <3>1. name \in Listing /\ mem.room = 0 /\ world.attrs[name].size > 0
      BY <2>2 DEF ValueOutcome, Outcome
    <3> QED
      BY <1>0, <3>1 DEF MemoryInv
  <2> QED
    BY <2>1, <2>2 DEF ValueOutcome
<1> DEFINE after == [mem EXCEPT !.room = 0, !.next = NoName]
<1>a. /\ after \in CausticMem /\ after.size = mem.size /\ after.ok = mem.ok
      /\ after.listed = mem.listed /\ after.count = mem.count /\ after.xattrs = mem.xattrs
      /\ after.todo = mem.todo
  BY <1>0 DEF CausticMem
<1>3. ASSUME Going, mem' = after, pc' = "valueSize", name \in world'.astray
      PROVE  CausticInv'
  <2> HIDE DEF after
  <2>1. PhaseInv' /\ MemoryInv' /\ StatInv' /\ ListInv'
    BY <1>0, <1>a, <1>3, PassKeepsFile DEF PhaseInv, MemoryInv, StatInv, ListInv
  <2>2. ASSUME NEW n \in AttrNames \ world'.astray PROVE NameInv(n)'
    <3>1. NameInv(n) /\ n # name
      BY <1>0, <1>3, <2>2, PassKeepsFile
    <3> QED
      BY <1>0, <1>a, <1>3, <3>1, PassKeepsFile DEF NameInv
  <2> QED
    BY <1>3, <2>1, <2>2, PassFields
<1>4. CASE ValueOutcome(name) = "failed" /\ Becomes("valueSize", after)
  <2>1. Going /\ mem' = after /\ pc' = "valueSize" /\ world' = world
    BY <1>0, <1>a, <1>4 DEF Becomes, Going, CausticTypeOK
  <2> QED
    BY <1>2, <1>3, <1>4, <2>1
<1>5. CASE Refused(name, "valueSize", after)
  <2>1. Going /\ mem' = after /\ pc' = "valueSize" /\ name \in world'.astray
    BY <1>0, <1>a, <1>5, RefusedFields DEF Questions
  <2> QED
    BY <1>3, <2>1
<1>6. CASE ValueOutcome(name) = "outside" /\ Becomes("undefined", mem)
  <2>1. Going /\ mem' = mem /\ pc' = "undefined" /\ UNCHANGED world
    BY <1>0, <1>6 DEF Becomes, Going, CausticTypeOK
  <2>2. PhaseInv' /\ MemoryInv' /\ StatInv' /\ ListInv'
    BY <1>0, <1>2, <1>6, <2>1 DEF PhaseInv, MemoryInv, StatInv, ListInv
  <2> QED
    BY <2>1, <2>2, PassFields DEF NameInv
<1>7. CASE /\ ValueOutcome(name) = "read"
           /\ Becomes("valueSize", [after EXCEPT !.listed = With(@, name, world.attrs[name].text)])
  <2> DEFINE listed == With(mem.listed, name, world.attrs[name].text)
             m == [after EXCEPT !.listed = listed]
  <2>1. /\ listed \in Tables(Nat) /\ DOMAIN listed = DOMAIN mem.listed \union {name}
        /\ listed[name] = world.attrs[name].text
        /\ \A n \in DOMAIN mem.listed \ {name} : listed[n] = mem.listed[n]
    <3>1. mem.listed \in Tables(Nat) /\ world.attrs[name].text \in Nat /\ name \in AttrNames
      BY <1>0, <1>1, <1>2, <1>7 DEF CausticMem
    <3>2. Gives(listed, mem.listed, name, world.attrs[name].text, Nat)
      <4> HIDE DEF name
      <4> QED
        BY <3>1, WithTable, Zenon
    <3> HIDE DEF listed
    <3> QED
      BY <3>2 DEF Gives
  <2> HIDE DEF listed
  <2>2. /\ m \in CausticMem /\ m.size = mem.size /\ m.ok = mem.ok /\ m.listed = listed
        /\ m.count = mem.count /\ m.xattrs = mem.xattrs /\ m.todo = mem.todo
    BY <1>0, <2>1 DEF CausticMem
  <2>3. mem' = m
    BY <1>7, <1>a DEF Becomes, listed
  <2> HIDE DEF m
  <2>4. Going /\ pc' = "valueSize" /\ UNCHANGED world
    BY <1>0, <1>7, <2>2, <2>3 DEF Becomes, Going, CausticTypeOK
  <2>5. PhaseInv' /\ MemoryInv' /\ StatInv' /\ ListInv'
    BY <1>0, <2>2, <2>3, <2>4, PassKeepsFile DEF PhaseInv, MemoryInv, StatInv, ListInv
  <2>6. ASSUME NEW n \in AttrNames \ world'.astray PROVE NameInv(n)'
    <3>1. NameInv(n)
      BY <1>0, <2>4
    <3> QED
      BY <1>0, <2>1, <2>2, <2>3, <2>4, <3>1, PassKeepsFile DEF NameInv
  <2> QED
    BY <2>4, <2>5, <2>6, PassFields
<1> QED
  BY <1>4, <1>5, <1>6, <1>7 DEF Value

LEMMA PostInv ==
  ASSUME CausticInv, Post
  PROVE  CausticInv'
<1>0. /\ Going /\ UNCHANGED <<world, mem>> /\ pc = "post" /\ pc' \in {"pass", "exited"}
      /\ StatInv
  BY DEF Post, Becomes, Caustic, At, CausticInv, CausticTypeOK, AfterPost, Going
<1>1. PhaseInv' /\ MemoryInv' /\ StatInv' /\ ListInv'
  BY <1>0 DEF PhaseInv, MemoryInv, StatInv, ListInv
<1> QED
  BY <1>0, <1>1, PassFields DEF NameInv

\* What others do to the file tells on the questions they change the answer to.
LEMMA FileStepInv ==
  ASSUME CausticInv, SetAttribute \/ AddAttribute \/ RemoveAttribute \/ Replace
  PROVE  CausticInv'
<1>0. /\ program = "caustic" /\ UNCHANGED <<program, pc, mem>> /\ CausticTypeOK
      /\ world \in Files /\ world.attrs \in Tables(Values) /\ Listing \subseteq AttrNames
      /\ NoFileThere => Listing = {}
  BY TablesAre
     DEF SetAttribute, AddAttribute, RemoveAttribute, Replace, FileBecomes, Meanwhile, CausticInv,
         CausticTypeOK, Files, Listing
<1>1. ASSUME NEW size \in FileSizes \union {NoFile}, NEW attrs \in Tables(Values),
             NEW changed \in SUBSET Questions, NEW filled \in BOOLEAN,
             FileBecomes(size, attrs, changed, filled),
             size = NoFile => DOMAIN attrs = {},
             "stat" \in changed \/ size = world.size,
             "list" \in changed \/ (size = world.size /\ DOMAIN attrs = Listing),
             \A n \in AttrNames \ changed :
               (n \in DOMAIN attrs <=> n \in Listing) /\ (n \in Listing => attrs[n] = world.attrs[n]),
             \/ filled
             \/ /\ DOMAIN attrs \subseteq Listing
                /\ \A n \in DOMAIN attrs : world.attrs[n].size = 0 => attrs[n].size = 0
      PROVE  CausticInv'
  <2>1. /\ world' \in Files /\ world'.size = size /\ world'.attrs = attrs
        /\ world'.astray = world.astray \union changed /\ world'.filled = (world.filled \/ filled)
    BY <1>0, <1>1 DEF FileBecomes, Meanwhile, Files
  <2>2. /\ Listing' = DOMAIN attrs /\ (NoFileThere' <=> size = NoFile)
        /\ NoFileThere <=> world.size = NoFile
    BY <2>1 DEF Listing, NoFileThere
  <2>3. CausticTypeOK' /\ PhaseInv' /\ (NoFileThere' => Listing' = {})
    BY <1>0, <1>1, <2>1, <2>2 DEF CausticTypeOK, PhaseInv, CausticInv
  <2>4. MemoryInv'
    BY <1>0, <1>1, <2>1, <2>2 DEF MemoryInv, CausticInv
  <2>5. StatInv'
    BY <1>0, <1>1, <2>1 DEF StatInv, CausticInv
  <2>6. ListInv'
    <3> SUFFICES ASSUME "list" \notin world'.astray PROVE ListInv'
      BY DEF ListInv
    <3>1. /\ "list" \notin world.astray /\ Listing' = Listing /\ NoFileThere' = NoFileThere
      BY <1>1, <2>1, <2>2 DEF Listing, NoFileThere
    <3> QED
      BY <1>0, <3>1 DEF ListInv, CausticInv
  <2>7. ASSUME NEW n \in AttrNames \ world'.astray PROVE NameInv(n)'
    <3>1. /\ NameInv(n) /\ (n \in Listing' <=> n \in Listing)
          /\ n \in Listing => world'.attrs[n] = world.attrs[n]
      BY <1>0, <1>1, <2>1, <2>2, <2>7 DEF CausticInv
    <3> QED
      BY <1>0, <3>1 DEF NameInv
  <2> QED
    BY <1>0, <2>3, <2>4, <2>5, <2>6, <2>7 DEF CausticInv
<1>2. world.size \in FileSizes \union {NoFile}
  BY <1>0 DEF Files
<1>3. CASE SetAttribute
  <2>1. PICK name \in Listing, value \in Values :
          FileBecomes(world.size, With(world.attrs, name, value), {name}, world.attrs[name].size = 0)
    BY <1>3 DEF SetAttribute
  <2> DEFINE attrs == With(world.attrs, name, value)
  <2>2. /\ attrs \in Tables(Values) /\ DOMAIN attrs = Listing
        /\ \A n \in Listing \ {name} : attrs[n] = world.attrs[n]
    <3>1. name \in AttrNames /\ name \in DOMAIN world.attrs /\ value \in Values
      BY <1>0, <2>1 DEF Listing
    <3>2. Gives(attrs, world.attrs, name, value, Values)
      BY <1>0, <3>1, WithTable, Zenon
    <3> HIDE DEF attrs
    <3> QED
      BY <3>1, <3>2 DEF Listing, Gives
  <2>a. FileBecomes(world.size, attrs, {name}, world.attrs[name].size = 0)
    BY <2>1
  <2> HIDE DEF attrs
  <2>3. (world.attrs[name].size = 0) \in BOOLEAN /\ {name} \in SUBSET Questions
    BY <1>0 DEF Questions
  <2>4. /\ world.size = NoFile => DOMAIN attrs = {}
        /\ \A n \in AttrNames \ {name} :
             (n \in DOMAIN attrs <=> n \in Listing) /\ (n \in Listing => attrs[n] = world.attrs[n])
        /\ \/ world.attrs[name].size = 0
           \/ /\ DOMAIN attrs \subseteq Listing
              /\ \A n \in DOMAIN attrs : world.attrs[n].size = 0 => attrs[n].size = 0
    BY <1>0, <2>2 DEF NoFileThere
  <2> QED
    BY <1>1, <1>2, <2>a, <2>2, <2>3, <2>4
<1>4. CASE AddAttribute
  <2>1. PICK name \in AttrNames \ Listing, value \in Values :
          FileBecomes(world.size, With(world.attrs, name, value), {name, "list"}, TRUE)
    BY <1>4 DEF AddAttribute
  <2> DEFINE attrs == With(world.attrs, name, value)
  <2>2. /\ attrs \in Tables(Values) /\ DOMAIN attrs = Listing \union {name}
        /\ \A n \in Listing : attrs[n] = world.attrs[n]
    <3>1. name \in AttrNames /\ name \notin DOMAIN world.attrs /\ value \in Values
      BY <1>0, <2>1 DEF Listing
    <3>2. Gives(attrs, world.attrs, name, value, Values)
      BY <1>0, <3>1, WithTable, Zenon
    <3> HIDE DEF attrs
    <3> QED
      BY <3>1, <3>2 DEF Listing, Gives
  <2>a. FileBecomes(world.size, attrs, {name, "list"}, TRUE)
    BY <2>1
  <2> HIDE DEF attrs
  <2>3. {name, "list"} \in SUBSET Questions /\ world.size # NoFile
    BY <1>4 DEF Questions, AddAttribute, NoFileThere
  <2>4. \A n \in AttrNames \ {name, "list"} :
          (n \in DOMAIN attrs <=> n \in Listing) /\ (n \in Listing => attrs[n] = world.attrs[n])
    BY <2>2
  <2> QED
    BY <1>1, <1>2, <2>a, <2>2, <2>3, <2>4
<1>5. CASE RemoveAttribute
  <2>1. PICK name \in Listing :
          FileBecomes(world.size, Restrict(world.attrs, Listing \ {name}), {name, "list"}, FALSE)
    BY <1>5 DEF RemoveAttribute
  <2> DEFINE attrs == Restrict(world.attrs, Listing \ {name})
  <2>2. /\ attrs \in Tables(Values) /\ DOMAIN attrs = Listing \ {name}
        /\ \A n \in Listing \ {name} : attrs[n] = world.attrs[n]
    <3>1. name \in AttrNames
      BY <1>0, <2>1
    <3>2. /\ attrs \in Tables(Values) /\ DOMAIN attrs = DOMAIN world.attrs \ {name}
          /\ \A n \in DOMAIN world.attrs \ {name} : attrs[n] = world.attrs[n]
      BY <1>0, <3>1, RestrictTable, Zenon DEF Listing
    <3> QED
      BY <3>1, <3>2 DEF Listing
  <2>a. FileBecomes(world.size, attrs, {name, "list"}, FALSE)
    BY <2>1
  <2> HIDE DEF attrs
  <2>3. {name, "list"} \in SUBSET Questions /\ world.size # NoFile
    BY <1>0, <2>1 DEF Questions, NoFileThere
  <2>4. /\ \A n \in AttrNames \ {name, "list"} :
             (n \in DOMAIN attrs <=> n \in Listing) /\ (n \in Listing => attrs[n] = world.attrs[n])
        /\ DOMAIN attrs \subseteq Listing
        /\ \A n \in DOMAIN attrs : world.attrs[n].size = 0 => attrs[n].size = 0
    BY <2>2
  <2> QED
    BY <1>1, <1>2, <2>a, <2>2, <2>3, <2>4
<1>6. CASE Replace
  <2>1. PICK size \in FileSizes \union {NoFile} :
          FileBecomes(size, <<>>, Listing \union {"stat", "list"}, FALSE)
    BY <1>6 DEF Replace
  <2>2. Listing \union {"stat", "list"} \in SUBSET Questions
    BY <1>0 DEF Questions
  <2>3. <<>> \in Tables(Values) /\ DOMAIN <<>> = {}
    BY NoEntries
  <2>4. \A n \in AttrNames \ (Listing \union {"stat", "list"}) :
          (n \in DOMAIN <<>> <=> n \in Listing) /\ (n \in Listing => <<>>[n] = world.attrs[n])
    BY <2>3
  <2> QED
    BY <1>1, <2>1, <2>2, <2>3, <2>4
<1> QED
  BY <1>3, <1>4, <1>5, <1>6

LEMMA CausticStepInv ==
  ASSUME CausticInv, CausticNext
  PROVE  CausticInv'
BY BeginPassInv, CountInv, ListingInv, ValueSizeInv, ValueInv, PostInv, FileStepInv
   DEF CausticNext, CausticStep

-----------------------------------------------------------------------------
(* The scores of a sample.                                                 *)

\* A quotient is at least q exactly when the dividend holds q divisors.
LEMMA AtLeast ==
  ASSUME NEW a \in Int, NEW d \in Nat, d > 0, NEW q \in Int
  PROVE  a \div d \in Int /\ (a \div d >= q <=> a >= d * q)
<1> DEFINE z == a \div d
           e == a % d
<1>1. z \in Int /\ e \in 0..d - 1 /\ a = d * z + e
  OBVIOUS
<1> HIDE DEF z, e
<1>2. CASE z >= q
  <2>1. d * (z - q) \in Nat /\ d * (z - q) = d * z - d * q /\ d * q \in Int /\ d * z \in Int
    BY <1>1, <1>2
  <2> QED
    BY <1>1, <1>2, <2>1 DEF z
<1>3. CASE z < q
  <2>1. /\ d * (q - z - 1) \in Nat /\ d * (q - z - 1) = d * q - d * z - d
        /\ d * q \in Int /\ d * z \in Int
    BY <1>1, <1>3
  <2> QED
    BY <1>1, <1>3, <2>1 DEF z
<1> QED
  BY <1>1, <1>2, <1>3

\* More has no smaller quotient.
LEMMA QuotientGrows ==
  ASSUME NEW a \in Int, NEW b \in Int, a <= b, NEW d \in Nat, d > 0
  PROVE  a \div d \in Int /\ b \div d \in Int /\ a \div d <= b \div d
<1>1. a \div d \in Int /\ b \div d \in Int /\ d * (a \div d) \in Int
  BY AtLeast
<1>2. a >= d * (a \div d)
  BY <1>1, AtLeast
<1>3. b >= d * (a \div d)
  BY <1>1, <1>2
<1> QED
  BY <1>1, <1>3, AtLeast

\* The two steps of Share divide the product as one division would.
LEMMA ShareIs ==
  ASSUME NEW part \in Nat, NEW whole \in Nat, whole > 0, NEW q \in Int
  PROVE  Share(part, whole) \in Int /\ (Share(part, whole) >= q <=> part * 1000000 >= whole * q)
<1> DEFINE a == part * 1000
           z == a \div whole
           e == a % whole
           b == e * 1000
           y == b \div whole
<1>1. z \in Int /\ e \in Nat /\ a = whole * z + e /\ a \in Nat
  OBVIOUS
<1>2. Share(part, whole) = z * 1000 + y
  BY DEF Share
<1> HIDE DEF z, e
<1>3. b \in Int /\ y \in Int /\ (y >= q - z * 1000 <=> b >= whole * (q - z * 1000))
  BY <1>1, AtLeast
<1> HIDE DEF y
<1>4. whole * (q - z * 1000) = whole * q - (whole * z) * 1000 /\ whole * q \in Int /\ whole * z \in Int
  BY <1>1
<1> QED
  BY <1>1, <1>2, <1>3, <1>4, SMT

\* A share of a million.
IsShare(x) == x \in Int /\ 0 <= x /\ x <= Million

LEMMA MillionIs == Million = 1000000 /\ Million \in Nat
  BY SMT DEF Million

LEMMA SharesAre == \A x : IsShare(x) => x \in 0..Million
<1>1. Million \in Nat
  BY MillionIs, SMT
<1> QED
  BY <1>1 DEF IsShare

\* A share of the whole, which grows with the part.
LEMMA ShareGrows ==
  ASSUME NEW part \in Nat, NEW more \in Nat, NEW whole \in Nat, whole > 0,
         part <= more, more <= whole
  PROVE  /\ IsShare(Share(part, whole)) /\ IsShare(Share(more, whole))
         /\ Share(part, whole) <= Share(more, whole)
<1> DEFINE s == Share(part, whole)
           t == Share(more, whole)
<1>1. s \in Int /\ t \in Int
  BY ShareIs
<1>2. /\ \A q \in Int : s >= q <=> part * 1000000 >= whole * q
      /\ \A q \in Int : t >= q <=> more * 1000000 >= whole * q
  BY ShareIs
<1> HIDE DEF s, t
<1>3. whole * s \in Int /\ whole * t \in Int /\ whole * 1000001 > more * 1000000 /\ whole * 0 = 0
  BY <1>1, SMT
<1>4. part * 1000000 >= whole * s /\ part * 1000000 >= whole * 0
  BY <1>1, <1>2, <1>3, SMT
<1>5. t >= s /\ s >= 0
  BY <1>1, <1>2, <1>3, <1>4, SMT
<1>6. ~(t >= 1000001)
  BY <1>2, <1>3, SMT
<1>7. t <= 1000000
  BY <1>1, <1>6, SMT
<1>8. IsShare(s) /\ IsShare(t) /\ s <= t
  BY <1>1, <1>5, <1>7, MillionIs, SMT DEF IsShare
<1> QED
  BY <1>8 DEF s, t

\* Samples, and what becomes of one when an attribute is added.
Read == [ok : BOOLEAN, size : Nat, age : Int, count : Nat, nameBytes : Nat,
         path : {"campaign", "creative", "audience", "other"},
         gpuOk : BOOLEAN, vram : Memory, gtt : Memory]

\* The grades of a sample are shares.
Graded(s) ==
  /\ IsShare(Density(s)) /\ IsShare(Freshness(s))
  /\ IsShare(XattrWeight(s)) /\ IsShare(PathWeight(s))
  /\ IsShare(Pressure(s))

\* A file with more attributes is denser.
LEMMA DensityGrows ==
  ASSUME NEW s \in Read, NEW t \in Read, s.ok = t.ok, s.size = t.size,
         s.count <= t.count, s.nameBytes <= t.nameBytes
  PROVE  /\ IsShare(Density(s)) /\ IsShare(Density(t))
         /\ Density(s) <= Density(t)
<1> DEFINE whole == IF s.size = 0 THEN 1 ELSE s.size
           a == s.count * 4096 + s.nameBytes
           b == t.count * 4096 + t.nameBytes
<1>1. /\ s.size \in Nat /\ s.count \in Nat /\ s.nameBytes \in Nat
      /\ t.count \in Nat /\ t.nameBytes \in Nat
  BY DEF Read
<1>2. whole \in Nat /\ whole > 0 /\ a \in Nat /\ b \in Nat /\ a <= b
  BY <1>1, SMT
<1>3. /\ Density(s) = IF ~s.ok THEN 0 ELSE IF a >= whole THEN Million ELSE Share(a, whole)
      /\ Density(t) = IF ~s.ok THEN 0 ELSE IF b >= whole THEN Million ELSE Share(b, whole)
  BY DEF Density
<1> HIDE DEF whole, a, b
<1>4. CASE b < whole
  <2>1. /\ IsShare(Share(a, whole)) /\ IsShare(Share(b, whole))
        /\ Share(a, whole) <= Share(b, whole)
    BY <1>2, <1>4, ShareGrows
  <2> QED
    BY <1>2, <1>3, <1>4, <2>1, MillionIs, SMT DEF IsShare
<1>5. CASE b >= whole
  <2>1. a < whole => IsShare(Share(a, whole))
    BY <1>2, ShareGrows
  <2> QED
    BY <1>2, <1>3, <1>5, <2>1, MillionIs, SMT DEF IsShare
<1> QED
  BY <1>2, <1>4, <1>5

\* The steps of freshness, one after the other.
LEMMA FreshnessIs ==
  ASSUME NEW s \in Read
  PROVE  /\ ~s.ok => Freshness(s) = 400000
         /\ s.ok /\ s.age < 0 => Freshness(s) = 500000
         /\ s.ok /\ 0 <= s.age /\ s.age <= 3600 => Freshness(s) = 1000000
         /\ s.ok /\ 3600 < s.age /\ s.age <= 86400 => Freshness(s) = 850000
         /\ s.ok /\ 86400 < s.age /\ s.age <= 604800 => Freshness(s) = 650000
         /\ s.ok /\ 604800 < s.age /\ s.age <= 2592000 => Freshness(s) = 450000
         /\ s.ok /\ 2592000 < s.age => Freshness(s) = 250000
<1>1. s.age \in Int /\ s.ok \in BOOLEAN
  BY DEF Read
<1>2. ~s.ok => Freshness(s) = 400000
  BY <1>1, SMT DEF Freshness
<1>3. s.ok /\ s.age < 0 => Freshness(s) = 500000
  BY <1>1, SMT DEF Freshness
<1>4. s.ok /\ 0 <= s.age /\ s.age <= 3600 => Freshness(s) = 1000000
  BY <1>1, SMT DEF Freshness, Million
<1>5. s.ok /\ 3600 < s.age /\ s.age <= 86400 => Freshness(s) = 850000
  BY <1>1, SMT DEF Freshness
<1>6. s.ok /\ 86400 < s.age /\ s.age <= 604800 => Freshness(s) = 650000
  BY <1>1, SMT DEF Freshness
<1>7. s.ok /\ 604800 < s.age /\ s.age <= 2592000 => Freshness(s) = 450000
  BY <1>1, SMT DEF Freshness
<1>8. s.ok /\ 2592000 < s.age => Freshness(s) = 250000
  BY <1>1, SMT DEF Freshness
<1> QED
  BY <1>2, <1>3, <1>4, <1>5, <1>6, <1>7, <1>8, SMT

\* An older file is no fresher.
LEMMA FreshnessFalls ==
  ASSUME NEW s \in Read, NEW t \in Read, s.ok = t.ok,
         s.age = t.age \/ (0 <= t.age /\ t.age <= s.age)
  PROVE  /\ IsShare(Freshness(s)) /\ IsShare(Freshness(t))
         /\ Freshness(s) <= Freshness(t)
<1>1. s.age \in Int /\ t.age \in Int /\ s.ok \in BOOLEAN
  BY DEF Read
<1> DEFINE a == s.age
           b == t.age
           f == Freshness(s)
           g == Freshness(t)
<1>2. /\ ~s.ok => f = 400000
      /\ s.ok /\ a < 0 => f = 500000
      /\ s.ok /\ 0 <= a /\ a <= 3600 => f = 1000000
      /\ s.ok /\ 3600 < a /\ a <= 86400 => f = 850000
      /\ s.ok /\ 86400 < a /\ a <= 604800 => f = 650000
      /\ s.ok /\ 604800 < a /\ a <= 2592000 => f = 450000
      /\ s.ok /\ 2592000 < a => f = 250000
  BY FreshnessIs, SMT
<1>3. /\ ~s.ok => g = 400000
      /\ s.ok /\ b < 0 => g = 500000
      /\ s.ok /\ 0 <= b /\ b <= 3600 => g = 1000000
      /\ s.ok /\ 3600 < b /\ b <= 86400 => g = 850000
      /\ s.ok /\ 86400 < b /\ b <= 604800 => g = 650000
      /\ s.ok /\ 604800 < b /\ b <= 2592000 => g = 450000
      /\ s.ok /\ 2592000 < b => g = 250000
  BY FreshnessIs, SMT
<1> HIDE DEF f, g
<1> QED
  BY <1>1, <1>2, <1>3, MillionIs, SMT DEF IsShare, f, g

\* More attributes weigh more.
LEMMA XattrWeightGrows ==
  ASSUME NEW s \in Read, NEW t \in Read, s.count <= t.count
  PROVE  /\ IsShare(XattrWeight(s)) /\ IsShare(XattrWeight(t))
         /\ XattrWeight(s) <= XattrWeight(t)
<1>1. s.count \in Nat /\ t.count \in Nat
  BY DEF Read
<1> QED
  BY <1>1, MillionIs, SMT DEF XattrWeight, Capped, IsShare

LEMMA PathWeightIs == ASSUME NEW s PROVE IsShare(PathWeight(s))
  BY MillionIs, SMT DEF PathWeight, IsShare

\* The memory in use of one kind.
Used(m) == IF m.total = 0 THEN 0 ELSE Share(m.used, m.total)

LEMMA UsedGrows ==
  ASSUME NEW m \in Memory, NEW more \in Memory, more.total = m.total, more.used >= m.used
  PROVE  IsShare(Used(m)) /\ IsShare(Used(more)) /\ Used(m) <= Used(more)
<1>1. /\ m.used \in Nat /\ more.used \in Nat /\ m.total \in Nat /\ more.used <= m.total
  BY DEF Memory
<1>2. CASE m.total = 0
  BY <1>2, MillionIs, SMT DEF Used, IsShare
<1>3. CASE m.total > 0
  <2>1. /\ IsShare(Share(m.used, m.total)) /\ IsShare(Share(more.used, m.total))
        /\ Share(m.used, m.total) <= Share(more.used, m.total)
    BY <1>1, <1>3, ShareGrows
  <2> QED
    BY <1>1, <1>3, <2>1, SMT DEF Used, IsShare
<1> QED
  BY <1>1, <1>2, <1>3

LEMMA PressureGrows ==
  ASSUME NEW s \in Read, NEW t \in Read, s.gpuOk = t.gpuOk,
         s.vram = t.vram \/ (t.vram.total = s.vram.total /\ t.vram.used >= s.vram.used),
         s.gtt = t.gtt \/ (t.gtt.total = s.gtt.total /\ t.gtt.used >= s.gtt.used)
  PROVE  /\ IsShare(Pressure(s)) /\ IsShare(Pressure(t))
         /\ Pressure(s) <= Pressure(t)
<1>1. s.vram \in Memory /\ t.vram \in Memory /\ s.gtt \in Memory /\ t.gtt \in Memory
  BY DEF Read
<1>2. \A m \in Memory : m.used \in Nat /\ m.used >= m.used
  BY DEF Memory
<1>3. /\ IsShare(Used(s.vram)) /\ IsShare(Used(t.vram)) /\ Used(s.vram) <= Used(t.vram)
  BY <1>1, <1>2, UsedGrows
<1>4. /\ IsShare(Used(s.gtt)) /\ IsShare(Used(t.gtt)) /\ Used(s.gtt) <= Used(t.gtt)
  BY <1>1, <1>2, UsedGrows
<1>5. /\ Pressure(s) = IF s.gpuOk THEN (Used(s.vram) + Used(s.gtt)) \div 2 ELSE 0
      /\ Pressure(t) = IF s.gpuOk THEN (Used(t.vram) + Used(t.gtt)) \div 2 ELSE 0
  BY DEF Pressure, Used
<1> HIDE DEF Used
<1> QED
  BY <1>3, <1>4, <1>5, MillionIs, SMT DEF IsShare

\* The scores are shares, and follow the grades they are made of.
LEMMA ScoresFollow ==
  ASSUME NEW s, NEW t, Graded(s), Graded(t),
         Density(s) <= Density(t), Freshness(s) <= Freshness(t),
         XattrWeight(s) <= XattrWeight(t), PathWeight(s) = PathWeight(t),
         Pressure(s) >= Pressure(t)
  PROVE  /\ IsShare(Interest(s)) /\ IsShare(Quality(s)) /\ IsShare(CausalRatio(s))
         /\ CausalRatio(s) <= CausalRatio(t)
<1> DEFINE is == Interest(s)
           it == Interest(t)
           qs == Quality(s)
           qt == Quality(t)
           ps == Pressure(s)
           pt == Pressure(t)
<1>1. IsShare(is) /\ IsShare(it) /\ is <= it
  BY MillionIs, SMT DEF Interest, Graded, Capped, IdWeight, IsShare
<1>2. IsShare(qs) /\ IsShare(qt) /\ qs <= qt
  BY MillionIs, SMT DEF Quality, Graded, Capped, IsShare
<1>3. IsShare(ps) /\ IsShare(pt) /\ ps >= pt
  BY SMT DEF Graded, IsShare
<1>4. /\ CausalRatio(s) = Capped(Penalized((is * 65 + qs * 35) \div 100, ps \div 5), Million)
      /\ CausalRatio(t) = Capped(Penalized((it * 65 + qt * 35) \div 100, pt \div 5), Million)
  BY DEF CausalRatio
<1> HIDE DEF is, it, qs, qt, ps, pt
<1>5. IsShare(CausalRatio(s)) /\ CausalRatio(s) <= CausalRatio(t)
  BY <1>1, <1>2, <1>3, <1>4, MillionIs, SMT DEF Capped, Penalized, IsShare
<1> QED
  BY <1>1, <1>2, <1>5 DEF is, qs

\* Both samples are graded; one is no better than the other in anything.
LEMMA WorseScoresLess ==
  ASSUME NEW s \in Read, NEW t \in Read,
         s.ok = t.ok, s.size = t.size, s.path = t.path, s.gpuOk = t.gpuOk,
         s.count <= t.count, s.nameBytes <= t.nameBytes,
         s.age = t.age \/ (0 <= t.age /\ t.age <= s.age),
         s.vram = t.vram \/ (s.vram.total = t.vram.total /\ s.vram.used >= t.vram.used),
         s.gtt = t.gtt \/ (s.gtt.total = t.gtt.total /\ s.gtt.used >= t.gtt.used)
  PROVE  /\ IsShare(Density(s)) /\ IsShare(Pressure(s)) /\ IsShare(XattrWeight(s))
         /\ IsShare(Interest(s)) /\ IsShare(Quality(s)) /\ IsShare(CausalRatio(s))
         /\ CausalRatio(s) <= CausalRatio(t)
<1>1. /\ IsShare(Density(s)) /\ IsShare(Density(t))
      /\ Density(s) <= Density(t)
  BY DensityGrows
<1>2. /\ IsShare(Freshness(s)) /\ IsShare(Freshness(t))
      /\ Freshness(s) <= Freshness(t)
  BY FreshnessFalls
<1>3. /\ IsShare(XattrWeight(s)) /\ IsShare(XattrWeight(t))
      /\ XattrWeight(s) <= XattrWeight(t)
  BY XattrWeightGrows
<1>4. /\ IsShare(Pressure(s)) /\ IsShare(Pressure(t))
      /\ Pressure(t) <= Pressure(s)
  BY PressureGrows
<1>5. PathWeight(s) = PathWeight(t)
  BY DEF PathWeight
<1>6. Graded(s) /\ Graded(t)
  BY <1>1, <1>2, <1>3, <1>4, PathWeightIs DEF Graded
<1>7. /\ IsShare(Interest(s)) /\ IsShare(Quality(s)) /\ IsShare(CausalRatio(s))
      /\ CausalRatio(s) <= CausalRatio(t)
  <2>1. Pressure(s) >= Pressure(t)
    BY <1>4, SMT DEF IsShare
  <2> QED
    BY <1>1, <1>2, <1>3, <1>5, <1>6, <2>1, ScoresFollow
<1> QED
  BY <1>1, <1>3, <1>4, <1>7

LEMMA AllInOrder == SharesInOrder
<1> SUFFICES ASSUME NEW s \in Samples
             PROVE  /\ {Density(s), Pressure(s), XattrWeight(s), Interest(s), Quality(s), CausalRatio(s)}
                         \subseteq 0..Million
                    /\ \A n \in NameLengths : CausalRatio(Named(s, n)) >= CausalRatio(s)
                    /\ \A more \in Fuller(s.vram) : CausalRatio(InUse(s, more)) <= CausalRatio(s)
                    /\ \A more \in Fuller(s.gtt) : CausalRatio(InUseOutside(s, more)) <= CausalRatio(s)
                    /\ s.age >= 0 => CausalRatio(Older(s)) <= CausalRatio(s)
  BY DEF SharesInOrder
<1>1. s \in Read
  BY SamplesAssumption, SMT DEF Sample, Read
<1>2. /\ s.count \in Nat /\ s.nameBytes \in Nat /\ s.age \in Int
      /\ s.vram \in Memory /\ s.gtt \in Memory
  BY <1>1 DEF Read
<1>3. {Density(s), Pressure(s), XattrWeight(s), Interest(s), Quality(s), CausalRatio(s)} \subseteq 0..Million
  <2>1. s.count <= s.count /\ s.nameBytes <= s.nameBytes
    BY <1>2
  <2>2. /\ IsShare(Density(s)) /\ IsShare(Pressure(s)) /\ IsShare(XattrWeight(s))
        /\ IsShare(Interest(s)) /\ IsShare(Quality(s)) /\ IsShare(CausalRatio(s))
    BY <1>1, <2>1, WorseScoresLess
  <2> QED
    BY <2>2, SharesAre
<1>4. ASSUME NEW n \in NameLengths PROVE CausalRatio(Named(s, n)) >= CausalRatio(s)
  <2> DEFINE t == Named(s, n)
  <2>1. n \in Nat
    BY SamplesAssumption
  <2>2. /\ t \in Read /\ s.ok = t.ok /\ s.size = t.size /\ s.path = t.path
        /\ s.gpuOk = t.gpuOk /\ s.age = t.age /\ s.vram = t.vram /\ s.gtt = t.gtt
        /\ t.count = s.count + 1 /\ t.nameBytes = s.nameBytes + n
    <3> DEFINE c == s.count + 1
               b == s.nameBytes + n
               u == [s EXCEPT !.count = c]
    <3>1. c \in Nat /\ b \in Nat
      BY <1>2, <2>1
    <3>2. t = [u EXCEPT !.nameBytes = b]
      BY <1>1 DEF Read, Named
    <3> HIDE DEF c, b, t
    <3>3. u \in Read /\ u = [s EXCEPT !.count = c]
      BY <1>1, <3>1 DEF Read
    <3>4. /\ s.ok = u.ok /\ s.size = u.size /\ s.path = u.path
          /\ s.gpuOk = u.gpuOk /\ s.age = u.age /\ s.vram = u.vram /\ s.gtt = u.gtt
          /\ u.count = c /\ s.nameBytes = u.nameBytes
      BY <1>1 DEF Read
    <3> HIDE DEF u
    <3>5. t \in Read
      BY <3>1, <3>2, <3>3 DEF Read
    <3>6. /\ u.ok = t.ok /\ u.size = t.size /\ u.path = t.path
          /\ u.gpuOk = t.gpuOk /\ u.age = t.age /\ u.vram = t.vram /\ u.gtt = t.gtt
          /\ t.count = u.count /\ t.nameBytes = b
      BY <3>2, <3>3 DEF Read
    <3> QED
      BY <3>4, <3>5, <3>6 DEF c, b
  <2>3. s.count <= t.count /\ s.nameBytes <= t.nameBytes
    BY <1>2, <2>1, <2>2
  <2> HIDE DEF t
  <2>4. CausalRatio(s) <= CausalRatio(t)
    BY <1>1, <2>2, <2>3, WorseScoresLess
  <2>5. IsShare(CausalRatio(s))
    BY <1>1, <2>2, <2>3, WorseScoresLess
  <2>6. IsShare(CausalRatio(t))
    <3>1. t.count <= t.count /\ t.nameBytes <= t.nameBytes
      BY <1>2, <2>1, <2>2
    <3> QED
      BY <2>2, <3>1, WorseScoresLess
  <2> QED
    BY <2>4, <2>5, <2>6, SMT DEF t, IsShare
<1>5. ASSUME NEW more \in Fuller(s.vram) PROVE CausalRatio(InUse(s, more)) <= CausalRatio(s)
  <2> DEFINE t == InUse(s, more)
  <2>1. more \in Memory /\ more.total = s.vram.total /\ more.used >= s.vram.used
    BY SamplesAssumption DEF Fuller
  <2>2. /\ t \in Read /\ s.ok = t.ok /\ s.size = t.size /\ s.path = t.path
        /\ s.gpuOk = t.gpuOk /\ s.age = t.age /\ t.vram = more /\ s.gtt = t.gtt
        /\ t.count = s.count /\ t.nameBytes = s.nameBytes
    BY <1>1, <2>1 DEF Read, InUse
  <2>3. t.count <= s.count /\ t.nameBytes <= s.nameBytes
    BY <1>2, <2>2
  <2> HIDE DEF t
  <2>4. CausalRatio(t) <= CausalRatio(s)
    BY <1>1, <2>1, <2>2, <2>3, WorseScoresLess
  <2> QED
    BY <2>4 DEF t
<1>6. ASSUME NEW more \in Fuller(s.gtt) PROVE CausalRatio(InUseOutside(s, more)) <= CausalRatio(s)
  <2> DEFINE t == InUseOutside(s, more)
  <2>1. more \in Memory /\ more.total = s.gtt.total /\ more.used >= s.gtt.used
    BY SamplesAssumption DEF Fuller
  <2>2. /\ t \in Read /\ s.ok = t.ok /\ s.size = t.size /\ s.path = t.path
        /\ s.gpuOk = t.gpuOk /\ s.age = t.age /\ s.vram = t.vram /\ t.gtt = more
        /\ t.count = s.count /\ t.nameBytes = s.nameBytes
    BY <1>1, <2>1 DEF Read, InUseOutside
  <2>3. t.count <= s.count /\ t.nameBytes <= s.nameBytes
    BY <1>2, <2>2
  <2> HIDE DEF t
  <2>4. CausalRatio(t) <= CausalRatio(s)
    BY <1>1, <2>1, <2>2, <2>3, WorseScoresLess
  <2> QED
    BY <2>4 DEF t
<1>7. ASSUME s.age >= 0 PROVE CausalRatio(Older(s)) <= CausalRatio(s)
  <2> DEFINE t == Older(s)
  <2>1. /\ t \in Read /\ s.ok = t.ok /\ s.size = t.size /\ s.path = t.path
        /\ s.gpuOk = t.gpuOk /\ t.age = s.age + 1 /\ s.vram = t.vram /\ s.gtt = t.gtt
        /\ t.count = s.count /\ t.nameBytes = s.nameBytes
    BY <1>1 DEF Read, Older
  <2>2. t.count <= s.count /\ t.nameBytes <= s.nameBytes /\ 0 <= s.age /\ s.age <= t.age
    BY <1>2, <1>7, <2>1
  <2> HIDE DEF t
  <2>3. CausalRatio(t) <= CausalRatio(s)
    BY <1>1, <2>1, <2>2, WorseScoresLess
  <2> QED
    BY <2>3 DEF t
<1> QED
  BY <1>3, <1>4, <1>5, <1>6, <1>7

-----------------------------------------------------------------------------
(* The operators of packing and unpacking.                                 *)

Bytes == 0..Width - 1

\* A set of numbers that is not empty has a least one.
LEMMA Least ==
  ASSUME NEW S, S \subseteq Nat, S # {}
  PROVE  \E x \in S : \A y \in S : x <= y
<1> DEFINE R == OpToRel(<, Nat)
<1>1. IsWellFoundedOn(R, Nat)
  BY NatLessThanWellFounded
<1>2. \A x, y \in Nat : <<x, y>> \in R <=> x < y
  BY DEF OpToRel
<1> HIDE DEF R
<1>3. PICK x \in S : \A y \in S : ~(<<y, x>> \in R)
  BY <1>1, WFMin
<1>4. \A y \in S : x <= y
  <2> TAKE y \in S
  <2>1. x \in Nat /\ y \in Nat /\ ~(<<y, x>> \in R)
    BY <1>3
  <2>2. ~(y < x)
    BY <2>1, <1>2, Zenon
  <2> QED
    BY <2>1, <2>2
<1> QED
  BY <1>4

\* The bytes a call has still to read.
LEMMA RestIs ==
  ASSUME NEW s \in Seq(Bytes), NEW i \in 0..Len(s)
  PROVE  LET rest == SubSeq(s, i + 1, Len(s))
         IN  /\ rest \in Seq(Bytes) /\ Len(rest) = Len(s) - i
             /\ \A k \in 1..Len(s) - i : rest[k] = s[i + k]
<1>1. Len(s) \in Nat /\ \A k \in i + 1..Len(s) : s[k] \in Bytes
  BY LenProperties, ElementOfSeq
<1>2. i + 1 \in Int /\ Len(s) \in Int
  BY <1>1
<1> DEFINE rest == SubSeq(s, i + 1, Len(s))
<1>3. /\ rest \in Seq(Bytes)
      /\ Len(rest) = IF i + 1 <= Len(s) THEN Len(s) - (i + 1) + 1 ELSE 0
      /\ \A k \in 1..Len(s) - (i + 1) + 1 : rest[k] = s[(i + 1) + k - 1]
  BY <1>1, <1>2, SubSeqProperties
<1> HIDE DEF rest
<1>4. Len(rest) = Len(s) - i /\ \A k \in 1..Len(s) - i : rest[k] = s[i + k]
  BY <1>1, <1>3
<1> QED
  BY <1>3, <1>4 DEF rest

\* A run is not empty, not longer than the longest, and all of one byte.
LEMMA RunIs ==
  ASSUME NEW bytes \in Seq(Bytes), bytes # <<>>
  PROVE  /\ Run(bytes) \in 1..Len(bytes) /\ Run(bytes) <= RunLimit
         /\ \A k \in 1..Run(bytes) : bytes[k] = bytes[1]
<1> DEFINE S == {n \in 1..Len(bytes) : LongestRun(bytes, n)}
           Is(n) == LongestRun(bytes, n) /\
                    \A k \in 1..n : bytes[k] = bytes[1] /\ (k < n => ~LongestRun(bytes, k))
<1>1. Len(bytes) \in Nat /\ Len(bytes) >= 1
  BY EmptySeq
<1>2. S \subseteq Nat /\ S # {}
  BY <1>1 DEF LongestRun
<1>3. PICK n \in S : \A m \in S : n <= m
  BY <1>2, Least
<1>4. \A k \in 1..n : k < n => ~LongestRun(bytes, k)
  BY <1>1, <1>3
<1>5. \A k \in 1..n : bytes[k] = bytes[1]
  <2> TAKE k \in 1..n
  <2>1. CASE k = 1
    BY <2>1
  <2>2. CASE k > 1
    <3>1. k - 1 \in 1..n /\ k - 1 < n /\ (k - 1) + 1 = k
      BY <1>1, <1>3, <2>2
    <3>2. ~LongestRun(bytes, k - 1)
      BY <1>4, <3>1
    <3> QED
      BY <3>1, <3>2 DEF LongestRun
  <2> QED
    BY <1>1, <1>3, <2>1, <2>2
<1>6. Is(n)
  BY <1>3, <1>4, <1>5
<1>7. Run(bytes) \in 1..Len(bytes) /\ Is(Run(bytes))
  BY <1>3, <1>6 DEF Run
<1>8. Run(bytes) <= RunLimit
  <2> DEFINE m == Run(bytes)
  <2>0. m \in 1..Len(bytes) /\ \A k \in 1..m : k < m => ~LongestRun(bytes, k)
    BY <1>7
  <2> HIDE DEF m
  <2> SUFFICES ASSUME m > RunLimit PROVE FALSE
    BY <1>1, <2>0, WidthAssumption DEF m, RunLimit
  <2>1. RunLimit \in 1..m /\ RunLimit < m
    BY <1>1, <2>0, WidthAssumption DEF RunLimit
  <2> QED
    BY <2>0, <2>1 DEF LongestRun
<1> QED
  BY <1>7, <1>8

\* A run is written as itself, when it is short and holds no marker, or as
\* the marker, its length and its byte.
LEMMA PackedRunIs ==
  ASSUME NEW b \in Bytes, NEW n \in 1..RunLimit
  PROVE  LET chunk == PackedRun(b, n)
         IN  \/ /\ b # Marker /\ chunk = [k \in 1..n |-> b]
                /\ chunk \in Seq(Bytes) /\ Len(chunk) = n
             \/ /\ chunk = <<Marker, n, b>>
                /\ chunk \in Seq(Bytes) /\ Len(chunk) = 3
<1>1. n % Width = n /\ n \in Bytes /\ Marker \in Bytes /\ n \in Nat
  BY WidthAssumption, SMT DEF RunLimit, Marker, Bytes
<1>2. CASE n >= MinRun \/ b = Marker
  BY <1>1, <1>2 DEF PackedRun
<1>3. CASE ~(n >= MinRun \/ b = Marker)
  <2> DEFINE chunk == [k \in 1..n |-> b]
  <2>1. chunk \in Seq(Bytes) /\ Len(chunk) = n
    BY <1>1
  <2> QED
    BY <1>3, <2>1 DEF PackedRun
<1> QED
  BY <1>2, <1>3

\* What is stored in a buffer is where it was counted, and the rest stays.
LEMMA StoredIs ==
  ASSUME mem.out \in Seq(Bytes \union {Unset}), mem.wrote \in Nat,
         NEW chunk \in Seq(Bytes)
  PROVE  /\ Stored(chunk) \in Seq(Bytes \union {Unset})
         /\ Len(Stored(chunk)) = Len(mem.out)
         /\ \A k \in 1..Len(mem.out) : k <= mem.wrote => Stored(chunk)[k] = mem.out[k]
         /\ \A k \in 1..Len(chunk) :
              mem.wrote + k <= Len(mem.out) => Stored(chunk)[mem.wrote + k] = chunk[k]
<1> DEFINE N == Len(mem.out) w == mem.wrote
<1>1. /\ N \in Nat /\ w \in Nat /\ Len(chunk) \in Nat
      /\ DOMAIN mem.out = 1..N /\ DOMAIN chunk = 1..Len(chunk)
      /\ \A k \in 1..N : mem.out[k] \in Bytes \union {Unset}
      /\ \A k \in 1..Len(chunk) : chunk[k] \in Bytes
  BY LenProperties, ElementOfSeq
<1>2. Stored(chunk) = [k \in 1..N |-> IF k - w \in 1..Len(chunk) THEN chunk[k - w] ELSE mem.out[k]]
  BY <1>1 DEF Stored
<1> HIDE DEF N, w
<1>3. \A k \in 1..N : (IF k - w \in 1..Len(chunk) THEN chunk[k - w] ELSE mem.out[k])
                        \in Bytes \union {Unset}
  BY <1>1
<1>4. /\ Stored(chunk) \in Seq(Bytes \union {Unset}) /\ Len(Stored(chunk)) = N
  BY <1>1, <1>2, <1>3
<1>5. \A k \in 1..N : k <= w => Stored(chunk)[k] = mem.out[k]
  BY <1>1, <1>2
<1>6. \A k \in 1..Len(chunk) : w + k <= N => Stored(chunk)[w + k] = chunk[k]
  <2> TAKE k \in 1..Len(chunk)
  <2> HAVE w + k <= N
  <2>1. w + k \in 1..N /\ (w + k) - w = k
    BY <1>1
  <2> QED
    BY <1>2, <2>1
<1> QED
  BY <1>4, <1>5, <1>6 DEF N, w

-----------------------------------------------------------------------------
(* The two calls of packing, or of unpacking, take the same way through    *)
(* the source: t says how much is counted at each place a round begins.    *)

Trail(t, reads, counts, r, w) ==
  /\ r \in Nat /\ w \in Nat /\ {0, r} \subseteq DOMAIN t /\ DOMAIN t \subseteq 0..r
  /\ t \in [DOMAIN t -> 0..w] /\ t[0] = 0 /\ t[r] = w
  /\ \A i \in DOMAIN t : i < r =>
       i + reads[i] \in DOMAIN t /\ t[i + reads[i]] = t[i] + counts[i]

\* A call begins at the beginning.
LEMMA TrailStart == \A reads, counts : Trail([i \in {0} |-> 0], reads, counts, 0, 0)
BY DEF Trail

\* A round goes on from where the last one ended.
LEMMA TrailGrows ==
  ASSUME NEW t, NEW reads, NEW counts, NEW r, NEW w, Trail(t, reads, counts, r, w),
         reads[r] \in Nat, reads[r] > 0, counts[r] \in Nat
  PROVE  \E u : Trail(u, reads, counts, r + reads[r], w + counts[r])
<1> DEFINE n == reads[r]
           c == counts[r]
           u == [i \in DOMAIN t \union {r + n} |-> IF i = r + n THEN w + c ELSE t[i]]
<1>0. n \in Nat /\ n > 0 /\ c \in Nat /\ r \in Nat /\ w \in Nat
  BY DEF Trail
<1>1. /\ {0, r} \subseteq DOMAIN t /\ DOMAIN t \subseteq 0..r
      /\ t \in [DOMAIN t -> 0..w] /\ t[0] = 0 /\ t[r] = w
      /\ \A i \in DOMAIN t : i < r =>
           i + reads[i] \in DOMAIN t /\ t[i + reads[i]] = t[i] + counts[i]
  BY DEF Trail
<1>2. /\ DOMAIN u = DOMAIN t \union {r + n} /\ u[r + n] = w + c
      /\ \A i \in DOMAIN t : u[i] = t[i]
  BY <1>0, <1>1
<1>3. n = reads[r] /\ c = counts[r]
  OBVIOUS
<1>4. u \in [DOMAIN u -> 0..w + c]
  BY <1>0, <1>1
<1> HIDE DEF u, n, c
<1>5. \A i \in DOMAIN u : i < r + n =>
        i + reads[i] \in DOMAIN u /\ u[i + reads[i]] = u[i] + counts[i]
  <2> SUFFICES ASSUME NEW i \in DOMAIN u, i < r + n
               PROVE  i + reads[i] \in DOMAIN u /\ u[i + reads[i]] = u[i] + counts[i]
    OBVIOUS
  <2>1. i \in DOMAIN t
    BY <1>0, <1>2
  <2>2. CASE i < r
    BY <1>1, <1>2, <2>1, <2>2
  <2>3. CASE i = r
    BY <1>1, <1>2, <1>3, <2>1, <2>3
  <2> QED
    BY <1>0, <1>1, <2>1, <2>2, <2>3
<1>6. {0, r + n} \subseteq DOMAIN u /\ DOMAIN u \subseteq 0..r + n /\ u[0] = 0
  BY <1>0, <1>1, <1>2
<1>7. Trail(u, reads, counts, r + n, w + c)
  BY <1>0, <1>2, <1>4, <1>5, <1>6 DEF Trail
<1> QED
  BY <1>7 DEF n, c

\* Every round of the second call is one of the first, and stays in the room
\* that the first call counted.
LEMMA TrailStep ==
  ASSUME NEW t, NEW reads, NEW counts, NEW r, NEW w, Trail(t, reads, counts, r, w),
         NEW i \in DOMAIN t
  PROVE  /\ i \in 0..r /\ t[i] \in 0..w
         /\ i < r => /\ i + reads[i] \in DOMAIN t /\ i + reads[i] <= r
                     /\ t[i + reads[i]] = t[i] + counts[i] /\ t[i] + counts[i] <= w
         /\ i = r => t[i] = w
BY DEF Trail

-----------------------------------------------------------------------------
(* What a stream stands for: g says how much data the stream has given at  *)
(* each place where a byte of its own, or a marked run, begins.            *)

Token(stream, data, g, i) ==
  \/ /\ stream[i + 1] # Marker
     /\ i + 1 \in DOMAIN g /\ g[i + 1] = g[i] + 1
     /\ data[g[i] + 1] = stream[i + 1]
  \/ /\ stream[i + 1] = Marker
     /\ stream[i + 2] \in 1..RunLimit
     /\ i + 3 \in DOMAIN g /\ g[i + 3] = g[i] + stream[i + 2]
     /\ \A k \in 1..stream[i + 2] : data[g[i] + k] = stream[i + 3]

Track(stream, data, g, r, w) ==
  /\ r \in Nat /\ w \in Nat /\ {0, r} \subseteq DOMAIN g /\ DOMAIN g \subseteq 0..r
  /\ g \in [DOMAIN g -> 0..w] /\ g[0] = 0 /\ g[r] = w
  /\ \A i \in DOMAIN g : i < r => Token(stream, data, g, i)

LEMMA TrackStart == \A stream, data : Track(stream, data, [i \in {0} |-> 0], 0, 0)
BY DEF Track

\* The stream goes on with a packed run.
LEMMA TrackGrows ==
  ASSUME NEW stream, NEW data, NEW g, NEW r, NEW w, Track(stream, data, g, r, w),
         NEW b \in Bytes, NEW n \in 1..RunLimit, NEW longer,
         \A k \in 1..n : data[w + k] = b,
         \A k \in 1..r : longer[k] = stream[k],
         \A k \in 1..Len(PackedRun(b, n)) : longer[r + k] = PackedRun(b, n)[k]
  PROVE  \E u : Track(longer, data, u, r + Len(PackedRun(b, n)), w + n)
<1>0. r \in Nat /\ w \in Nat /\ n \in Nat /\ n > 0
  BY WidthAssumption DEF Track, RunLimit
<1>1. /\ {0, r} \subseteq DOMAIN g /\ DOMAIN g \subseteq 0..r
      /\ g \in [DOMAIN g -> 0..w] /\ g[0] = 0 /\ g[r] = w
      /\ \A i \in DOMAIN g : i < r => Token(stream, data, g, i)
  BY DEF Track
<1>2. \A i \in DOMAIN g : i < r => Token(longer, data, g, i)
  <2> SUFFICES ASSUME NEW i \in DOMAIN g, i < r PROVE Token(longer, data, g, i)
    OBVIOUS
  <2>1. Token(stream, data, g, i) /\ i \in Nat
    BY <1>0, <1>1
  <2>2. CASE stream[i + 1] # Marker
    <3>1. longer[i + 1] = stream[i + 1]
      BY <1>0, <1>1, <2>1
    <3> QED
      BY <2>1, <2>2, <3>1 DEF Token
  <2>3. CASE stream[i + 1] = Marker
    <3>1. i + 3 \in 1..r
      BY <1>0, <1>1, <2>1, <2>3 DEF Token
    <3>2. /\ longer[i + 1] = stream[i + 1] /\ longer[i + 2] = stream[i + 2]
          /\ longer[i + 3] = stream[i + 3]
      BY <1>0, <2>1, <3>1
    <3> QED
      BY <2>1, <2>3, <3>2 DEF Token
  <2> QED
    BY <2>2, <2>3
<1>3. CASE /\ b # Marker /\ PackedRun(b, n) = [k \in 1..n |-> b]
           /\ Len(PackedRun(b, n)) = n
  <2> DEFINE u == [i \in DOMAIN g \union (r + 1..r + n) |-> IF i <= r THEN g[i] ELSE w + (i - r)]
  <2>1. /\ DOMAIN u = DOMAIN g \union (r + 1..r + n)
        /\ \A i \in DOMAIN g : u[i] = g[i]
        /\ \A k \in 1..n : r + k \in DOMAIN u /\ u[r + k] = w + k
    BY <1>0, <1>1
  <2>2. u \in [DOMAIN u -> 0..w + n]
    BY <1>0, <1>1
  <2> HIDE DEF u
  <2>3. \A i \in DOMAIN u : i < r + n => Token(longer, data, u, i)
    <3> SUFFICES ASSUME NEW i \in DOMAIN u, i < r + n PROVE Token(longer, data, u, i)
      OBVIOUS
    <3>1. CASE i < r
      <4>1. i \in DOMAIN g
        BY <1>0, <1>1, <2>1, <3>1
      <4> QED
        BY <1>2, <2>1, <3>1, <4>1 DEF Token
    <3>2. CASE i >= r
      <4>0. i \in Nat
        BY <1>0, <1>1, <2>1
      <4>1. PICK k \in 1..n : i + 1 = r + k /\ i = r + (k - 1)
        <5>1. i - r + 1 \in 1..n
          BY <1>0, <3>2, <4>0
        <5>2. i + 1 = r + (i - r + 1) /\ i = r + ((i - r + 1) - 1)
          BY <1>0, <4>0
        <5> QED
          BY <5>1, <5>2
      <4>2. u[i] = w + (k - 1)
        <5>1. CASE k = 1
          BY <1>0, <1>1, <2>1, <4>1, <5>1
        <5>2. CASE k > 1
          BY <1>0, <2>1, <4>1, <5>2
        <5> QED
          BY <1>0, <4>1, <5>1, <5>2
      <4>3. i + 1 \in DOMAIN u /\ u[i + 1] = u[i] + 1 /\ u[i] + 1 = w + k
        BY <1>0, <2>1, <4>1, <4>2
      <4>4. longer[i + 1] = b /\ data[w + k] = b
        BY <1>3, <4>1
      <4> QED
        BY <1>3, <4>3, <4>4 DEF Token
    <3> QED
      BY <1>0, <1>1, <2>1, <3>1, <3>2
  <2>4. {0, r + n} \subseteq DOMAIN u /\ DOMAIN u \subseteq 0..r + n /\ u[0] = 0 /\ u[r + n] = w + n
    BY <1>0, <1>1, <2>1
  <2>5. Track(longer, data, u, r + n, w + n)
    BY <1>0, <2>2, <2>3, <2>4 DEF Track
  <2> QED
    BY <1>3, <2>5
<1>4. CASE PackedRun(b, n) = <<Marker, n, b>> /\ Len(PackedRun(b, n)) = 3
  <2> DEFINE u == [i \in DOMAIN g \union {r + 3} |-> IF i <= r THEN g[i] ELSE w + n]
  <2>1. /\ DOMAIN u = DOMAIN g \union {r + 3} /\ u[r + 3] = w + n
        /\ \A i \in DOMAIN g : u[i] = g[i]
    BY <1>0, <1>1
  <2>2. u \in [DOMAIN u -> 0..w + n]
    BY <1>0, <1>1
  <2>3. longer[r + 1] = Marker /\ longer[r + 2] = n /\ longer[r + 3] = b
    BY <1>4
  <2> HIDE DEF u
  <2>4. \A i \in DOMAIN u : i < r + 3 => Token(longer, data, u, i)
    <3> SUFFICES ASSUME NEW i \in DOMAIN u, i < r + 3 PROVE Token(longer, data, u, i)
      OBVIOUS
    <3>1. CASE i < r
      <4>1. i \in DOMAIN g
        BY <1>0, <1>1, <2>1, <3>1
      <4> QED
        BY <1>2, <2>1, <3>1, <4>1 DEF Token
    <3>2. CASE i = r
      BY <1>0, <1>1, <2>1, <2>3, <3>2 DEF Token
    <3> QED
      BY <1>0, <1>1, <2>1, <3>1, <3>2
  <2>5. {0, r + 3} \subseteq DOMAIN u /\ DOMAIN u \subseteq 0..r + 3 /\ u[0] = 0
    BY <1>0, <1>1, <2>1
  <2>6. Track(longer, data, u, r + 3, w + n)
    BY <1>0, <2>1, <2>2, <2>4, <2>5 DEF Track
  <2> QED
    BY <1>4, <2>6
<1> QED
  BY <1>3, <1>4, PackedRunIs

\* What begins in the stream before its end gives at least one byte of data.
LEMMA TrackStep ==
  ASSUME NEW stream, NEW data, NEW g, NEW r, NEW w, Track(stream, data, g, r, w),
         NEW i \in DOMAIN g
  PROVE  /\ i \in 0..r /\ g[i] \in 0..w
         /\ i < r => Token(stream, data, g, i) /\ g[i] < w
         /\ i = r => g[i] = w
<1>1. CASE i < r
  <2>1. Token(stream, data, g, i) /\ i \in 0..r /\ g[i] \in 0..w /\ \A j \in DOMAIN g : g[j] \in 0..w
    BY <1>1 DEF Track
  <2>2. g[i] < w
    BY <2>1, WidthAssumption DEF Token, Track, RunLimit
  <2> QED
    BY <1>1, <2>1, <2>2
<1>2. CASE i >= r
  BY <1>2 DEF Track
<1> QED
  BY <1>1, <1>2 DEF Track

-----------------------------------------------------------------------------
(* Packing and unpacking.                                                  *)

DeltaMem ==
  [src : Seq(Bytes), read : Nat, wrote : Nat, out : Seq(Bytes \union {Unset}),
   need : Nat \union {Unset}, from : {"pack", "anywhere", "cut"}, corrupt : BOOLEAN]

DeltaTypeOK ==
  /\ pc \in {"pack", "packed", "unpack", "exited"}
  /\ world \in Seq(Bytes) /\ mem \in DeltaMem
  /\ mem.read <= Len(mem.src)
  /\ Len(mem.out) = IF Measured THEN mem.need ELSE 0

\* What a round at place i reads and counts.
PackReads(s) == [i \in 0..Len(s) - 1 |-> Run(SubSeq(s, i + 1, Len(s)))]
PackCounts(s) == [i \in 0..Len(s) - 1 |-> Len(PackedRun(s[i + 1], PackReads(s)[i]))]
UnpackReads(s) == [i \in 0..Len(s) - 1 |-> IF s[i + 1] = Marker THEN 3 ELSE 1]
UnpackCounts(s) == [i \in 0..Len(s) - 1 |-> IF s[i + 1] = Marker THEN s[i + 2] ELSE 1]

\* The first call makes a trail; the second one has a whole trail and is on it.
OnTrail(reads, counts) ==
  IF Measured
  THEN \E t : /\ Trail(t, reads, counts, Len(mem.src), mem.need)
              /\ mem.read \in DOMAIN t /\ t[mem.read] = mem.wrote
  ELSE \E t : Trail(t, reads, counts, mem.read, mem.wrote)

\* The buffer of the second call is filled as far as it has counted.
Filled == Measured => mem.wrote <= mem.need /\ \A k \in 1..mem.wrote : mem.out[k] \in Bytes

PackInv ==
  /\ pc \in {"pack", "packed"} => mem.src = world /\ mem.from = "pack"
  /\ pc = "pack" => OnTrail(PackReads(world), PackCounts(world))
  /\ pc = "packed" => Measured /\ mem.wrote = mem.need /\ mem.read = Len(world)
  /\ pc \in {"pack", "packed"} /\ Measured => \E g : Track(mem.out, world, g, mem.wrote, mem.read)

\* A run cut off ends the call with 0 bytes.
Broken == ~Measured /\ mem.src # <<>> /\ mem.read = Len(mem.src) /\ mem.wrote = 0

UnpackInv == pc = "unpack" =>
  /\ Broken \/ OnTrail(UnpackReads(mem.src), UnpackCounts(mem.src))
  /\ Measured /\ mem.src # <<>> => mem.need > 0

\* What is unpacked is the stream that was packed, or its beginning, and has
\* given the data as far as it has been read.
Shipped(stream, g) ==
  /\ Track(stream, world, g, Len(stream), Len(world))
  /\ Len(mem.src) <= Len(stream) /\ \A k \in 1..Len(mem.src) : mem.src[k] = stream[k]
  /\ mem.from = "pack" => Len(mem.src) = Len(stream)
  /\ mem.from = "cut" => Len(mem.src) < Len(stream)
  /\ \/ mem.from = "cut" /\ Broken
     \/ mem.read \in DOMAIN g /\ g[mem.read] = mem.wrote

ShippedInv == pc = "unpack" /\ mem.from # "anywhere" =>
  /\ \E stream, g : stream \in Seq(Bytes) /\ Shipped(stream, g)
  /\ Measured => \A k \in 1..mem.wrote : mem.out[k] = world[k]

DeltaInv == program = "delta" =>
  /\ DeltaTypeOK
  /\ pc # "exited" => ~mem.corrupt /\ Filled
  /\ PackInv /\ UnpackInv /\ ShippedInv
  /\ StreamsUnpack

LEMMA EmptyIsSeq == \A S : <<>> \in Seq(S) /\ Len(<<>>) = 0
BY EmptySeq

LEMMA DeltaInitInv == DeltaInit => DeltaInv
<1> SUFFICES ASSUME DeltaInit PROVE DeltaInv
  OBVIOUS
<1>0. world \in Seq(Bytes) /\ Len(world) \in Nat
  BY InputsAssumption, LenProperties DEF DeltaInit, Bytes
<1>1. /\ mem \in DeltaMem /\ mem.read = 0 /\ mem.wrote = 0 /\ mem.out = <<>> /\ mem.need = Unset
      /\ mem.src = world /\ mem.corrupt = FALSE /\ mem.from = IF pc = "pack" THEN "pack" ELSE "anywhere"
      /\ pc \in {"pack", "unpack"}
  <2>1. PICK from \in {"pack", "anywhere"} :
          /\ from = IF pc = "pack" THEN "pack" ELSE "anywhere"
          /\ mem = [src |-> world, read |-> 0, wrote |-> 0, out |-> <<>>, need |-> Unset,
                    from |-> from, corrupt |-> FALSE]
    BY DEF DeltaInit
  <2>2. <<>> \in Seq(Bytes \union {Unset})
    BY EmptyIsSeq
  <2>3. mem \in DeltaMem
    BY <1>0, <2>1, <2>2 DEF DeltaMem
  <2> QED
    BY <2>1, <2>3 DEF DeltaInit
<1>2. DeltaTypeOK /\ ~Measured
  BY <1>0, <1>1, EmptyIsSeq DEF DeltaTypeOK, Measured
<1>3. \A reads, counts : OnTrail(reads, counts)
  BY <1>1, <1>2, TrailStart DEF OnTrail
<1>4. PackInv /\ UnpackInv /\ ShippedInv /\ Filled
  BY <1>1, <1>2, <1>3 DEF PackInv, UnpackInv, ShippedInv, Filled
<1>5. StreamsUnpack
  BY <1>1, <1>2 DEF StreamsUnpack, PackedUnpacks, CutStreamsDetected, MeasuredIsWritten, Delta, At
<1> QED
  BY <1>1, <1>2, <1>4, <1>5 DEF DeltaInv

\* What a round, and the start of a call, leave in the fields.
LEMMA TakesFields ==
  ASSUME DeltaTypeOK, NEW n \in Nat, NEW chunk \in Seq(Bytes),
         NEW out \in Seq(Bytes \union {Unset}), Len(out) = Len(mem.out),
         mem.read + n <= Len(mem.src), Takes(n, chunk, out)
  PROVE  /\ UNCHANGED <<program, pc, world, Measured>>
         /\ mem'.src = mem.src /\ mem'.read = mem.read + n /\ mem'.wrote = mem.wrote + Len(chunk)
         /\ mem'.out = out /\ mem'.need = mem.need /\ mem'.from = mem.from
         /\ mem'.corrupt = mem.corrupt
         /\ DeltaTypeOK'
<1>0. Len(chunk) \in Nat
  BY LenProperties
<1>1. mem' = [mem EXCEPT !.read = mem.read + n, !.wrote = mem.wrote + Len(chunk), !.out = out]
  BY DEF Takes, Becomes, Counted
<1>2. /\ mem' \in DeltaMem
      /\ mem'.src = mem.src /\ mem'.read = mem.read + n /\ mem'.wrote = mem.wrote + Len(chunk)
      /\ mem'.out = out /\ mem'.need = mem.need /\ mem'.from = mem.from
      /\ mem'.corrupt = mem.corrupt
  <2> DEFINE r == mem.read + n
             w == mem.wrote + Len(chunk)
  <2>1. mem \in DeltaMem /\ r \in Nat /\ w \in Nat
    BY <1>0 DEF DeltaTypeOK, DeltaMem
  <2>2. mem' = [mem EXCEPT !.read = r, !.wrote = w, !.out = out]
    BY <1>1
  <2> HIDE DEF r, w
  <2>3. /\ mem' \in DeltaMem
        /\ mem'.src = mem.src /\ mem'.read = r /\ mem'.wrote = w
        /\ mem'.out = out /\ mem'.need = mem.need /\ mem'.from = mem.from
        /\ mem'.corrupt = mem.corrupt
    BY <2>1, <2>2 DEF DeltaMem
  <2> QED
    BY <2>3 DEF r, w
<1> QED
  BY <1>2 DEF DeltaTypeOK, Measured, Takes, Becomes

LEMMA CallFields ==
  ASSUME DeltaTypeOK, ~Measured, NEW label \in {"pack", "unpack"},
         Call(label, mem.src, mem.wrote, mem.wrote)
  PROVE  /\ UNCHANGED <<program, world>> /\ pc' = label /\ Measured'
         /\ mem'.src = mem.src /\ mem'.read = 0 /\ mem'.wrote = 0
         /\ mem'.need = mem.wrote /\ mem'.from = mem.from /\ mem'.corrupt = mem.corrupt
         /\ DeltaTypeOK'
<1> DEFINE out == [k \in 1..mem.wrote |-> Unset]
<1>0. mem.wrote \in Nat /\ mem \in DeltaMem /\ Len(mem.src) \in Nat
  BY LenProperties DEF DeltaTypeOK, DeltaMem
<1>1. out \in Seq(Bytes \union {Unset}) /\ Len(out) = mem.wrote
  BY <1>0
<1>2. mem' = [mem EXCEPT !.src = mem.src, !.read = 0, !.wrote = 0, !.need = mem.wrote, !.out = out]
  BY DEF Call, Becomes
<1> HIDE DEF out
<1>3. /\ mem' \in DeltaMem
      /\ mem'.src = mem.src /\ mem'.read = 0 /\ mem'.wrote = 0 /\ mem'.out = out
      /\ mem'.need = mem.wrote /\ mem'.from = mem.from /\ mem'.corrupt = mem.corrupt
  BY <1>0, <1>1, <1>2 DEF DeltaMem
<1>4. Measured'
  BY <1>0, <1>3 DEF Measured, Unset
<1> QED
  BY <1>0, <1>1, <1>3, <1>4 DEF DeltaTypeOK, Call, Becomes

\* A round of packing, as the trail counts it.
LEMMA PackRoundIs ==
  ASSUME NEW s \in Seq(Bytes), NEW i \in 0..Len(s), i # Len(s)
  PROVE  LET rest == SubSeq(s, i + 1, Len(s))
             n == Run(rest)
             chunk == PackedRun(rest[1], n)
         IN  /\ n = PackReads(s)[i] /\ Len(chunk) = PackCounts(s)[i]
             /\ n \in 1..RunLimit /\ n \in Nat /\ i + n <= Len(s)
             /\ rest[1] \in Bytes /\ \A k \in 1..n : s[i + k] = rest[1]
             /\ chunk \in Seq(Bytes) /\ Len(chunk) \in Nat
<1> DEFINE rest == SubSeq(s, i + 1, Len(s))
           n == Run(rest)
           chunk == PackedRun(rest[1], n)
<1>0. Len(s) \in Nat /\ i \in 0..Len(s) - 1
  BY LenProperties
<1>1. /\ rest \in Seq(Bytes) /\ Len(rest) = Len(s) - i /\ rest # <<>>
      /\ \A k \in 1..Len(s) - i : rest[k] = s[i + k]
  <2>1. /\ rest \in Seq(Bytes) /\ Len(rest) = Len(s) - i
        /\ \A k \in 1..Len(s) - i : rest[k] = s[i + k]
    BY RestIs
  <2>2. Len(rest) # 0 /\ Len(<<>>) = 0
    BY <1>0, <2>1
  <2> QED
    BY <2>1, <2>2
<1>2. rest[1] \in Bytes /\ rest[1] = s[i + 1]
  <2>1. 1 \in 1..Len(s) - i /\ 1 \in 1..Len(rest)
    BY <1>0, <1>1
  <2> QED
    BY <1>1, <2>1, ElementOfSeq
<1>3. n = PackReads(s)[i] /\ Len(chunk) = PackCounts(s)[i]
  BY <1>0, <1>2 DEF PackReads, PackCounts
<1> HIDE DEF rest
<1>4. n \in 1..Len(s) - i /\ n <= RunLimit /\ \A k \in 1..n : rest[k] = rest[1]
  BY <1>1, RunIs
<1> HIDE DEF n
<1>5. n \in 1..RunLimit /\ n \in Nat /\ i + n <= Len(s)
  BY <1>0, <1>4, WidthAssumption DEF RunLimit
<1>6. \A k \in 1..n : s[i + k] = rest[1]
  BY <1>0, <1>1, <1>4
<1>7. chunk \in Seq(Bytes) /\ Len(chunk) \in Nat
  BY <1>2, <1>5, PackedRunIs, LenProperties
<1> QED
  BY <1>2, <1>3, <1>5, <1>6, <1>7 DEF rest, n

\* A round keeps the call on its trail.
LEMMA OnTrailGrows ==
  ASSUME DeltaTypeOK, NEW reads, NEW counts, OnTrail(reads, counts),
         mem.read # Len(mem.src),
         reads[mem.read] \in Nat, reads[mem.read] > 0, counts[mem.read] \in Nat,
         UNCHANGED Measured, mem'.src = mem.src, mem'.need = mem.need,
         mem'.read = mem.read + reads[mem.read], mem'.wrote = mem.wrote + counts[mem.read]
  PROVE  /\ OnTrail(reads, counts)'
         /\ Measured => mem'.wrote <= mem.need /\ mem'.read <= Len(mem.src)
<1>0. Len(mem.src) \in Nat /\ mem.read \in Nat /\ mem.read < Len(mem.src)
  BY LenProperties DEF DeltaTypeOK, DeltaMem
<1>1. CASE ~Measured
  <2>1. PICK t : Trail(t, reads, counts, mem.read, mem.wrote)
    BY <1>1 DEF OnTrail
  <2>2. \E u : Trail(u, reads, counts, mem.read + reads[mem.read], mem.wrote + counts[mem.read])
    BY <2>1, TrailGrows
  <2> QED
    BY <1>1, <2>2 DEF OnTrail
<1>2. CASE Measured
  <2>1. PICK t : /\ Trail(t, reads, counts, Len(mem.src), mem.need)
                 /\ mem.read \in DOMAIN t /\ t[mem.read] = mem.wrote
    BY <1>2 DEF OnTrail
  <2> DEFINE i == mem.read
  <2>2. /\ i + reads[i] \in DOMAIN t /\ i + reads[i] <= Len(mem.src)
        /\ t[i + reads[i]] = t[i] + counts[i] /\ t[i] + counts[i] <= mem.need
    BY <1>0, <2>1, TrailStep
  <2> QED
    BY <1>2, <2>1, <2>2 DEF OnTrail
<1> QED
  BY <1>1, <1>2

\* Storing a round's bytes keeps the buffer filled.
LEMMA StillFilled ==
  ASSUME DeltaTypeOK, Filled, Measured, UNCHANGED Measured, NEW chunk \in Seq(Bytes),
         mem'.wrote = mem.wrote + Len(chunk), mem'.wrote <= mem.need, mem'.need = mem.need,
         mem'.out = Stored(chunk)
  PROVE  /\ Filled'
         /\ \A k \in 1..mem.wrote : mem'.out[k] = mem.out[k]
         /\ \A k \in 1..Len(chunk) : mem'.out[mem.wrote + k] = chunk[k]
<1> DEFINE w == mem.wrote
           c == Len(chunk)
           N == Len(mem.out)
<1>0. w \in Nat /\ c \in Nat /\ N \in Nat /\ N = mem.need /\ mem.out \in Seq(Bytes \union {Unset})
  BY LenProperties DEF DeltaTypeOK, DeltaMem
<1>1. /\ \A k \in 1..N : k <= w => Stored(chunk)[k] = mem.out[k]
      /\ \A k \in 1..c : w + k <= N => Stored(chunk)[w + k] = chunk[k]
  BY <1>0, StoredIs
<1>2. w + c <= N /\ mem'.wrote = w + c
  BY <1>0
<1>3. \A k \in 1..c : chunk[k] \in Bytes
  BY ElementOfSeq
<1>4. \A k \in 1..w : mem.out[k] \in Bytes
  BY DEF Filled
<1>5. mem'.out = Stored(chunk)
  OBVIOUS
<1> HIDE DEF w, c, N
<1>6. \A k \in 1..w : mem'.out[k] = mem.out[k]
  BY <1>0, <1>1, <1>2, <1>5
<1>7. \A k \in 1..c : mem'.out[w + k] = chunk[k]
  BY <1>0, <1>1, <1>2, <1>5
<1>8. \A k \in 1..w + c : mem'.out[k] \in Bytes
  <2> TAKE k \in 1..w + c
  <2>1. CASE k <= w
    BY <1>0, <1>4, <1>6, <2>1
  <2>2. CASE k > w
    <3>1. k - w \in 1..c /\ w + (k - w) = k
      BY <1>0, <2>2
    <3> QED
      BY <1>3, <1>7, <3>1
  <2> QED
    BY <1>0, <2>1, <2>2
<1> QED
  BY <1>2, <1>6, <1>7, <1>8 DEF Filled, w, c

LEMMA PackRunInv ==
  ASSUME DeltaInv, PackRun
  PROVE  DeltaInv'
<1> DEFINE s == mem.src
           i == mem.read
           n == Run(Rest)
           chunk == PackedRun(Rest[1], n)
           out == IF chunk[1] = Marker /\ Counted(chunk) > Len(mem.out) THEN mem.out
                  ELSE Stored(chunk)
<1>0. /\ program = "delta" /\ pc = "pack" /\ i # Len(s) /\ Takes(n, chunk, out)
      /\ DeltaTypeOK /\ ~mem.corrupt /\ Filled /\ s = world /\ mem.from = "pack"
      /\ OnTrail(PackReads(s), PackCounts(s))
      /\ Measured => \E g : Track(mem.out, world, g, mem.wrote, i)
  BY DEF PackRun, Delta, At, AllRead, DeltaInv, PackInv
<1>1. /\ s \in Seq(Bytes) /\ Len(s) \in Nat /\ i \in 0..Len(s) /\ mem.wrote \in Nat
      /\ mem.out \in Seq(Bytes \union {Unset})
      /\ Len(mem.out) = IF Measured THEN mem.need ELSE 0
  BY <1>0, LenProperties DEF DeltaTypeOK, DeltaMem
<1>2. /\ n = PackReads(s)[i] /\ Len(chunk) = PackCounts(s)[i]
      /\ n \in 1..RunLimit /\ n \in Nat /\ i + n <= Len(s)
      /\ Rest[1] \in Bytes /\ \A k \in 1..n : s[i + k] = Rest[1]
      /\ chunk \in Seq(Bytes) /\ Len(chunk) \in Nat
  BY <1>0, <1>1, PackRoundIs DEF Rest
<1>3. out \in Seq(Bytes \union {Unset}) /\ Len(out) = Len(mem.out)
  BY <1>1, <1>2, StoredIs
<1> HIDE DEF n, chunk, out
<1>4. /\ UNCHANGED <<program, pc, world, Measured>>
      /\ mem'.src = s /\ mem'.read = i + n /\ mem'.wrote = mem.wrote + Len(chunk)
      /\ mem'.out = out /\ mem'.need = mem.need /\ mem'.from = mem.from
      /\ mem'.corrupt = mem.corrupt /\ DeltaTypeOK'
  BY <1>0, <1>2, <1>3, TakesFields
<1>5. /\ OnTrail(PackReads(s), PackCounts(s))'
      /\ Measured => mem'.wrote <= mem.need
  <2> DEFINE reads == PackReads(s)
             counts == PackCounts(s)
  <2>1. reads[i] \in Nat /\ reads[i] > 0 /\ counts[i] \in Nat
    BY <1>2
  <2>2. mem'.read = i + reads[i] /\ mem'.wrote = mem.wrote + counts[i]
    BY <1>2, <1>4
  <2>3. OnTrail(reads, counts)
    BY <1>0
  <2>4. reads' = reads /\ counts' = counts
    BY <1>4
  <2> HIDE DEF reads, counts
  <2>5. OnTrail(reads, counts)' /\ (Measured => mem'.wrote <= mem.need)
    BY <1>0, <1>4, <2>1, <2>2, <2>3, <2>4, OnTrailGrows
  <2> QED
    BY <2>5 DEF reads, counts
<1>6. ASSUME Measured
      PROVE  /\ Filled'
             /\ \E u : Track(mem'.out, world, u, mem'.wrote, mem'.read)
  <2>1. out = Stored(chunk)
    BY <1>1, <1>2, <1>4, <1>5, <1>6 DEF out, Counted
  <2>2. /\ Filled'
        /\ \A k \in 1..mem.wrote : mem'.out[k] = mem.out[k]
        /\ \A k \in 1..Len(chunk) : mem'.out[mem.wrote + k] = chunk[k]
    BY <1>0, <1>2, <1>4, <1>5, <1>6, <2>1, StillFilled
  <2>3. PICK g : Track(mem.out, world, g, mem.wrote, i)
    BY <1>0, <1>6
  <2> DEFINE b == Rest[1]
             longer == mem'.out
             w == mem.wrote
             stream == mem.out
  <2>4. /\ b \in Bytes /\ n \in 1..RunLimit /\ chunk = PackedRun(b, n)
        /\ \A k \in 1..n : world[i + k] = b
        /\ \A k \in 1..w : longer[k] = stream[k]
        /\ \A k \in 1..Len(chunk) : longer[w + k] = chunk[k]
        /\ Track(stream, world, g, w, i)
    BY <1>0, <1>2, <2>2, <2>3 DEF chunk
  <2> HIDE DEF b, longer, w, stream, i
  <2>5. \E u : Track(longer, world, u, w + Len(PackedRun(b, n)), i + n)
    BY <2>4, TrackGrows
  <2> QED
    BY <1>4, <2>2, <2>4, <2>5 DEF longer, w
<1>7. Filled'
  BY <1>4, <1>6 DEF Filled
<1>8. PackInv'
  BY <1>0, <1>4, <1>5, <1>6 DEF PackInv
<1>9. StreamsUnpack'
  BY <1>0, <1>4, <1>5 DEF StreamsUnpack, PackedUnpacks, CutStreamsDetected, MeasuredIsWritten,
     Delta, At
<1> QED
  BY <1>0, <1>4, <1>7, <1>8, <1>9 DEF DeltaInv, UnpackInv, ShippedInv

LEMMA EndPackInv ==
  ASSUME DeltaInv, EndPack
  PROVE  DeltaInv'
<1>0. /\ program = "delta" /\ pc = "pack" /\ mem.read = Len(mem.src) /\ mem.src = world
      /\ DeltaTypeOK /\ ~mem.corrupt /\ Filled /\ mem.from = "pack"
      /\ OnTrail(PackReads(world), PackCounts(world))
      /\ Measured => \E g : Track(mem.out, world, g, mem.wrote, mem.read)
  BY DEF EndPack, Delta, At, AllRead, DeltaInv, PackInv
<1>1. CASE ~Measured /\ Call("pack", mem.src, mem.wrote, mem.wrote)
  <2>1. /\ UNCHANGED <<program, world>> /\ pc' = "pack" /\ Measured'
        /\ mem'.src = mem.src /\ mem'.read = 0 /\ mem'.wrote = 0
        /\ mem'.need = mem.wrote /\ mem'.from = mem.from /\ mem'.corrupt = mem.corrupt
        /\ DeltaTypeOK'
    BY <1>0, <1>1, CallFields
  <2>2. PICK t : Trail(t, PackReads(world), PackCounts(world), Len(mem.src), mem.wrote)
    BY <1>0, <1>1 DEF OnTrail
  <2>3. 0 \in DOMAIN t /\ t[0] = 0 /\ mem.wrote \in Nat
    BY <2>2 DEF Trail
  <2>4. OnTrail(PackReads(world), PackCounts(world))'
    BY <2>1, <2>2, <2>3 DEF OnTrail
  <2>5. PackInv'
    BY <1>0, <2>1, <2>4, TrackStart DEF PackInv
  <2>6. Filled' /\ StreamsUnpack'
    BY <1>0, <2>1, <2>3 DEF Filled, StreamsUnpack, PackedUnpacks, CutStreamsDetected,
       MeasuredIsWritten, Delta, At
  <2> QED
    BY <1>0, <2>1, <2>5, <2>6 DEF DeltaInv, UnpackInv, ShippedInv
<1>2. CASE Measured /\ Becomes("packed", mem)
  <2>1. UNCHANGED <<program, world, mem>> /\ pc' = "packed"
    BY <1>2 DEF Becomes
  <2>2. DeltaTypeOK' /\ UNCHANGED Measured /\ Filled'
    BY <1>0, <2>1 DEF DeltaTypeOK, Measured, Filled
  <2>3. mem.wrote = mem.need
    BY <1>0, <1>2, TrailStep DEF OnTrail
  <2>4. PackInv'
    BY <1>0, <1>2, <2>1, <2>2, <2>3 DEF PackInv
  <2>5. mem.need \in Nat /\ Len(mem.out) = mem.need /\ \A k \in 1..mem.need : mem.out[k] \in Bytes
        /\ DOMAIN mem.out = 1..mem.need
    <3>1. mem.out \in Seq(Bytes \union {Unset}) /\ Len(mem.out) = mem.need
      BY <1>0, <1>2 DEF DeltaTypeOK, DeltaMem
    <3> QED
      BY <1>0, <1>2, <2>3, <3>1, LenProperties DEF Filled
  <2>6. StreamsUnpack'
    BY <1>0, <1>2, <2>1, <2>3, <2>5 DEF StreamsUnpack, PackedUnpacks, CutStreamsDetected,
       MeasuredIsWritten, Delta, At, Bytes, Unset
  <2> QED
    BY <1>0, <2>1, <2>2, <2>4, <2>6 DEF DeltaInv, UnpackInv, ShippedInv
<1> QED
  BY <1>1, <1>2 DEF EndPack

\* A stream is shipped whole or cut, and a new call begins on it.
LEMMA ShipInv ==
  ASSUME DeltaInv, Ship
  PROVE  DeltaInv'
<1>0. /\ program = "delta" /\ pc = "packed" /\ DeltaTypeOK /\ Filled /\ Measured
      /\ mem.wrote = mem.need /\ mem.read = Len(world)
      /\ UNCHANGED <<program, world>> /\ pc' = "unpack"
  BY DEF Ship, Delta, At, DeltaInv, PackInv
<1>1. PICK g : Track(mem.out, world, g, mem.wrote, Len(world))
  BY <1>0 DEF DeltaInv, PackInv
<1>a. PICK stream : stream = mem.out
  OBVIOUS
<1>b. PICK N : N = mem.wrote
  OBVIOUS
<1>2. /\ N \in Nat /\ Len(stream) = N /\ stream \in Seq(Bytes \union {Unset})
      /\ \A k \in 1..N : stream[k] \in Bytes
  BY <1>0, <1>a, <1>b DEF DeltaTypeOK, DeltaMem, Filled
<1>3. stream \in Seq(Bytes)
  <2>1. stream \in [1..N -> Bytes \union {Unset}]
    BY <1>2, LenProperties
  <2>2. stream \in [1..N -> Bytes]
    BY <1>2, <2>1
  <2> QED
    BY <1>2, <2>2, SeqDef
<1>4. PICK n \in 0..N :
        mem' = [src |-> SubSeq(stream, 1, n), read |-> 0, wrote |-> 0, out |-> <<>>, need |-> Unset,
                from |-> IF n = N THEN "pack" ELSE "cut", corrupt |-> FALSE]
  BY <1>0, <1>a, <1>b DEF Ship
<1> DEFINE src == SubSeq(stream, 1, n)
<1>5. src \in Seq(Bytes) /\ Len(src) = n /\ \A k \in 1..n : src[k] = stream[k]
  <2>1. 1 \in Int /\ n \in Int /\ n \in Nat /\ \A k \in 1..n : stream[k] \in Bytes
    BY <1>2
  <2>2. /\ src \in Seq(Bytes) /\ Len(src) = IF 1 <= n THEN n - 1 + 1 ELSE 0
        /\ \A k \in 1..n - 1 + 1 : src[k] = stream[1 + k - 1]
    BY <2>1, SubSeqProperties
  <2> HIDE DEF src
  <2> QED
    BY <2>1, <2>2
<1> DEFINE from == IF n = N THEN "pack" ELSE "cut"
<1>6. /\ mem'.src = src /\ mem'.read = 0 /\ mem'.wrote = 0 /\ mem'.out = <<>> /\ mem'.need = Unset
      /\ mem'.from = from /\ mem'.corrupt = FALSE /\ mem' \in DeltaMem
  <2>1. <<>> \in Seq(Bytes \union {Unset})
    BY EmptyIsSeq
  <2>2. from \in {"pack", "cut"}
    OBVIOUS
  <2>3. mem' = [src |-> src, read |-> 0, wrote |-> 0, out |-> <<>>, need |-> Unset,
                from |-> from, corrupt |-> FALSE]
    BY <1>4
  <2> HIDE DEF src, from
  <2> QED
    BY <1>5, <2>1, <2>2, <2>3 DEF DeltaMem
<1> HIDE DEF src
<1>7. DeltaTypeOK' /\ ~Measured'
  BY <1>0, <1>2, <1>5, <1>6, EmptyIsSeq DEF DeltaTypeOK, Measured
<1>8. UnpackInv'
  BY <1>6, <1>7, TrailStart DEF UnpackInv, OnTrail
<1>9. ShippedInv'
  <2>1. Shipped(stream, g)'
    <3>1. 0 \in DOMAIN g /\ g[0] = 0
      BY <1>1 DEF Track
    <3>2. Track(stream, world, g, Len(stream), Len(world))
      BY <1>1, <1>2, <1>a, <1>b
    <3> SUFFICES /\ Track(stream, world', g, Len(stream), Len(world'))
                 /\ Len(mem'.src) <= Len(stream)
                 /\ \A k \in 1..Len(mem'.src) : mem'.src[k] = stream[k]
                 /\ mem'.from = "pack" => Len(mem'.src) = Len(stream)
                 /\ mem'.from = "cut" => Len(mem'.src) < Len(stream)
                 /\ mem'.read \in DOMAIN g /\ g[mem'.read] = mem'.wrote
      BY DEF Shipped
    <3> QED
      BY <1>0, <1>2, <1>5, <1>6, <3>1, <3>2
  <2> QED
    BY <1>3, <1>7, <2>1 DEF ShippedInv
<1>10. Filled' /\ StreamsUnpack' /\ PackInv'
  BY <1>0, <1>7 DEF Filled, StreamsUnpack, PackedUnpacks, CutStreamsDetected, MeasuredIsWritten,
     Delta, At, PackInv
<1> QED
  BY <1>0, <1>6, <1>7, <1>8, <1>9, <1>10 DEF DeltaInv

\* A round of unpacking that finds what it needs.
LEMMA UnpackRoundInv ==
  ASSUME DeltaInv, Delta("unpack"), mem.read # Len(mem.src),
         NEW chunk \in Seq(Bytes), NEW n \in {1, 3},
         n = UnpackReads(mem.src)[mem.read], Len(chunk) = UnpackCounts(mem.src)[mem.read],
         mem.read + n <= Len(mem.src),
         n = 1 => mem.src[mem.read + 1] # Marker /\ chunk[1] = mem.src[mem.read + 1] /\ Len(chunk) = 1,
         n = 3 => /\ mem.src[mem.read + 1] = Marker /\ Len(chunk) = mem.src[mem.read + 2]
                  /\ \A k \in 1..Len(chunk) : chunk[k] = mem.src[mem.read + 3],
         Takes(n, chunk, Stored(chunk))
  PROVE  DeltaInv'
<1> DEFINE s == mem.src
           i == mem.read
           c == Len(chunk)
           reads == UnpackReads(s)
           counts == UnpackCounts(s)
<1>0. /\ program = "delta" /\ pc = "unpack" /\ DeltaTypeOK /\ Filled /\ ~mem.corrupt
      /\ UnpackInv /\ ShippedInv /\ c \in Nat
  BY LenProperties DEF Delta, At, DeltaInv
<1>1. /\ s \in Seq(Bytes) /\ Len(s) \in Nat /\ i \in Nat /\ i <= Len(s) /\ mem.wrote \in Nat
      /\ mem.out \in Seq(Bytes \union {Unset})
  BY <1>0, LenProperties DEF DeltaTypeOK, DeltaMem
<1>2. Stored(chunk) \in Seq(Bytes \union {Unset}) /\ Len(Stored(chunk)) = Len(mem.out)
  BY <1>1, StoredIs
<1>3. /\ UNCHANGED <<program, pc, world, Measured>>
      /\ mem'.src = s /\ mem'.read = i + n /\ mem'.wrote = mem.wrote + c
      /\ mem'.out = Stored(chunk) /\ mem'.need = mem.need /\ mem'.from = mem.from
      /\ mem'.corrupt = mem.corrupt /\ DeltaTypeOK'
  <2>1. n \in Nat
    OBVIOUS
  <2> QED
    BY <1>0, <1>1, <1>2, <2>1, TakesFields
<1>4. ~Broken
  BY DEF Broken
<1>5. OnTrail(reads, counts)' /\ (Measured => mem'.wrote <= mem.need)
  <2>1. OnTrail(reads, counts)
    BY <1>0, <1>4 DEF UnpackInv
  <2>2. reads[i] = n /\ n \in Nat /\ n > 0 /\ counts[i] = c
    OBVIOUS
  <2>3. reads' = reads /\ counts' = counts
    BY <1>3
  <2> HIDE DEF reads, counts, c, s
  <2>4. mem'.read = i + reads[i] /\ mem'.wrote = mem.wrote + counts[i]
    BY <1>3, <2>2
  <2>5. OnTrail(reads, counts)' /\ (Measured => mem'.wrote <= mem.need)
    BY <1>0, <1>3, <2>1, <2>2, <2>3, <2>4, OnTrailGrows DEF s
  <2> QED
    BY <2>5
<1>6. UnpackInv'
  BY <1>0, <1>3, <1>5 DEF UnpackInv
<1>7. ASSUME Measured
      PROVE  /\ Filled'
             /\ \A k \in 1..mem.wrote : mem'.out[k] = mem.out[k]
             /\ \A k \in 1..c : mem'.out[mem.wrote + k] = chunk[k]
  BY <1>0, <1>3, <1>5, <1>7, StillFilled
<1>8. ASSUME mem.from # "anywhere"
      PROVE  ShippedInv'
  <2>1. PICK stream, g : stream \in Seq(Bytes) /\ Shipped(stream, g)
    BY <1>0, <1>8 DEF ShippedInv
  <2>2. /\ Track(stream, world, g, Len(stream), Len(world))
        /\ Len(s) <= Len(stream) /\ \A k \in 1..Len(s) : s[k] = stream[k]
        /\ mem.from = "pack" => Len(s) = Len(stream)
        /\ mem.from = "cut" => Len(s) < Len(stream)
        /\ i \in DOMAIN g /\ g[i] = mem.wrote
    BY <1>4, <2>1 DEF Shipped
  <2>3. Len(stream) \in Nat
    BY <2>1, LenProperties
  <2>4. Token(stream, world, g, i)
    BY <1>1, <2>2, <2>3, TrackStep
  <2>5. /\ i + n \in DOMAIN g /\ g[i + n] = mem.wrote + c
        /\ \A k \in 1..c : world[mem.wrote + k] = chunk[k]
    <3>1. s[i + 1] = stream[i + 1]
      <4>1. i + 1 \in 1..Len(s)
        BY <1>1
      <4> QED
        BY <2>2, <4>1
    <3>2. CASE n = 1
      BY <2>2, <2>4, <3>1, <3>2 DEF Token
    <3>3. CASE n = 3
      <4>0. i + 2 \in 1..Len(s) /\ i + 3 \in 1..Len(s)
        <5> DEFINE N == Len(s)
        <5>1. i \in Nat /\ N \in Nat /\ i + 3 <= N
          BY <1>1, <3>3
        <5> HIDE DEF N, i
        <5>2. i + 2 \in 1..N /\ i + 3 \in 1..N
          BY <5>1
        <5> QED
          BY <5>2 DEF N
      <4>1. s[i + 2] = stream[i + 2] /\ s[i + 3] = stream[i + 3]
        BY <2>2, <4>0
      <4> QED
        BY <2>2, <2>4, <3>1, <3>3, <4>1 DEF Token
    <3> QED
      BY <3>2, <3>3
  <2>6. Shipped(stream, g)'
    <3> SUFFICES /\ Track(stream, world', g, Len(stream), Len(world'))
                 /\ Len(mem'.src) <= Len(stream)
                 /\ \A k \in 1..Len(mem'.src) : mem'.src[k] = stream[k]
                 /\ mem'.from = "pack" => Len(mem'.src) = Len(stream)
                 /\ mem'.from = "cut" => Len(mem'.src) < Len(stream)
                 /\ mem'.read \in DOMAIN g /\ g[mem'.read] = mem'.wrote
      BY DEF Shipped
    <3> QED
      BY <1>3, <2>2, <2>5
  <2>7. ASSUME Measured
        PROVE  \A k \in 1..mem'.wrote : mem'.out[k] = world[k]
    <3>1. \A k \in 1..mem.wrote : mem.out[k] = world[k]
      BY <1>0, <1>8, <2>7 DEF ShippedInv
    <3> DEFINE w == mem.wrote
               out == mem'.out
    <3>2. /\ \A k \in 1..w : out[k] = world[k]
          /\ \A k \in 1..c : out[w + k] = world[w + k]
          /\ w \in Nat /\ c \in Nat
      BY <1>0, <1>1, <1>7, <2>5, <2>7, <3>1
    <3> HIDE DEF w, out, c
    <3>3. \A k \in 1..w + c : out[k] = world[k]
      <4> TAKE k \in 1..w + c
      <4>1. CASE k <= w
        BY <3>2, <4>1
      <4>2. CASE k > w
        <5>1. k - w \in 1..c /\ w + (k - w) = k
          BY <3>2, <4>2
        <5> QED
          BY <3>2, <5>1
      <4> QED
        BY <3>2, <4>1, <4>2
    <3> QED
      BY <1>3, <3>3 DEF w, out, c
  <2> QED
    BY <1>3, <2>1, <2>6, <2>7 DEF ShippedInv
<1>9. ShippedInv' /\ Filled'
  BY <1>3, <1>7, <1>8 DEF ShippedInv, Filled
<1>10. PackInv' /\ StreamsUnpack'
  BY <1>0, <1>3, <1>5 DEF PackInv, StreamsUnpack, PackedUnpacks, CutStreamsDetected,
     MeasuredIsWritten, Delta, At
<1> QED
  BY <1>0, <1>3, <1>6, <1>9, <1>10 DEF DeltaInv

\* Where the bytes of a round lie in the source.
LEMMA RestStarts ==
  ASSUME NEW s \in Seq(Bytes), NEW i \in 0..Len(s), i # Len(s)
  PROVE  LET rest == SubSeq(s, i + 1, Len(s))
         IN  /\ Len(rest) = Len(s) - i /\ rest[1] = s[i + 1] /\ s[i + 1] \in Bytes
             /\ Len(rest) >= 3 => /\ rest[2] = s[i + 2] /\ rest[3] = s[i + 3]
                                  /\ s[i + 2] \in Bytes /\ s[i + 3] \in Bytes
                                  /\ i + 3 <= Len(s)
<1> DEFINE rest == SubSeq(s, i + 1, Len(s))
           N == Len(s)
<1>0. N \in Nat /\ i \in Nat /\ i < N
  BY LenProperties
<1>1. Len(rest) = N - i /\ \A k \in 1..N - i : rest[k] = s[i + k]
  BY RestIs
<1>2. \A k \in 1..N : s[k] \in Bytes
  BY ElementOfSeq
<1> HIDE DEF rest, N
<1>3. i + 1 \in 1..N /\ 1 \in 1..N - i
  BY <1>0
<1>4. N - i >= 3 => /\ i + 2 \in 1..N /\ i + 3 \in 1..N
                    /\ 2 \in 1..N - i /\ 3 \in 1..N - i
  BY <1>0
<1>5. N - i >= 3 => i + 3 <= N
  BY <1>0
<1> QED
  BY <1>1, <1>2, <1>3, <1>4, <1>5 DEF rest, N

LEMMA UnpackLiteralInv ==
  ASSUME DeltaInv, UnpackLiteral
  PROVE  DeltaInv'
<1> DEFINE s == mem.src
           i == mem.read
           chunk == <<Rest[1]>>
<1>0. /\ s \in Seq(Bytes) /\ Len(s) \in Nat /\ i \in 0..Len(s) /\ i # Len(s)
      /\ Delta("unpack") /\ Rest[1] # Marker /\ Takes(1, chunk, Stored(chunk))
  BY LenProperties DEF UnpackLiteral, Delta, At, AllRead, DeltaInv, DeltaTypeOK, DeltaMem
<1>1. Rest[1] = s[i + 1] /\ s[i + 1] \in Bytes
  BY <1>0, RestStarts DEF Rest
<1>2. chunk \in Seq(Bytes) /\ Len(chunk) = 1 /\ chunk[1] = s[i + 1]
  BY <1>1
<1>3. i \in 0..Len(s) - 1 /\ i + 1 <= Len(s)
  BY <1>0
<1>4. 1 = UnpackReads(s)[i] /\ 1 = UnpackCounts(s)[i]
  BY <1>0, <1>1, <1>3 DEF UnpackReads, UnpackCounts
<1> HIDE DEF chunk
<1>5. PICK n \in {1, 3} : n = 1
  OBVIOUS
<1>6. /\ n = UnpackReads(mem.src)[mem.read] /\ Len(chunk) = UnpackCounts(mem.src)[mem.read]
      /\ mem.read + n <= Len(mem.src) /\ mem.read # Len(mem.src)
      /\ Takes(n, chunk, Stored(chunk))
      /\ n = 1 => /\ mem.src[mem.read + 1] # Marker /\ chunk[1] = mem.src[mem.read + 1]
                  /\ Len(chunk) = 1
      /\ n # 3
  BY <1>0, <1>1, <1>2, <1>3, <1>4, <1>5
<1> QED
  BY <1>0, <1>2, <1>6, UnpackRoundInv

LEMMA UnpackRunInv ==
  ASSUME DeltaInv, UnpackRun
  PROVE  DeltaInv'
<1> DEFINE s == mem.src
           i == mem.read
<1>0. /\ s \in Seq(Bytes) /\ Len(s) \in Nat /\ i \in 0..Len(s) /\ i # Len(s)
      /\ Delta("unpack") /\ Rest[1] = Marker /\ program = "delta" /\ pc = "unpack"
      /\ DeltaTypeOK /\ ~mem.corrupt /\ UnpackInv /\ ShippedInv
  BY LenProperties DEF UnpackRun, Delta, At, AllRead, DeltaInv, DeltaTypeOK, DeltaMem
<1>1. /\ Len(Rest) = Len(s) - i /\ s[i + 1] = Marker
      /\ Len(Rest) >= 3 => /\ Rest[2] = s[i + 2] /\ Rest[3] = s[i + 3]
                           /\ s[i + 2] \in Bytes /\ s[i + 3] \in Bytes
                           /\ i + 3 <= Len(s)
  BY <1>0, RestStarts DEF Rest
<1>2. 3 = UnpackReads(s)[i] /\ s[i + 2] = UnpackCounts(s)[i]
  BY <1>0, <1>1 DEF UnpackReads, UnpackCounts
<1>3. CASE ~(Len(Rest) < 3)
  <2> DEFINE chunk == [k \in 1..Rest[2] |-> Rest[3]]
  <2>0. i + 3 <= Len(s) /\ s[i + 2] \in Nat /\ s[i + 3] \in Bytes
        /\ Rest[2] = s[i + 2] /\ Rest[3] = s[i + 3]
    BY <1>0, <1>1, <1>3 DEF Bytes
  <2>1. /\ chunk \in Seq(Bytes) /\ Len(chunk) = s[i + 2]
        /\ \A k \in 1..Len(chunk) : chunk[k] = s[i + 3]
    BY <2>0
  <2>2. Takes(3, chunk, Stored(chunk))
    BY <1>3 DEF UnpackRun
  <2> HIDE DEF chunk
  <2> QED
    BY <1>0, <1>1, <1>2, <2>0, <2>1, <2>2, UnpackRoundInv
<1>4. CASE Len(Rest) < 3
  <2>0. ~(i + 3 <= Len(s)) /\ s # <<>>
    <3>1. Len(s) # 0 /\ Len(<<>>) = 0
      BY <1>0
    <3> QED
      BY <1>0, <1>1, <1>4, <3>1
  <2>1. ~Measured
    <3> SUFFICES ASSUME Measured PROVE FALSE
      OBVIOUS
    <3>1. OnTrail(UnpackReads(s), UnpackCounts(s))
      BY <1>0 DEF UnpackInv, Broken
    <3>2. PICK t : Trail(t, UnpackReads(s), UnpackCounts(s), Len(s), mem.need) /\ i \in DOMAIN t
      BY <3>1 DEF OnTrail
    <3>3. i + 3 <= Len(s)
      BY <1>0, <1>2, <3>2, TrailStep
    <3> QED
      BY <2>0, <3>3
  <2>2. ASSUME mem.from # "anywhere"
        PROVE  \E stream, g : stream \in Seq(Bytes) /\ Shipped(stream, g) /\ mem.from = "cut"
    <3>1. PICK stream, g : stream \in Seq(Bytes) /\ Shipped(stream, g)
      BY <1>0, <2>2 DEF ShippedInv
    <3> SUFFICES ASSUME mem.from = "pack" PROVE FALSE
      BY <1>0, <2>2, <3>1 DEF DeltaTypeOK, DeltaMem
    <3>2. /\ Track(stream, world, g, Len(stream), Len(world)) /\ Len(s) = Len(stream)
          /\ \A k \in 1..Len(s) : s[k] = stream[k]
          /\ i \in DOMAIN g
      BY <3>1 DEF Shipped
    <3>3. Token(stream, world, g, i) /\ stream[i + 1] = Marker
      <4>1. i + 1 \in 1..Len(s) /\ i < Len(stream)
        BY <1>0, <3>2
      <4>2. stream[i + 1] = Marker
        BY <1>1, <3>2, <4>1
      <4>3. Token(stream, world, g, i)
        BY <3>2, <4>1, TrackStep
      <4> QED
        BY <4>2, <4>3
    <3>4. i + 3 <= Len(s)
      BY <3>2, <3>3 DEF Token, Track
    <3> QED
      BY <2>0, <3>4
  <2>3. /\ UNCHANGED <<program, pc, world, Measured>>
        /\ mem'.src = s /\ mem'.read = Len(s) /\ mem'.wrote = 0
        /\ mem'.out = mem.out /\ mem'.need = mem.need /\ mem'.from = mem.from
        /\ mem'.corrupt = mem.corrupt /\ DeltaTypeOK'
    <3> DEFINE N == Len(s)
    <3>1. mem' = [mem EXCEPT !.read = N, !.wrote = 0] /\ UNCHANGED <<program, pc, world>>
      BY <1>4 DEF UnpackRun, Truncated, Becomes
    <3>2. N \in Nat /\ mem \in DeltaMem
      BY <1>0 DEF DeltaTypeOK
    <3> HIDE DEF N
    <3>3. /\ mem'.src = s /\ mem'.read = N /\ mem'.wrote = 0
          /\ mem'.out = mem.out /\ mem'.need = mem.need /\ mem'.from = mem.from
          /\ mem'.corrupt = mem.corrupt /\ mem' \in DeltaMem
      BY <3>1, <3>2 DEF DeltaMem
    <3> QED
      BY <1>0, <3>1, <3>2, <3>3 DEF DeltaTypeOK, Measured, N
  <2>4. Broken'
    BY <2>0, <2>1, <2>3 DEF Broken
  <2>5. ShippedInv'
    <3> SUFFICES ASSUME mem.from # "anywhere" PROVE ShippedInv'
      BY <2>3 DEF ShippedInv
    <3>1. PICK stream, g : stream \in Seq(Bytes) /\ Shipped(stream, g) /\ mem.from = "cut"
      BY <2>2
    <3>2. Shipped(stream, g)'
      BY <2>3, <2>4, <3>1 DEF Shipped
    <3> QED
      BY <2>1, <2>3, <3>1, <3>2 DEF ShippedInv
  <2>6. UnpackInv' /\ Filled' /\ PackInv' /\ StreamsUnpack'
    BY <1>0, <2>1, <2>3, <2>4 DEF UnpackInv, Filled, PackInv, StreamsUnpack, PackedUnpacks,
       CutStreamsDetected, MeasuredIsWritten, Delta, At
  <2> QED
    BY <1>0, <2>3, <2>5, <2>6 DEF DeltaInv
<1> QED
  BY <1>3, <1>4

\* At the end of the source the stream has given the data, or, when it was
\* cut, the beginning of the data.
LEMMA StreamGave ==
  ASSUME DeltaTypeOK, ShippedInv, pc = "unpack", mem.from # "anywhere", mem.read = Len(mem.src),
         ~Broken
  PROVE  /\ mem.wrote <= Len(world)
         /\ mem.from = "pack" => mem.wrote = Len(world)
         /\ mem.from = "pack" /\ mem.src # <<>> => mem.wrote # 0
         /\ mem.from = "cut" => mem.wrote < Len(world)
<1>1. PICK stream, g : stream \in Seq(Bytes) /\ Shipped(stream, g)
  BY DEF ShippedInv
<1> DEFINE n == Len(mem.src)
           N == Len(stream)
           L == Len(world)
<1>2. /\ Track(stream, world, g, N, L) /\ n <= N
      /\ mem.from = "pack" => n = N
      /\ mem.from = "cut" => n < N
      /\ n \in DOMAIN g /\ g[n] = mem.wrote
  BY <1>1 DEF Shipped
<1>3. n \in Nat /\ N \in Nat /\ L \in Nat /\ (mem.src # <<>> => n # 0)
  BY EmptySeq, LenProperties DEF DeltaTypeOK, DeltaMem
<1>4. mem.from \in {"pack", "cut"}
  BY DEF DeltaTypeOK, DeltaMem
<1>5. g[n] \in 0..L /\ (n < N => g[n] < L) /\ (n = N => g[n] = L)
  BY <1>2, TrackStep
<1>6. 0 \in DOMAIN g /\ g[0] = 0 /\ (0 < N => g[0] < L)
  <2>1. 0 \in DOMAIN g /\ g[0] = 0
    BY <1>2 DEF Track
  <2> QED
    BY <1>2, <2>1, TrackStep
<1> HIDE DEF n, N, L
<1> QED
  BY <1>2, <1>3, <1>4, <1>5, <1>6 DEF n, L

LEMMA EndUnpackInv ==
  ASSUME DeltaInv, EndUnpack
  PROVE  DeltaInv'
<1>0. /\ program = "delta" /\ pc = "unpack" /\ mem.read = Len(mem.src)
      /\ DeltaTypeOK /\ ~mem.corrupt /\ Filled /\ UnpackInv /\ ShippedInv
      /\ world \in Seq(Bytes) /\ Len(world) \in Nat /\ mem \in DeltaMem
  BY LenProperties DEF EndUnpack, Delta, At, AllRead, DeltaInv, DeltaTypeOK
<1>1. ASSUME Measured
      PROVE  /\ mem.wrote = mem.need /\ ~(mem.wrote = 0 /\ mem.src # <<>>)
             /\ mem.need \in Nat /\ Len(mem.out) = mem.need /\ DOMAIN mem.out = 1..mem.need
             /\ \A k \in 1..mem.need : mem.out[k] \in Bytes
  <2>1. OnTrail(UnpackReads(mem.src), UnpackCounts(mem.src)) /\ (mem.src # <<>> => mem.need > 0)
    BY <1>0, <1>1 DEF UnpackInv, Broken
  <2>2. PICK t : /\ Trail(t, UnpackReads(mem.src), UnpackCounts(mem.src), Len(mem.src), mem.need)
                 /\ mem.read \in DOMAIN t /\ t[mem.read] = mem.wrote
    BY <1>1, <2>1 DEF OnTrail
  <2>3. mem.wrote = mem.need /\ mem.need \in Nat
    BY <1>0, <2>2, TrailStep DEF Trail
  <2>4. Len(mem.out) = mem.need /\ DOMAIN mem.out = 1..mem.need
    <3>1. mem.out \in Seq(Bytes \union {Unset}) /\ Len(mem.out) = mem.need
      BY <1>0, <1>1 DEF DeltaTypeOK, DeltaMem
    <3> QED
      BY <3>1, LenProperties
  <2> QED
    BY <1>0, <1>1, <2>1, <2>3, <2>4 DEF Filled
<1>2. CASE mem.wrote = 0 /\ mem.src # <<>> /\ Becomes("exited", [mem EXCEPT !.corrupt = TRUE])
  <2>1. /\ UNCHANGED <<program, world>> /\ pc' = "exited" /\ mem' \in DeltaMem
        /\ mem'.src = mem.src /\ mem'.read = mem.read /\ mem'.out = mem.out
        /\ mem'.need = mem.need /\ mem'.from = mem.from /\ mem'.corrupt
    BY <1>0, <1>2 DEF Becomes, DeltaMem
  <2>2. ~Measured /\ ~Measured'
    BY <1>1, <1>2, <2>1 DEF Measured
  <2>3. DeltaTypeOK'
    BY <1>0, <2>1 DEF DeltaTypeOK, Measured
  <2>4. mem.from # "pack"
    <3> SUFFICES ASSUME mem.from = "pack" PROVE FALSE
      OBVIOUS
    <3>1. ~Broken
      <4> SUFFICES ASSUME Broken PROVE FALSE
        OBVIOUS
      <4>1. PICK stream, g : stream \in Seq(Bytes) /\ Shipped(stream, g)
        BY <1>0 DEF ShippedInv
      <4>2. /\ Track(stream, world, g, Len(stream), Len(world)) /\ Len(mem.src) = Len(stream)
            /\ g[mem.read] = mem.wrote
        BY <4>1 DEF Shipped
      <4>3. 0 \in DOMAIN g /\ g[0] = 0 /\ g[Len(stream)] = Len(world) /\ Len(stream) \in Nat
        BY <4>2 DEF Track
      <4>4. Len(mem.src) # 0
        BY <1>0, <1>2, EmptySeq DEF DeltaMem
      <4> QED
        BY <1>0, <1>2, <4>2, <4>3, <4>4, TrackStep
    <3> QED
      BY <1>0, <1>2, <3>1, StreamGave
  <2>5. StreamsUnpack'
    BY <1>0, <2>1, <2>2, <2>4 DEF StreamsUnpack, PackedUnpacks, CutStreamsDetected,
       MeasuredIsWritten, Delta, At
  <2> QED
    BY <1>0, <2>1, <2>3, <2>5 DEF DeltaInv, PackInv, UnpackInv, ShippedInv
<1>3. CASE Measured /\ Becomes("exited", mem)
  <2>1. UNCHANGED <<program, world, mem>> /\ pc' = "exited"
    BY <1>3 DEF Becomes
  <2>2. DeltaTypeOK' /\ UNCHANGED Measured
    BY <1>0, <2>1 DEF DeltaTypeOK, Measured
  <2>3. MeasuredIsWritten'
    BY <1>0, <1>1, <1>3, <2>1 DEF MeasuredIsWritten, Bytes, Unset
  <2>4. ~Broken
    BY <1>3 DEF Broken
  <2>5. ASSUME mem.from # "anywhere"
        PROVE  /\ mem.out \in Seq(Bytes) /\ Len(mem.out) = mem.wrote
               /\ \A k \in 1..mem.wrote : mem.out[k] = world[k]
               /\ mem.wrote <= Len(world) /\ mem.wrote \in Nat
    <3>1. mem.out \in [1..mem.need -> Bytes \union {Unset}]
      BY <1>0, <1>1, <1>3, LenProperties DEF DeltaMem
    <3>2. mem.out \in [1..mem.need -> Bytes]
      BY <1>1, <1>3, <3>1
    <3>3. mem.out \in Seq(Bytes)
      BY <1>1, <1>3, <3>2, SeqDef
    <3>4. \A k \in 1..mem.wrote : mem.out[k] = world[k]
      BY <1>0, <1>3, <2>5 DEF ShippedInv
    <3>5. mem.wrote <= Len(world)
      BY <1>0, <2>4, <2>5, StreamGave
    <3> QED
      BY <1>1, <1>3, <3>3, <3>4, <3>5
  <2>6. PackedUnpacks'
    <3> SUFFICES ASSUME mem.from = "pack" PROVE mem.out = world
      BY <1>0, <2>1 DEF PackedUnpacks
    <3>1. mem.wrote = Len(world)
      BY <1>0, <2>4, StreamGave
    <3> QED
      BY <1>0, <2>5, <3>1, SeqEqual
  <2>7. CutStreamsDetected'
    <3> SUFFICES ASSUME mem.from = "cut" PROVE IsStrictPrefix(mem.out, world)
      BY <2>1 DEF CutStreamsDetected
    <3> DEFINE out == mem.out
               n == mem.wrote
    <3>1. n < Len(world)
      BY <1>0, <2>4, StreamGave
    <3>2. out \in Seq(Bytes) /\ Len(out) = n /\ n \in Nat /\ \A k \in 1..n : out[k] = world[k]
      BY <2>5
    <3> HIDE DEF out, n
    <3>3. SubSeq(out, 1, n) = out
      BY <3>2, SubSeqFull
    <3>4. SubSeq(world, 1, n) = out
      <4>1. /\ 1 \in Int /\ n \in Int /\ \A k \in 1..n : world[k] \in Bytes
        BY <1>0, <3>1, <3>2, ElementOfSeq
      <4>2. /\ SubSeq(world, 1, n) \in Seq(Bytes)
            /\ Len(SubSeq(world, 1, n)) = IF 1 <= n THEN n - 1 + 1 ELSE 0
            /\ \A k \in 1..n - 1 + 1 : SubSeq(world, 1, n)[k] = world[1 + k - 1]
        BY <4>1, SubSeqProperties
      <4>3. Len(SubSeq(world, 1, n)) = Len(out)
        BY <3>2, <4>2
      <4>4. \A k \in 1..Len(SubSeq(world, 1, n)) : SubSeq(world, 1, n)[k] = out[k]
        BY <3>2, <4>2, <4>3
      <4> QED
        BY <3>2, <4>2, <4>3, <4>4, SeqEqual
    <3> QED
      BY <1>0, <3>1, <3>2, <3>3, <3>4 DEF IsStrictPrefix, IsPrefix, out
  <2> QED
    BY <1>0, <2>1, <2>2, <2>3, <2>6, <2>7 DEF DeltaInv, PackInv, UnpackInv, ShippedInv,
       StreamsUnpack
<1>4. CASE ~(mem.wrote = 0 /\ mem.src # <<>>) /\ ~Measured
           /\ Call("unpack", mem.src, mem.wrote, mem.wrote)
  <2>1. /\ UNCHANGED <<program, world>> /\ pc' = "unpack" /\ Measured'
        /\ mem'.src = mem.src /\ mem'.read = 0 /\ mem'.wrote = 0
        /\ mem'.need = mem.wrote /\ mem'.from = mem.from /\ mem'.corrupt = mem.corrupt
        /\ DeltaTypeOK'
    BY <1>0, <1>4, CallFields
  <2>2. ~Broken
    BY <1>4 DEF Broken
  <2>3. PICK t : Trail(t, UnpackReads(mem.src), UnpackCounts(mem.src), Len(mem.src), mem.wrote)
    BY <1>0, <1>4, <2>2 DEF OnTrail, UnpackInv
  <2>4. 0 \in DOMAIN t /\ t[0] = 0 /\ mem.wrote \in Nat
    BY <2>3 DEF Trail
  <2>5. OnTrail(UnpackReads(mem.src), UnpackCounts(mem.src))'
    BY <2>1, <2>3, <2>4 DEF OnTrail
  <2>6. UnpackInv'
    BY <1>4, <2>1, <2>4, <2>5 DEF UnpackInv
  <2>7. ShippedInv'
    <3> SUFFICES ASSUME mem.from # "anywhere" PROVE ShippedInv'
      BY <2>1 DEF ShippedInv
    <3>1. PICK stream, g : stream \in Seq(Bytes) /\ Shipped(stream, g)
      BY <1>0 DEF ShippedInv
    <3>2. 0 \in DOMAIN g /\ g[0] = 0
      BY <3>1 DEF Shipped, Track
    <3>3. Shipped(stream, g)'
      BY <2>1, <3>1, <3>2 DEF Shipped
    <3> QED
      BY <2>1, <3>1, <3>3 DEF ShippedInv
  <2>8. Filled' /\ PackInv' /\ StreamsUnpack'
    BY <1>0, <2>1, <2>4 DEF Filled, PackInv, StreamsUnpack, PackedUnpacks, CutStreamsDetected,
       MeasuredIsWritten, Delta, At
  <2> QED
    BY <1>0, <2>1, <2>6, <2>7, <2>8 DEF DeltaInv
<1> QED
  BY <1>2, <1>3, <1>4 DEF EndUnpack

LEMMA DeltaStepInv ==
  ASSUME DeltaInv, DeltaNext
  PROVE  DeltaInv'
BY PackRunInv, EndPackInv, ShipInv, UnpackLiteralInv, UnpackRunInv, EndUnpackInv DEF DeltaNext

-----------------------------------------------------------------------------
(* The programs together: each keeps its own invariant, and no other step  *)
(* is one of it.                                                           *)

Programs == {"runway", "caustic", "delta"}

Inv ==
  /\ program \in Programs
  /\ program = "runway" => RunwayInv
  /\ program = "caustic" => CausticInv
  /\ program = "delta" => DeltaInv

LEMMA InitInv == Init => Inv
<1>1. ASSUME RunwayInit PROVE Inv
  BY <1>1, RunwayInitInv DEF RunwayInit, Inv, Programs
<1>2. ASSUME CausticInit PROVE Inv
  BY <1>2, CausticInitInv DEF CausticInit, Inv, Programs
<1>3. ASSUME DeltaInit PROVE Inv
  BY <1>3, DeltaInitInv DEF DeltaInit, Inv, Programs
<1> QED
  BY <1>1, <1>2, <1>3 DEF Init

LEMMA NextInv == Inv /\ [Next]_vars => Inv'
<1> SUFFICES ASSUME Inv, [Next]_vars PROVE Inv'
  OBVIOUS
<1>1. CASE RunwayNext
  <2>1. program = "runway" /\ program' = program
    BY <1>1 DEF RunwayNext, RunwayStep, ParseArgs, SubmitTask, Poll, HandleAnswer, Polled, Exits,
       Becomes, Progress, Meanwhile, Runway, At
  <2>2. RunwayInv'
    BY <1>1, <2>1, RunwayStepInv, ProgressInv DEF RunwayNext, Inv
  <2> QED
    BY <2>1, <2>2 DEF Inv, Programs
<1>2. CASE CausticNext
  <2>1. program = "caustic" /\ program' = program
    BY <1>2 DEF CausticNext, CausticStep, BeginPass, CountSize, CountNames, ListSize, ListNames,
       ValueSize, Value, Post, SetAttribute, AddAttribute, RemoveAttribute, Replace, FileBecomes,
       Refused, Becomes, Meanwhile, Caustic, At
  <2>2. CausticInv'
    BY <1>2, <2>1, CausticStepInv DEF Inv
  <2> QED
    BY <2>1, <2>2 DEF Inv, Programs
<1>3. CASE DeltaNext
  <2>1. program = "delta" /\ program' = program
    BY <1>3 DEF DeltaNext, PackRun, EndPack, Ship, UnpackLiteral, UnpackRun, EndUnpack, Truncated,
       Takes, Call, Becomes, Delta, At
  <2>2. DeltaInv'
    BY <1>3, <2>1, DeltaStepInv DEF Inv
  <2> QED
    BY <2>1, <2>2 DEF Inv, Programs
<1>4. CASE UNCHANGED vars
  <2>1. UNCHANGED <<program, pc, mem, world>>
    BY <1>4 DEF vars
  <2>2. RunwayInv => RunwayInv'
    BY <2>1 DEF RunwayInv, RunwayTellsOutcome, RunwayTypeOK, Runway, At
  <2>3. CausticInv => CausticInv'
    BY <2>1
       DEF CausticInv, CausticTypeOK, NoFileThere, Listing, PhaseInv, MemoryInv, StatInv, ListInv,
           NameInv
  <2>4. DeltaInv => DeltaInv'
    BY <2>1 DEF DeltaInv, DeltaTypeOK, Measured, Filled, PackInv, OnTrail, UnpackInv, Broken,
       ShippedInv, Shipped, StreamsUnpack, PackedUnpacks, CutStreamsDetected, MeasuredIsWritten,
       Delta, At
  <2> QED
    BY <2>1, <2>2, <2>3, <2>4 DEF Inv
<1> QED
  BY <1>1, <1>2, <1>3, <1>4 DEF Next

\* Inv, with the fields, the place and the history of each program, is kept by
\* every step of the programs and of those they share files and tasks with.
THEOREM Invariance == Spec => []Inv
<1>1. Init => Inv
  BY InitInv
<1>2. Inv /\ [Next]_vars => Inv'
  BY NextInv
<1> QED
  BY <1>1, <1>2, PTL DEF Spec

\* runway_hook.c: the exit status says how the polled task ended, whatever was
\* lost on the way and whenever the task moved on.
THEOREM OutcomeTold == Spec => []RunwayTellsOutcome
<1>1. Inv => RunwayTellsOutcome
  BY DEF Inv, RunwayInv, RunwayTellsOutcome, RunwayTypeOK, Runway, At
<1> QED
  BY <1>1, Invariance, PTL

\* caustic.c: whatever others do to the file and however many calls are
\* refused, a report is right in all that was neither changed nor refused, and
\* only an attribute added or filled makes a pass leave its memory.
THEOREM PassesAreHonest == Spec => []PassIsHonest
<1>1. Inv /\ program = "caustic" /\ pc = "undefined" => world.filled
  BY DEF Inv, CausticInv, MemoryInv
<1>2. Inv /\ program = "caustic" /\ pc = "post" => SureIsReported
  <2> SUFFICES ASSUME Inv, program = "caustic", pc = "post" PROVE SureIsReported
    OBVIOUS
  <2>1. \A n \in AttrNames \ world.astray : NameInv(n)
    BY DEF Inv, CausticInv
  <2>2. StatInv /\ ListInv
    BY DEF Inv, CausticInv
  <2> QED
    BY <2>1, <2>2 DEF SureIsReported, StatInv, ListInv, NameInv
<1> QED
  BY <1>1, <1>2, Invariance, PTL DEF PassIsHonest

\* deltaffi.c: for data of any length, what is packed unpacks to the data, a
\* cut stream gives less, and the writing calls fill what the measuring calls
\* told, for streams of any origin.
THEOREM PackedStreamsUnpack == Spec => []StreamsUnpack
<1>1. Inv => StreamsUnpack
  BY DEF Inv, DeltaInv, StreamsUnpack, PackedUnpacks, CutStreamsDetected, MeasuredIsWritten,
     Delta, At
<1> QED
  BY <1>1, Invariance, PTL

(* Whatever a pass has read, the scores it posts are shares and in order.  *)
THEOREM ScoresStayOrdered == Spec => []ScoresOrdered
<1>1. ScoresOrdered
  BY AllInOrder DEF ScoresOrdered
<1> QED
  BY <1>1, PTL

-----------------------------------------------------------------------------
(* The transforms.                                                         *)

\* A string of bytes is a function on its places.
LEMMA StringIs ==
  ASSUME NEW a \in Seq(Bytes)
  PROVE  /\ Len(a) \in Nat /\ DOMAIN a = 1..Len(a)
         /\ a \in [1..Len(a) -> Bytes]
  OBVIOUS

LEMMA ReversedTwice ==
  ASSUME NEW a \in Seq(Bytes)
  PROVE  ReverseCanonical(ReverseCanonical(a)) = a
<1> DEFINE n == Len(a)
           r == [k \in 1..n |-> a[n + 1 - k]]
<1>1. n \in Nat /\ a = [k \in 1..n |-> a[k]]
  BY StringIs
<1>2. ReverseCanonical(a) = r /\ Len(r) = n
  BY <1>1 DEF ReverseCanonical
<1>3. \A k \in 1..n : n + 1 - k \in 1..n /\ n + 1 - (n + 1 - k) = k
  BY <1>1
<1>4. \A k \in 1..n : r[n + 1 - k] = a[k]
  BY <1>3
<1>5. ReverseCanonical(r) = [k \in 1..n |-> r[n + 1 - k]]
  BY <1>2 DEF ReverseCanonical
<1> QED
  BY <1>1, <1>2, <1>4, <1>5

\* Where inter_reversed takes place k of a string with p bytes in pairs from.
PairPlace(p, k) == IF k > p THEN k ELSE IF k % 2 = 1 THEN p - k ELSE p - k + 2

LEMMA PairPlaceTwice ==
  ASSUME NEW n \in Nat, NEW k \in 1..n
  PROVE  LET p == 2 * (n \div 2)
         IN PairPlace(p, k) \in 1..n /\ PairPlace(p, PairPlace(p, k)) = k
<1> DEFINE h == n \div 2
           j == k \div 2
           e == k % 2
<1>1. h \in Nat /\ 2 * h <= n /\ n <= 2 * h + 1
  OBVIOUS
<1>2. j \in Nat /\ e \in 0..1 /\ k = 2 * j + e /\ k \in Nat
  OBVIOUS
<1>3. CASE k > 2 * h
  BY <1>1, <1>2, <1>3 DEF PairPlace
<1>4. CASE k <= 2 * h /\ e = 1
  <2>1. 2 * h - k = 2 * (h - j - 1) + 1 /\ h - j - 1 \in Nat
    BY <1>1, <1>2, <1>4
  <2>2. (2 * h - k) % 2 = 1 /\ 2 * h - k \in 1..n /\ 2 * h - k <= 2 * h
    BY <1>1, <1>2, <1>4, <2>1
  <2>3. PairPlace(2 * h, k) = 2 * h - k
    BY <1>1, <1>2, <1>4 DEF PairPlace
  <2>4. PairPlace(2 * h, 2 * h - k) = 2 * h - (2 * h - k)
    BY <1>1, <1>2, <2>2 DEF PairPlace
  <2> QED
    BY <1>1, <1>2, <2>2, <2>3, <2>4
<1>5. CASE k <= 2 * h /\ e = 0
  <2>1. 2 * h - k + 2 = 2 * (h - j + 1) /\ h - j + 1 \in Nat /\ j > 0
    BY <1>1, <1>2, <1>5
  <2>2. (2 * h - k + 2) % 2 = 0 /\ 2 * h - k + 2 \in 1..n /\ 2 * h - k + 2 <= 2 * h
    BY <1>1, <1>2, <1>5, <2>1
  <2>3. PairPlace(2 * h, k) = 2 * h - k + 2
    BY <1>1, <1>2, <1>5 DEF PairPlace
  <2>4. PairPlace(2 * h, 2 * h - k + 2) = 2 * h - (2 * h - k + 2) + 2
    BY <1>1, <1>2, <2>2 DEF PairPlace
  <2> QED
    BY <1>1, <1>2, <2>2, <2>3, <2>4
<1> QED
  BY <1>1, <1>2, <1>3, <1>4, <1>5

LEMMA PairsReversedTwice ==
  ASSUME NEW a \in Seq(Bytes)
  PROVE  InterReversed(InterReversed(a)) = a
<1> DEFINE n == Len(a)
           p == 2 * (n \div 2)
           r == [k \in 1..n |-> a[PairPlace(p, k)]]
<1>1. n \in Nat /\ a = [k \in 1..n |-> a[k]]
  BY StringIs
<1>2. \A k \in 1..n : PairPlace(p, k) \in 1..n /\ PairPlace(p, PairPlace(p, k)) = k
  BY <1>1, PairPlaceTwice
<1>3. InterReversed(a) = r
  BY DEF InterReversed, PairPlace
<1>4. Len(r) = n
  BY <1>1
<1> HIDE DEF r
<1>5. InterReversed(r) = [k \in 1..n |-> r[PairPlace(p, k)]]
  BY <1>4 DEF InterReversed, PairPlace
<1> HIDE DEF p
<1>6. \A k \in 1..n : r[PairPlace(p, k)] = a[k]
  BY <1>2 DEF r
<1> QED
  BY <1>1, <1>3, <1>5, <1>6

\* A delta of two strings, added to the one, gives the other.
LEMMA DeltaRestores ==
  ASSUME NEW a \in Seq(Bytes), NEW b \in Seq(Bytes), Len(b) >= Len(a)
  PROVE  XorDelta(a, XorDelta(a, b)) = b
<1> DEFINE n == Len(b)
           At0(k) == IF k <= Len(a) THEN a[k] ELSE 0
           d == [k \in 1..n |-> XorBytes(At0(k), b[k])]
<1>1. /\ n \in Nat /\ Len(a) \in Nat /\ b = [k \in 1..n |-> b[k]]
      /\ \A k \in 1..n : b[k] \in Bytes
  BY StringIs
<1>2. \A k \in 1..n : At0(k) \in Bytes
  <2>1. 0 \in Bytes
    BY WidthAssumption DEF Bytes
  <2> QED
    BY <1>1, <2>1, StringIs
<1> HIDE DEF At0
<1>3. \A k \in 1..n : XorBytes(At0(k), XorBytes(At0(k), b[k])) = b[k]
  BY <1>1, <1>2, XorAssumption DEF Bytes
<1>4. XorDelta(a, b) = d
  BY <1>1 DEF XorDelta, At0
<1>5. Len(d) = n
  BY <1>1
<1>6. \A k \in 1..n : d[k] = XorBytes(At0(k), b[k])
  OBVIOUS
<1> HIDE DEF d
<1>7. XorDelta(a, d) = [k \in 1..n |-> XorBytes(At0(k), d[k])]
  BY <1>1, <1>5 DEF XorDelta, At0
<1> QED
  BY <1>1, <1>3, <1>4, <1>6, <1>7

\* The number of blocks M.block_hashes makes room for, by a division of its
\* own, is the least that holds the string.
LEMMA RoomIs ==
  ASSUME NEW n \in Nat, n > 0, NEW size \in Nat, size > 0
  PROVE  LET m == (n + size - 1) \div size
         IN m \in Nat /\ m > 0 /\ m * size >= n /\ (m - 1) * size < n
<1> DEFINE x == n + size - 1
           m == x \div size
<1>1. x \in Nat /\ m \in Int /\ (x \div size >= m + 1 <=> x >= size * (m + 1))
  BY AtLeast
<1>2. m \in Int /\ (m >= m <=> x >= size * m) /\ (m >= 1 <=> x >= size * 1)
  BY <1>1, AtLeast
<1>3. ~(x \div size >= m + 1)
  BY <1>1
<1>4. x < size * (m + 1) /\ x >= size * m /\ m >= 1
  BY <1>1, <1>2, <1>3
<1> HIDE DEF m
<1>5. size * (m + 1) = m * size + size /\ size * m = m * size /\ (m - 1) * size = m * size - size
      /\ m * size \in Int
  BY <1>2
<1>6. m * size >= n /\ (m - 1) * size < n /\ m \in Nat /\ m > 0
  BY <1>2, <1>4, <1>5
<1> QED
  BY <1>6 DEF m

\* What lies before an end that lies before another.
LEMMA Before ==
  ASSUME NEW k \in Int, NEW m \in Int, k <= m, NEW size \in Nat
  PROVE  k * size \in Int /\ k * size <= m * size
<1>1. (m - k) * size \in Nat /\ (m - k) * size = m * size - k * size
  <2>1. m - k \in Nat
    OBVIOUS
  <2> QED
    BY <2>1
<1> QED
  BY <1>1

LEMMA BlocksFill ==
  ASSUME NEW a \in Seq(Bytes), NEW size \in Nat, size > 0
  PROVE  LET room == Room(a, size)
             blocks == Blocks(a, size, room)
         IN /\ DOMAIN blocks = 1..room
            /\ \A k \in 1..room :
                 Len(blocks[k]) = IF k < room THEN size ELSE Len(a) - (room - 1) * size
            /\ \A i \in DOMAIN a : blocks[(i - 1) \div size + 1][((i - 1) % size) + 1] = a[i]
<1> DEFINE n == Len(a)
           room == Room(a, size)
           blocks == Blocks(a, size, room)
           Start(k) == (k - 1) * size
           End(k) == IF Start(k) + size > n THEN n ELSE Start(k) + size
<1>1. n \in Nat /\ DOMAIN a = 1..n
  BY StringIs
<1>2. CASE a = <<>>
  <2>1. room = 1 /\ blocks = <<a>> /\ n = 0 /\ DOMAIN a = {}
    BY <1>2 DEF Room, Blocks
  <2>2. DOMAIN blocks = 1..1 /\ blocks[1] = a
    BY <2>1
  <2> HIDE DEF room, blocks
  <2>3. (room - 1) * size = 0
    BY <2>1
  <2> QED
    BY <2>1, <2>2, <2>3 DEF room, blocks
<1>3. CASE a # <<>>
  <2>1. n > 0
    BY <1>1, <1>3, EmptySeq
  <2>2. room = (n + size - 1) \div size
    BY <1>3 DEF Room
  <2>3. room \in Nat /\ room > 0 /\ room * size >= n /\ (room - 1) * size < n
    BY <1>1, <2>1, <2>2, RoomIs
  <2>4. blocks = [k \in {r \in 1..room : Start(r) < n} |-> SubSeq(a, Start(k) + 1, End(k))]
    BY <1>3 DEF Blocks
  <2> HIDE DEF room, blocks
  <2>5. ASSUME NEW k \in 1..room
        PROVE  /\ Start(k) \in Nat /\ Start(k) < n
               /\ k < room => Start(k) + size <= (room - 1) * size
               /\ k = room => Start(k) = (room - 1) * size /\ Start(k) + size = room * size
    <3>1. Start(k) <= (room - 1) * size /\ Start(k) \in Int /\ 0 * size <= Start(k)
      BY <2>3, Before
    <3>2. Start(k) \in Nat /\ Start(k) < n
      BY <1>1, <2>3, <3>1, Before
    <3>3. k < room => k * size <= (room - 1) * size
      BY <2>3, Before
    <3>4. Start(k) + size = k * size
      BY <2>3
    <3> QED
      BY <3>2, <3>3, <3>4
  <2>6. {r \in 1..room : Start(r) < n} = 1..room
    BY <2>5
  <2>7. ASSUME NEW k \in 1..room
        PROVE  /\ End(k) \in Start(k)..n /\ End(k) <= Start(k) + size
               /\ End(k) = IF k < room THEN Start(k) + size ELSE n
               /\ k < room => Start(k) + size <= n
    <3> DEFINE s == Start(k)
               t == (room - 1) * size
    <3>1. /\ s \in Nat /\ s < n /\ t \in Int /\ t < n
          /\ k < room => s + size <= t
          /\ k = room => s + size >= n
      BY <2>3, <2>5, Before
    <3>2. End(k) = IF s + size > n THEN n ELSE s + size
      OBVIOUS
    <3> HIDE DEF s, t
    <3>3. /\ End(k) \in s..n /\ End(k) <= s + size
          /\ End(k) = IF k < room THEN s + size ELSE n
          /\ k < room => s + size <= n
      BY <1>1, <2>3, <3>1, <3>2
    <3> QED
      BY <3>3 DEF s
  <2>8. ASSUME NEW k \in 1..room
        PROVE  /\ blocks[k] = SubSeq(a, Start(k) + 1, End(k))
               /\ Len(blocks[k]) = End(k) - Start(k)
               /\ \A e \in 1..End(k) - Start(k) : blocks[k][e] = a[Start(k) + e]
    <3>1. blocks[k] = SubSeq(a, Start(k) + 1, End(k))
      BY <2>4, <2>6
    <3> DEFINE s == Start(k)
               t == End(k)
    <3>2. s \in Nat /\ t \in s..n
      BY <2>5, <2>7
    <3> HIDE DEF s, t
    <3>3. /\ Len(SubSeq(a, s + 1, t)) = t - s
          /\ \A e \in 1..t - s : SubSeq(a, s + 1, t)[e] = a[s + e]
      BY <1>1, <3>2, SubSeqProperties
    <3> QED
      BY <3>1, <3>3 DEF s, t
  <2>9. DOMAIN blocks = 1..room
    BY <2>4, <2>6
  <2>10. ASSUME NEW k \in 1..room
         PROVE  Len(blocks[k]) = IF k < room THEN size ELSE n - (room - 1) * size
    <3>1. Len(blocks[k]) = End(k) - Start(k)
      BY <2>8
    <3>2. CASE k < room
      <4>1. End(k) = Start(k) + size
        BY <2>7, <3>2
      <4>2. Start(k) \in Nat
        BY <2>5
      <4> HIDE DEF Start, End
      <4>3. End(k) - Start(k) = size
        BY <4>1, <4>2
      <4> QED
        BY <3>1, <3>2, <4>3
    <3>3. CASE ~(k < room)
      <4>1. k = room
        BY <2>3, <3>3
      <4>2. End(k) = n
        BY <2>7, <3>3
      <4>3. Start(k) = (room - 1) * size
        BY <4>1
      <4> HIDE DEF Start, End
      <4> QED
        BY <3>1, <3>3, <4>2, <4>3
    <3> QED
      BY <3>2, <3>3
  <2>11. ASSUME NEW i \in 1..n
         PROVE  blocks[(i - 1) \div size + 1][((i - 1) % size) + 1] = a[i]
    <3> DEFINE q == (i - 1) \div size
               e == (i - 1) % size
    <3>1. q \in Nat /\ e \in 0..size - 1 /\ i - 1 = size * q + e
      OBVIOUS
    <3> HIDE DEF q, e
    <3>2. Start(q + 1) = size * q /\ size * q \in Nat
      BY <3>1
    <3>3. q + 1 \in 1..room
      <4>1. ~(room <= q)
        <5> SUFFICES ASSUME room <= q PROVE FALSE
          OBVIOUS
        <5>1. room * size <= q * size /\ q * size = size * q
          BY <2>3, <3>1, Before
        <5> QED
          BY <2>3, <3>1, <3>2, <5>1, Before
      <4> QED
        BY <2>3, <3>1, <4>1
    <3> DEFINE s == Start(q + 1)
               t == End(q + 1)
    <3>4. t = (IF s + size > n THEN n ELSE s + size) /\ s = size * q
      BY <3>2
    <3> HIDE DEF s, t
    <3>5. e + 1 \in 1..t - s /\ s + (e + 1) = i
      BY <1>1, <3>1, <3>2, <3>4
    <3>6. blocks[q + 1][e + 1] = a[s + (e + 1)]
      BY <2>8, <3>3, <3>5 DEF s, t
    <3> QED
      BY <3>5, <3>6 DEF q, e
  <2> QED
    BY <1>1, <2>9, <2>10, <2>11 DEF room, blocks
<1> QED
  BY <1>2, <1>3

(* Whatever data a program has, its transforms restore it and the blocks   *)
(* that are hashed are the whole of it.                                    *)
THEOREM TransformsKeepBytes == Spec => []BytesAllCovered
<1>1. ASSUME NEW a \in Seq(Bytes) PROVE TransformsInvert(a)
  <2>1. \A b \in Strings : Len(b) >= Len(a) => XorDelta(a, XorDelta(a, b)) = b
    BY DeltaRestores, StringsAssumption DEF Bytes
  <2> QED
    BY <2>1, ReversedTwice, PairsReversedTwice DEF TransformsInvert
<1>2. ASSUME NEW a \in Seq(Bytes) PROVE BlocksTile(a)
  <2>1. \A size \in BlockSizes : size \in Nat /\ size > 0
    BY BlockSizesAssumption
  <2> QED
    BY <2>1, BlocksFill DEF BlocksTile
<1>3. Inv => BytesAllCovered
  <2>1. Inv /\ program = "delta" => world \in Seq(Bytes)
    BY DEF Inv, DeltaInv, DeltaTypeOK
  <2> QED
    BY <1>1, <1>2, <2>1 DEF BytesAllCovered
<1> QED
  BY <1>3, Invariance, PTL
=============================================================================
