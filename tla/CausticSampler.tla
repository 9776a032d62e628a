--------------------------- MODULE CausticSampler ---------------------------
(***************************************************************************)
(* caustic.c: a sampler that reads a file's size and extended attributes   *)
(* again and again, builds a payload of them and posts it.  Each system    *)
(* call is a step, because others change the file between two calls: the   *)
(* attributes are listed twice, each time with one call for the size and   *)
(* one for the names, and each value is read the same way.  A call may be  *)
(* refused for a reason of its own, on a file nobody changes too: a right  *)
(* that is missing, a file system without attributes, an I/O error.        *)
(* The world is the file and, as history since the pass began, what was    *)
(* changed in it or refused, and whether anything was added.               *)
(***************************************************************************)
EXTENDS HostProgram, Integers, FiniteSets, Functions

CONSTANTS AttrNames,   \* names of equal length, so that a list of names is
                       \* as long as it has names
          Values,      \* values: their length, and that of the text before
                       \* the first NUL, all of it when there is none
          FileSizes    \* sizes of the file

ASSUME AttrNamesAssumption == IsFiniteSet(AttrNames) /\ {"stat", "list"} \cap AttrNames = {}
ASSUME FileAssumption == FileSizes \subseteq Nat
ASSUME ValuesAssumption ==
  Values \subseteq {v \in [size : Nat, text : Nat] : v.text <= v.size}

NoFile == -1   \* what stands for the size where there is no file
NoName == "none"
Caustic(label) == At("caustic", label)

(* The attributes a file has, each with its value. *)
Attributes == UNION {[names -> Values] : names \in SUBSET AttrNames}

(* setxattr, and the building of a list name by name. *)
With(attrs, name, value) ==
  [n \in DOMAIN attrs \union {name} |-> IF n = name THEN value ELSE attrs[n]]

Listing == DOMAIN world.attrs
NoFileThere == world.size = NoFile

(* What a pass asks of the system about the file: the stat, the list of    *)
(* the names, and the value of each.                                       *)
Questions == AttrNames \union {"stat", "list"}

CausticInit ==
  /\ program = "caustic" /\ pc = "pass"
  /\ mem \in [once : BOOLEAN, xattrs : BOOLEAN, size : {NoFile}, count : {0}, room : {0},
              todo : {{}}, next : {NoName}, ok : {FALSE}, listed : {<<>>}]
  /\ world \in [size : FileSizes, attrs : Attributes, astray : {{}}, filled : {FALSE}]

(* A call is refused, and the program goes on to label with memory m. *)
Refused(question, label, m) ==
  /\ pc' = label /\ mem' = m /\ UNCHANGED program
  /\ world' = [world EXCEPT !.astray = @ \union {question}]

(* Mutant: the last pass's attributes are kept until they are read again. *)
BeginPassOver ==
  /\ Caustic("pass") /\ UNCHANGED program
  /\ pc' = IF mem.xattrs THEN "countSize" ELSE "post"
  /\ \E refused \in BOOLEAN :
       /\ mem' = [mem EXCEPT !.size = IF refused THEN NoFile ELSE world.size]
       /\ world' = [world EXCEPT !.astray = IF refused THEN {"stat"} ELSE {}, !.filled = FALSE]

(* main and build_payload_json: a new payload, and the stat. *)
BeginPass ==
  /\ Caustic("pass") /\ UNCHANGED program
  /\ pc' = IF mem.xattrs THEN "countSize" ELSE "post"
  /\ \E refused \in BOOLEAN :
       /\ mem' = [mem EXCEPT !.size = IF refused THEN NoFile ELSE world.size,
                               !.count = 0, !.room = 0, !.ok = FALSE, !.listed = <<>>]
       /\ world' = [world EXCEPT !.astray = IF refused THEN {"stat"} ELSE {}, !.filled = FALSE]

(* listxattr without a buffer tells the room the names need.               *)
CountSize ==
  /\ Caustic("countSize")
  /\ \/ NoFileThere /\ Becomes("listSize", mem)
     \/ ~NoFileThere /\ Becomes("countNames", [mem EXCEPT !.room = Cardinality(Listing)])
     \/ Refused("list", "listSize", mem)

(* A call with a buffer fails when the buffer is too small, except that a  *)
(* buffer of no bytes only asks for the size again: what the program then  *)
(* reads or writes lies behind its one byte of memory.                     *)
Outcome(size) == IF NoFileThere \/ (mem.room > 0 /\ size > mem.room) THEN "failed"
                 ELSE IF mem.room = 0 /\ size > 0 THEN "outside" ELSE "read"

(* count_xattrs, then compute_magenta_scores. *)
CountNames ==
  /\ Caustic("countNames")
  /\ \/ Outcome(Cardinality(Listing)) = "failed" /\ Becomes("listSize", mem)
     \/ Outcome(Cardinality(Listing)) = "outside" /\ Becomes("undefined", mem)
     \/ /\ Outcome(Cardinality(Listing)) = "read"
        /\ Becomes("listSize", [mem EXCEPT !.count = Cardinality(Listing)])
     \/ Refused("list", "listSize", mem)

(* append_xattrs_json lists the names anew, or says that it could not. *)
ListSize ==
  /\ Caustic("listSize")
  /\ \/ NoFileThere /\ Becomes("post", mem)
     \/ ~NoFileThere /\ Becomes("listNames", [mem EXCEPT !.room = Cardinality(Listing)])
     \/ Refused("list", "post", mem)

ListNames ==
  /\ Caustic("listNames")
  /\ \/ Outcome(Cardinality(Listing)) = "failed" /\ Becomes("post", mem)
     \/ Outcome(Cardinality(Listing)) = "outside" /\ Becomes("undefined", mem)
     \/ /\ Outcome(Cardinality(Listing)) = "read"
        /\ Becomes("valueSize", [mem EXCEPT !.todo = Listing, !.ok = TRUE])
     \/ Refused("list", "post", mem)

(* An attribute that is gone, has grown since its size was asked, or whose *)
(* value may not be read, is passed over.                                  *)
ValueSize ==
  /\ Caustic("valueSize")
  /\ \/ mem.todo = {} /\ Becomes("post", [mem EXCEPT !.next = NoName])
     \/ \E name \in mem.todo :
          LET rest == [mem EXCEPT !.todo = @ \ {name}]
          IN \/ name \notin Listing /\ Becomes("valueSize", rest)
             \/ /\ name \in Listing
                /\ Becomes("value", [rest EXCEPT !.room = world.attrs[name].size, !.next = name])
             \/ Refused(name, "valueSize", rest)

ValueOutcome(name) ==
  IF name \notin Listing THEN "failed" ELSE Outcome(world.attrs[name].size)

(* json_escape_append writes the value as a C string, to its first NUL. *)
Value ==
  LET after == [mem EXCEPT !.room = 0, !.next = NoName]
  IN /\ Caustic("value")
     /\ \/ ValueOutcome(mem.next) = "failed" /\ Becomes("valueSize", after)
        \/ ValueOutcome(mem.next) = "outside" /\ Becomes("undefined", mem)
        \/ /\ ValueOutcome(mem.next) = "read"
           /\ Becomes("valueSize", [after EXCEPT !.listed = With(@, mem.next, world.attrs[mem.next].text)])
        \/ Refused(mem.next, "valueSize", after)

(* Mutant: a post that fails ends the sampler. *)
AfterPostMustSucceed(posted) == IF mem.once \/ ~posted THEN "exited" ELSE "pass"

AfterPost(posted) == IF mem.once THEN "exited" ELSE "pass"

(* post_payload fails or not, which main only logs; then the sleep. *)
Post == Caustic("post") /\ \E posted \in BOOLEAN : Becomes(AfterPost(posted), mem)

-----------------------------------------------------------------------------
(* Others set, change and remove attributes, replace and delete the file.  *)
FileBecomes(size, attrs, changed, filled) ==
  Meanwhile([size |-> size, attrs |-> attrs, astray |-> world.astray \union changed,
             filled |-> world.filled \/ filled])

(* An attribute is overwritten, with its length or another. *)
SetAttribute ==
  /\ program = "caustic"
  /\ \E name \in Listing, value \in Values :
       FileBecomes(world.size, With(world.attrs, name, value), {name}, world.attrs[name].size = 0)
AddAttribute ==
  /\ program = "caustic" /\ ~NoFileThere
  /\ \E name \in AttrNames \ Listing, value \in Values :
       FileBecomes(world.size, With(world.attrs, name, value), {name, "list"}, TRUE)
RemoveAttribute ==
  /\ program = "caustic"
  /\ \E name \in Listing :
       FileBecomes(world.size, Restrict(world.attrs, Listing \ {name}), {name, "list"}, FALSE)
Replace ==
  /\ program = "caustic"
  /\ \E size \in FileSizes \union {NoFile} :
       size # world.size /\ FileBecomes(size, <<>>, Listing \union {"stat", "list"}, FALSE)

CausticStep ==
  BeginPass \/ CountSize \/ CountNames \/ ListSize \/ ListNames \/ ValueSize \/ Value \/ Post
CausticNext == CausticStep \/ SetAttribute \/ AddAttribute \/ RemoveAttribute \/ Replace

-----------------------------------------------------------------------------
(* The report at the end of a pass: what nobody changed since it began,    *)
(* and no call was refused for, is as the file has it, whatever became of  *)
(* the rest.                                                               *)
SureIsReported ==
  /\ "stat" \notin world.astray => mem.size = world.size
  /\ mem.xattrs /\ "list" \notin world.astray =>
       mem.count = Cardinality(Listing) /\ mem.ok = ~NoFileThere
  /\ mem.ok => \A name \in AttrNames \ world.astray :
       IF name \in Listing
       THEN name \in DOMAIN mem.listed /\ mem.listed[name] = world.attrs[name].text
       ELSE name \notin DOMAIN mem.listed

(* Others that change the file between two calls spoil in a report what    *)
(* they change, or the list of the names as a whole, but no other value;   *)
(* and only an attribute that is added, or had no bytes and is given some, *)
(* makes a pass leave its memory.                                          *)
PassIsHonest ==
  program = "caustic" =>
    /\ pc = "undefined" => world.filled
    /\ pc = "post" => SureIsReported

(* A sampler asked for one pass ends; another samples for ever, whatever   *)
(* becomes of its posts and of the file, unless it leaves its memory.      *)
SamplingGoesOn ==
  program = "caustic" =>
    IF mem.once THEN <>Ended ELSE []<>Caustic("pass") \/ <>(pc = "undefined")
=============================================================================
