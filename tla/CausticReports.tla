--------------------------- MODULE CausticReports ---------------------------
(***************************************************************************)
(* HostTools with the scores of compute_magenta_scores in what a pass of   *)
(* the sampler posts, and how those scores have to be ordered.             *)
(***************************************************************************)
EXTENDS HostTools

CONSTANTS
  Samples,      \* what a pass may have read
  Memories,     \* amounts of memory in use
  NameLengths   \* bytes of the name of one more attribute

(* The kernel lists at most 64 KiB of names, each at least a byte and its  *)
(* NUL, so that the product of line 414 stays in its u32.  Of a card's     *)
(* memory no more than all is in use.                                      *)
MaxNameBytes == 2^16
Memory == {m \in [used : Nat, total : Nat] : m.used <= m.total}
Sample ==
  [ok : BOOLEAN, size : Nat, age : Int,
   count : 0..(MaxNameBytes \div 2), nameBytes : 0..MaxNameBytes,
   path : {"campaign", "creative", "audience", "other"},
   gpuOk : BOOLEAN, vram : Memory, gtt : Memory]

ASSUME SamplesAssumption ==
  Samples \subseteq Sample /\ Memories \subseteq Memory /\ NameLengths \subseteq Nat

Named(s, n) == [s EXCEPT !.count = @ + 1, !.nameBytes = @ + n]
InUse(s, more) == [s EXCEPT !.vram = more]
InUseOutside(s, more) == [s EXCEPT !.gtt = more]
Older(s) == [s EXCEPT !.age = @ + 1]
Fuller(m) == {more \in Memories : more.total = m.total /\ more.used >= m.used}

SharesInOrder == \A s \in Samples :
  LET ratio == CausalRatio(s)
  IN /\ {Density(s), Pressure(s), XattrWeight(s), Interest(s), Quality(s), ratio} \subseteq 0..Million
     /\ \A n \in NameLengths : CausalRatio(Named(s, n)) >= ratio
     /\ \A more \in Fuller(s.vram) : CausalRatio(InUse(s, more)) <= ratio
     /\ \A more \in Fuller(s.gtt) : CausalRatio(InUseOutside(s, more)) <= ratio
     /\ s.age >= 0 => CausalRatio(Older(s)) <= ratio

(* The scores a pass posts are shares, and the causal ratio falls with the *)
(* memory in use and with the age of the file and rises with each further  *)
(* attribute, through all clamps and roundings, whatever was sampled.      *)
ScoresOrdered == Caustic("post") => SharesInOrder
=============================================================================
