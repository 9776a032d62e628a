--------------------------- MODULE DeltaTransforms ---------------------------
(***************************************************************************)
(* The other exports of deltaffi.c: two reversals, the delta of two        *)
(* strings, and the blocks that are hashed.  Each returns a new buffer and *)
(* keeps nothing, so each is an operator on the data of a program.         *)
(***************************************************************************)
EXTENDS DeltaPack

CONSTANTS Strings,         \* the other strings of a delta
          BlockSizes,      \* sizes asked for; M.block_hashes divides by them
          XorBytes(_, _)   \* of two bytes

ASSUME StringsAssumption == Strings \subseteq Seq(0..Width - 1)
ASSUME BlockSizesAssumption == BlockSizes \subseteq Nat \ {0}
ASSUME XorAssumption ==
  \A x, y \in 0..Width - 1 : XorBytes(x, y) \in 0..Width - 1 /\ XorBytes(x, XorBytes(x, y)) = y

(* The bytes backwards. *)
ReverseCanonical(src) == [k \in 1..Len(src) |-> src[Len(src) + 1 - k]]

(* The pairs backwards, each as it was; an odd last byte stays. *)
InterReversed(src) ==
  LET paired == 2 * (Len(src) \div 2)
  IN [k \in 1..Len(src) |->
        IF k > paired THEN src[k]
        ELSE IF k % 2 = 1 THEN src[paired - k] ELSE src[paired - k + 2]]

(* Mutant: the delta ends with the shorter one. *)
XorDeltaShort(a, b) ==
  [k \in 1..(IF Len(a) < Len(b) THEN Len(a) ELSE Len(b)) |-> XorBytes(a[k], b[k])]

XorDelta(a, b) ==
  LET Byte(s, k) == IF k <= Len(s) THEN s[k] ELSE 0
  IN [k \in 1..(IF Len(a) > Len(b) THEN Len(a) ELSE Len(b)) |-> XorBytes(Byte(a, k), Byte(b, k))]

(* What dl_block_hashes hashes, with the room M.block_hashes gives it: the *)
(* hash of a block is the block.                                           *)
Room(data, size) == IF data = <<>> THEN 1 ELSE (Len(data) + size - 1) \div size
Blocks(data, size, cap) ==
  LET Start(k) == (k - 1) * size
      End(k) == IF Start(k) + size > Len(data) THEN Len(data) ELSE Start(k) + size
  IN IF data = <<>> THEN <<data>>
     ELSE [k \in {r \in 1..cap : Start(r) < Len(data)} |-> SubSeq(data, Start(k) + 1, End(k))]

-----------------------------------------------------------------------------
(* Reversing twice, in bytes and in pairs, and adding a delta of two       *)
(* strings to the one restore the other, at odd and unequal lengths too.   *)
TransformsInvert(a) ==
  /\ ReverseCanonical(ReverseCanonical(a)) = a
  /\ InterReversed(InterReversed(a)) = a
  /\ \A b \in Strings : Len(b) >= Len(a) => XorDelta(a, XorDelta(a, b)) = b

(* The blocks that are hashed fill the room, are of full size but for the *)
(* last, which has the rest, and each byte is in its place in one of them. *)
BlocksTile(a) == \A size \in BlockSizes :
  LET room == Room(a, size)
      blocks == Blocks(a, size, room)
  IN /\ DOMAIN blocks = 1..room
     /\ \A k \in 1..room : Len(blocks[k]) = IF k < room THEN size ELSE Len(a) - (room - 1) * size
     /\ \A i \in DOMAIN a : blocks[(i - 1) \div size + 1][((i - 1) % size) + 1] = a[i]

(* No byte of the data a program has is lost by a transform, whatever the  *)
(* other string of a delta, or left out of a hash.                         *)
BytesAllCovered ==
  (program = "delta" /\ ~Measured /\ mem.read = 0) =>
    TransformsInvert(world) /\ BlocksTile(world)
=============================================================================
