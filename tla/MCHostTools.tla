---------------------------- MODULE MCHostTools ----------------------------
(***************************************************************************)
(* Small instances of the host programs for TLC: bytes of three bits, with *)
(* runs longer than the longest one that can be packed.                    *)
(***************************************************************************)
EXTENDS CausticReports, DeltaTransforms, Bitwise

CONSTANTS t1, t2, author, origin

PackInputs == SeqOf({0, Marker}, RunLimit + 2) \union SeqOf({0, 1, Marker}, 4)
ShortStrings == SeqOf({0, 1, Marker}, 4) \union SeqOf({0, Marker}, 7)
BitXor(x, y) == x ^^ y

(* An empty value, a text of one byte, and one that ends with its NUL. *)
SomeValues == {[size |-> 0, text |-> 0], [size |-> 1, text |-> 1], [size |-> 2, text |-> 1]}

-----------------------------------------------------------------------------
(* Files at both sides of every limit of the scores, names of 12 bytes. *)
SomeMemories == {[used |-> u, total |-> 8192] : u \in {0, 5000, 8192}} \union {[used |-> 0, total |-> 0]}
SomeLengths == {12}
SomeSamples == UNION
  {[ok : BOOLEAN, size : {0, 30000, Million}, age : {-1, 3600, 3601, 86400, 700000, 3000000},
    count : {n}, nameBytes : {12 * n}, path : {"campaign", "creative", "audience", "other"},
    gpuOk : BOOLEAN, vram : SomeMemories, gtt : SomeMemories] : n \in 0..12}
=============================================================================
