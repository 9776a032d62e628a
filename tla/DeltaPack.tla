------------------------------ MODULE DeltaPack ------------------------------
(***************************************************************************)
(* deltaffi.c with the M.pack and M.unpack of delta_link_ffi.lua: bytes    *)
(* are packed by run length in two calls, one that only measures and one   *)
(* that writes into a buffer of the measured size, and unpacked the same   *)
(* way.  A byte has Width values (256 in the code); the largest one marks  *)
(* a run, and is the longest run as well.  A stream may be cut on its way. *)
(***************************************************************************)
EXTENDS HostProgram, Integers, Sequences, SequencesExt

CONSTANTS Width,     \* values of a byte
          Inputs     \* the data that are packed, and the streams unpacked

ASSUME WidthAssumption == Width \in Nat /\ Width >= 2
ASSUME InputsAssumption == Inputs \subseteq Seq(0..Width - 1)

Marker == Width - 1
RunLimit == Width - 1
MinRun == 4
Unset == -1          \* what no call has written to a new buffer

Delta(label) == At("delta", label)

(* A call starts over on a source; size is that of its buffer, none in the *)
(* call that only measures.                                                *)
Call(label, src, size, need) ==
  Becomes(label, [mem EXCEPT !.src = src, !.read = 0, !.wrote = 0, !.need = need,
                             !.out = [k \in 1..size |-> Unset]])

(* M.pack is given data, or M.unpack a stream that may come from anywhere. *)
DeltaInit ==
  /\ program = "delta" /\ world \in Inputs
  /\ \/ /\ pc = "pack"
        /\ mem = [src |-> world, read |-> 0, wrote |-> 0, out |-> <<>>, need |-> Unset,
                  from |-> "pack", corrupt |-> FALSE]
     \/ /\ pc = "unpack"
        /\ mem = [src |-> world, read |-> 0, wrote |-> 0, out |-> <<>>, need |-> Unset,
                  from |-> "anywhere", corrupt |-> FALSE]

Rest == SubSeq(mem.src, mem.read + 1, Len(mem.src))
AllRead == mem.read = Len(mem.src)
Measured == mem.need # Unset

(* One round of a loop reads n bytes of the source and has chunk to write: *)
(* a byte with no place in the buffer is counted all the same.             *)
Counted(chunk) == mem.wrote + Len(chunk)
Stored(chunk) ==
  [k \in DOMAIN mem.out |-> IF k - mem.wrote \in DOMAIN chunk THEN chunk[k - mem.wrote]
                            ELSE mem.out[k]]
Takes(n, chunk, out) ==
  Becomes(pc, [mem EXCEPT !.read = @ + n, !.wrote = Counted(chunk), !.out = out])

(* Mutant: a run is not cut at its longest. *)
LongestRunWhole(bytes, n) == n = Len(bytes) \/ bytes[n + 1] # bytes[1]

LongestRun(bytes, n) == n = RunLimit \/ n = Len(bytes) \/ bytes[n + 1] # bytes[1]
Run(bytes) ==
  CHOOSE n \in 1..Len(bytes) :
    LongestRun(bytes, n) /\ \A k \in 1..n : bytes[k] = bytes[1] /\ (k < n => ~LongestRun(bytes, k))

PackedRun(b, run) ==
  IF run >= MinRun \/ b = Marker THEN <<Marker, run % Width, b>> ELSE [k \in 1..run |-> b]

(* The three bytes of a run are written together or not at all. *)
PackRun ==
  /\ Delta("pack") /\ ~AllRead
  /\ LET n == Run(Rest)
         chunk == PackedRun(Rest[1], n)
     IN Takes(n, chunk, IF chunk[1] = Marker /\ Counted(chunk) > Len(mem.out) THEN mem.out
                        ELSE Stored(chunk))

EndPack ==
  /\ Delta("pack") /\ AllRead
  /\ IF Measured THEN Becomes("packed", mem) ELSE Call("pack", mem.src, mem.wrote, mem.wrote)

(* The stream goes to M.unpack, whole or cut after its first n bytes. *)
Ship ==
  /\ Delta("packed")
  /\ \E n \in 0..mem.wrote :
       /\ pc' = "unpack" /\ UNCHANGED <<program, world>>
       /\ mem' = [src |-> SubSeq(mem.out, 1, n), read |-> 0, wrote |-> 0, out |-> <<>>,
                  need |-> Unset, from |-> IF n = mem.wrote THEN "pack" ELSE "cut",
                  corrupt |-> FALSE]

(* The call returns 0. *)
Truncated == Becomes(pc, [mem EXCEPT !.read = Len(mem.src), !.wrote = 0])

UnpackLiteral ==
  /\ Delta("unpack") /\ ~AllRead /\ Rest[1] # Marker
  /\ Takes(1, <<Rest[1]>>, Stored(<<Rest[1]>>))

UnpackRun ==
  /\ Delta("unpack") /\ ~AllRead /\ Rest[1] = Marker
  /\ IF Len(Rest) < 3 THEN Truncated
     ELSE LET chunk == [k \in 1..Rest[2] |-> Rest[3]] IN Takes(3, chunk, Stored(chunk))

(* A stream that gives nothing is corrupt, unless it is empty.             *)
EndUnpack ==
  /\ Delta("unpack") /\ AllRead
  /\ IF mem.wrote = 0 /\ mem.src # <<>> THEN Becomes("exited", [mem EXCEPT !.corrupt = TRUE])
     ELSE IF Measured THEN Becomes("exited", mem)
     ELSE Call("unpack", mem.src, mem.wrote, mem.wrote)

DeltaNext == PackRun \/ EndPack \/ Ship \/ UnpackLiteral \/ UnpackRun \/ EndUnpack

-----------------------------------------------------------------------------
(* What is packed and shipped whole unpacks to the data, whatever the runs *)
(* and the markers in it.                                                  *)
PackedUnpacks ==
  (Delta("exited") /\ mem.from = "pack") => ~mem.corrupt /\ mem.out = world

(* A stream that was cut is called corrupt, or gives the beginning of the  *)
(* data and less than all of it.                                           *)
CutStreamsDetected ==
  (Delta("exited") /\ mem.from = "cut") =>
    mem.corrupt \/ (IsStrictPrefix(mem.out, world))

(* The call that writes fills exactly what the call that measured told,    *)
(* for any stream; it never finds a corruption the first did not find.     *)
MeasuredIsWritten ==
  (program = "delta" /\ Measured) =>
    /\ mem.wrote <= mem.need /\ ~mem.corrupt
    /\ pc \in {"packed", "exited"} =>
         /\ mem.wrote = mem.need /\ Len(mem.out) = mem.need
         /\ \A k \in DOMAIN mem.out : mem.out[k] # Unset

(* A stream unpacks to what was packed, or is found to be cut, into memory *)
(* of the measured size.                                                   *)
StreamsUnpack == PackedUnpacks /\ CutStreamsDetected /\ MeasuredIsWritten
=============================================================================
