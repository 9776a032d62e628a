----------------------------- MODULE HostProgram -----------------------------
(***************************************************************************)
(* The state of one host program among those beside the kernel modules:    *)
(* which program it is, where it is, its memory, a record, and the part of *)
(* the world it works on.  A program ends at "exited", and is "undefined"  *)
(* after an access outside its memory.                                     *)
(***************************************************************************)
VARIABLES program, pc, mem, world
vars == <<program, pc, mem, world>>

At(prog, label) == program = prog /\ pc = label

(* The program goes on to label with memory m; the world stays. *)
Becomes(label, m) == pc' = label /\ mem' = m /\ UNCHANGED <<program, world>>

(* Others change the world. *)
Meanwhile(w) == world' = w /\ UNCHANGED <<program, pc, mem>>

Ended == pc \in {"exited", "undefined"}
=============================================================================
