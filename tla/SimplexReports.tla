---------------------------- MODULE SimplexReports ----------------------------
(***************************************************************************)
(* SimplexWork with the ladder of sa_recompute_locked in its reports, and  *)
(* what that ladder and the one of a DawnHex pair have to be.              *)
(***************************************************************************)
EXTENDS SimplexWork, DuoLadder

CONSTANT Levels   \* energies and pressures of pairs

ASSUME LadderAssumption ==
  /\ Cfgs \union {LoadCfg} \subseteq Configurations /\ Ratios \subseteq Triples
  /\ \A c \in Cfgs \union {LoadCfg}, r \in Ratios : Ladder[c, r] = LadderOf(c, r)
ASSUME LevelsAssumption == Levels \subseteq Share

(* A report adds up, whatever configuration and base the callers gave.     *)
LadderAddsUp == [][report' # report => AddsUp(report'.ladder)]_vars

EveryPairSound ==
  /\ \A mode \in Modes \ {"crossed"}, e, u \in Levels : LaddersAgree(NeutralPair(mode, e, u))
  /\ \A mode \in Modes, e, f, u, v \in Levels :
       e >= f /\ u <= v => LadderFollows(PairOf(mode, e, u), PairOf(mode, f, v))

(* A ladder like those reported is what DawnHex makes of a neutral pair,   *)
(* and a pair with more energy and no more pressure retains no more at any *)
(* level than another of its mode.                                         *)
DuoLadderSound == [][report' # report => EveryPairSound]_vars
=============================================================================
