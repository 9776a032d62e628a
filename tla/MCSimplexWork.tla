---------------------------- MODULE MCSimplexWork ----------------------------
(***************************************************************************)
(* Small instances for TLC: of SimplexWork, with two configurations whose  *)
(* ladders differ; and of the ladders, with the numbers of the source.     *)
(***************************************************************************)
EXTENDS SimplexReports, TLC

CONSTANTS c1, c2, s1, loader, badCfg, page, other

(* Fewer levels and nodes, and clamps that let a node keep the whole. *)
SmallCfg == [Defaults EXCEPT !.levels = 2, !.nodes = 5, !.max = Ppm, !.flags = {"chip_relay"}]

UserCfgs == {SmallCfg}
BaseRatios == {LoadRatios}
PageBase == [key |-> page, ratios |-> LoadRatios]
LadderTable == <<Defaults, LoadRatios>> :> LadderOf(Defaults, LoadRatios)
               @@ <<SmallCfg, LoadRatios>> :> LadderOf(SmallCfg, LoadRatios)
LaddersOfInputs == LadderTable

LevelsOfPairs == {0, 450000, Ppm}
=============================================================================
