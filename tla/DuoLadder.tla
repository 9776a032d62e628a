------------------------------ MODULE DuoLadder ------------------------------
(***************************************************************************)
(* dh_duo_recompute_simplex_locked of dawnhex_kmod.c: the retained ratios  *)
(* of the ladder each pulse of a pair recomputes, and what they share with *)
(* the ladder of the Simplex adalter module.  A pair is a record of its    *)
(* mode, quotient, refraction, energy and pressure.                        *)
(***************************************************************************)
EXTENDS SimplexLadder

Quotient(mode) == CASE mode \in {"out", "in"} -> Ppm [] mode = "crossed" -> 1250000 [] OTHER -> 0

Refraction(mode) == CASE mode = "out" -> 1010200 [] mode = "in" -> 1020300
                      [] mode = "crossed" -> 1044400 [] OTHER -> Ppm

BaseFactor(mode) == CASE mode = "out" -> 980000 [] mode = "in" -> 1020000
                      [] mode = "crossed" -> 960000 [] OTHER -> Ppm

BaseRetained(p) ==
  Clamp(MulPpm(10200 + (Ppm - p.energy) \div 20 + p.pressure \div 25, BaseFactor(p.mode)),
        10200, 120000)

DuoNode(p, w, i, n) ==
  LET Limit(v) == Clamp(v, 10200, 120000)
      armed == Limit(MulQ16(MulQ16(BaseRetained(p), 77857), 114688))
      added == Limit(armed + MulQ16(10200 + ((n - 1) % 4) * 1275, 27525))
      leveled == MulPpm(MulQ16(added, 67830), Ppm - MulPpm(w, 144000))
      noded == MulPpm(leveled, Ppm - ((n - 1) * 21000) \div (NodesPerLevel - 1))
      phased == MulPpm(noded, Ppm - (i * 10200) \div 100 - ((n - 1) * 10200) \div 200)
      refracted == MulPpm(phased, Clamp(p.refraction, 900000, 1200000))
      biased == MulPpm(refracted, Clamp(p.quotient, 800000, 1250000))
      crossed == IF p.mode = "crossed" THEN MulPpm(biased, 970000) ELSE biased
  IN Limit(MulPpm(MulPpm(crossed, 940000), 980000))

DuoLevel(p, i) ==
  LET w == FibWeight(i, MaxLevels)
  IN SumUpTo([n \in 1..NodesPerLevel |-> DuoNode(p, w, i, n)], NodesPerLevel)
       \div NodesPerLevel

DuoRetained(p) == Computed([i \in 1..MaxLevels |-> DuoLevel(p, i)])

-----------------------------------------------------------------------------
Modes == {"out", "in", "crossed", "other"}

(* No mode leaves both factors neutral; a pair that had them so compares   *)
(* what the two copies of the ladder share.                                *)
PairOf(mode, energy, pressure) ==
  [mode |-> mode, quotient |-> Quotient(mode), refraction |-> Refraction(mode),
   energy |-> energy, pressure |-> pressure]
NeutralPair(mode, energy, pressure) ==
  [PairOf(mode, energy, pressure) EXCEPT !.quotient = Ppm, !.refraction = Ppm]

(* The module parameters when nobody gives any. *)
Defaults == [levels |-> MaxLevels, nodes |-> NodesPerLevel, min |-> 10200, max |-> 120000,
             levelGain |-> 144000, nodeGain |-> 21000, phaseGain |-> 10200,
             arm |-> 77857, adder |-> 27525, modifier |-> 67830, uScalar |-> 114688,
             knot |-> 32086, flags |-> {"supercompute", "chip_relay"}]

(* The base of simplex_init. *)
LoadRatios == [retained |-> 10200, crosshatch |-> 812500, coldness |-> 904400]

(* The two implementations of the ladder agree: when the factors a pair    *)
(* adds are neutral, DawnHex retains at every level what the Simplex       *)
(* adalter module retains from the same base.                              *)
LaddersAgree(p) ==
  LET adalter == LadderOf(Defaults, [LoadRatios EXCEPT !.retained = BaseRetained(p)])
      duo == DuoRetained(p)
  IN \A i \in 1..MaxLevels : adalter.levels[i].retained = duo[i]

(* "pair energy high -> more aggressive compression, pair pressure high -> *)
(* preserve more" holds of every level of the ladder, through all clamps.  *)
LadderFollows(p, q) ==
  LET less == DuoRetained(p)
      more == DuoRetained(q)
  IN \A i \in 1..MaxLevels : less[i] <= more[i]
=============================================================================
