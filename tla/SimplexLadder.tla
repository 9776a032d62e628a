---------------------------- MODULE SimplexLadder ----------------------------
(***************************************************************************)
(* sa_recompute_locked of simplex_adalter_kmod.c: the Fibonacci ladder of  *)
(* levels and nodes, with the constants of the source and results exact to *)
(* the last digit.  A ratio is a number of millionths (ppm) or of 65536ths *)
(* (q16).  TLC's integers have 32 bits where the code has u64, so products *)
(* are put together from parts.  The configurations are those for which no *)
(* u32 difference goes below zero; the u32 products that do wrap with the  *)
(* default configuration (lines 258 and 263) are kept.                     *)
(***************************************************************************)
EXTENDS Integers, Sequences

Ppm == 1000000
MaxLevels == 22
NodesPerLevel == 12

Clamp(v, lo, hi) == IF v < lo THEN lo ELSE IF v > hi THEN hi ELSE v

(* (a * b + u/2) \div u for u = r * r. *)
Scaled(a, b, r) ==
  LET u == r * r
      x == (a % u) * ((b % u) \div r)
  IN (a \div u) * b + (a % u) * (b \div u) + x \div r
     + ((x % r) * r + (a % u) * (b % r) + u \div 2) \div u
MulPpm(a, b) == Scaled(a, b, 1000)
MulQ16(a, b) == Scaled(a, b, 256)

(* ((w * 32 * m) % 2^32) \div Ppm: what is left of a share of w when the   *)
(* product is taken in u32.                                                *)
WrappedShare(w, m) ==
  (((((w \div 1024) * m) % 2^17) * 1024 + (w % 1024) * m) % 2^27) \div 31250

(* f[1] + ... + f[n].  Not a fold: TLC would take what is made of it for a *)
(* state predicate, and compute it anew in every state.                    *)
SumUpTo(f, n) ==
  LET sum[k \in 0..n] == IF k = 0 THEN 0 ELSE sum[k - 1] + f[k] IN sum[n]

(* The number of level i after the one before it. *)
FibPair[i \in 1..MaxLevels] ==
  IF i = 1 THEN <<0, 1>>
  ELSE LET last == FibPair[i - 1] IN <<last[2], last[1] + last[2]>>
Fib(i) == FibPair[i][2]

(* Mutant: all levels count, whatever the configuration has. *)
FibTotalAll(levels) == SumUpTo([i \in 1..MaxLevels |-> Fib(i)], MaxLevels)

FibTotal(levels) == SumUpTo([i \in 1..levels |-> Fib(i)], levels)
FibWeight(i, levels) ==
  LET x == Fib(i) * 1000
      t == FibTotal(levels)
  IN 1000 * (x \div t) + ((x % t) * 1000) \div t

(* A sequence as it is; TLC computes the elements of a concatenation once. *)
Computed(s) == <<>> \o s

MipWeights == <<2400000, 1850000, 1400000, 1050000, 800000, 600000, 450000, 300000, 200000>>
Mips(retained) == Computed([m \in 1..9 |-> Clamp(MulPpm(retained, MipWeights[m]), 1000, Ppm)])

-----------------------------------------------------------------------------
(* One node: level i from 1, node n from 1 (in the source both are from 0). *)

NodeScalar(c, n, nodes) ==
  IF nodes > 1 THEN Ppm - ((n - 1) * c.nodeGain) \div (nodes - 1) ELSE Ppm

(* Mutant: levels from zero. *)
PhaseScalarFromZero(c, i, n) ==
  Ppm - ((i - 1) * c.phaseGain) \div 100 - ((n - 1) * c.phaseGain) \div 200

PhaseScalar(c, i, n) == Ppm - (i * c.phaseGain) \div 100 - ((n - 1) * c.phaseGain) \div 200

Retained(c, retained, w, i, n, nodes) ==
  LET Limit(v) == Clamp(v, c.min, c.max)
      armed == Limit(MulQ16(MulQ16(retained, c.arm), c.uScalar))
      added == Limit(armed + MulQ16(10200 + ((n - 1) % 4) * 1275, c.adder))
      levelScalar == Ppm - MulPpm(w, c.levelGain)
      shaped == MulPpm(MulPpm(MulPpm(MulQ16(added, c.modifier), levelScalar),
                              NodeScalar(c, n, nodes)),
                       PhaseScalar(c, i, n))
      super == IF "supercompute" \in c.flags THEN MulPpm(shaped, 940000) ELSE shaped
      relay == IF "chip_relay" \in c.flags THEN MulPpm(super, 980000) ELSE super
  IN Limit(relay)

Crosshatch(crosshatch, w, n) ==
  Clamp(MulPpm(MulPpm(crosshatch, Ppm + WrappedShare(w, 3750)), Ppm - ((n - 1) % 4) * 15000), 0, Ppm)

Coldness(coldness, w, n) ==
  Clamp(MulPpm(MulPpm(coldness, Ppm + WrappedShare(w, 5625)), Ppm + ((n - 1) % 3) * 10000), 0, Ppm)

-----------------------------------------------------------------------------
Level(c, r, i, levels, nodes) ==
  LET w == FibWeight(i, levels)
      ret == Computed([n \in 1..nodes |-> Retained(c, r.retained, w, i, n, nodes)])
      Over(f) == SumUpTo(f, nodes) \div nodes
      retained == Over(ret)
  IN [weight |-> w,
      retained |-> retained,
      reduction |-> Over([n \in 1..nodes |-> Ppm - ret[n]]),
      crosshatch |-> Over([n \in 1..nodes |-> Crosshatch(r.crosshatch, w, n)]),
      coldness |-> Over([n \in 1..nodes |-> Coldness(r.coldness, w, n)]),
      energy |-> Over([n \in 1..nodes |-> MulQ16(ret[n], c.knot)]),
      mips |-> Mips(retained)]

OrDefault(v, default) == IF v = 0 THEN default ELSE IF v > default THEN default ELSE v

LadderOf(c, r) ==
  LET levels == OrDefault(c.levels, MaxLevels)
      nodes == OrDefault(c.nodes, NodesPerLevel)
      lvl == Computed([i \in 1..levels |-> Level(c, r, i, levels, nodes)])
      Average(f) == SumUpTo(f, levels) \div levels
  IN [levels |-> lvl, nodes |-> nodes,
      retained |-> Average([i \in 1..levels |-> lvl[i].retained]),
      reduction |-> Average([i \in 1..levels |-> lvl[i].reduction]),
      crosshatch |-> Average([i \in 1..levels |-> lvl[i].crosshatch]),
      coldness |-> Average([i \in 1..levels |-> lvl[i].coldness]),
      energy |-> Average([i \in 1..levels |-> lvl[i].energy])]

-----------------------------------------------------------------------------
(* Configurations and ratios for which nothing but the products of lines    *)
(* 258 and 263 leaves its u32: no more than the whole is kept or taken off. *)
Share == 0..Ppm
Factor == 0..2^20
Configurations ==
  [levels : Nat, nodes : Nat, min : Share, max : Share,
   levelGain : Share, nodeGain : Share, phaseGain : Share,
   arm : Factor, adder : Factor, modifier : Factor, uScalar : Factor, knot : Factor,
   flags : SUBSET {"supercompute", "chip_relay"}]
Triples == [retained : Share, crosshatch : Share, coldness : Share]

(* What a ladder retains and what it reduces add up to the whole but for   *)
(* the rounding of the divisions behind them, at each level and on         *)
(* average; the weights of the levels share the whole out; and every mip   *)
(* keeps no more than the one before it.                                   *)
AddsUp(l) ==
  LET Lost(x) == Ppm - (x.retained + x.reduction)
      n == Len(l.levels)
  IN /\ Lost(l) \in 0..2
     /\ Ppm - SumUpTo([i \in 1..n |-> l.levels[i].weight], n) \in 0..n
     /\ \A i \in 1..n : /\ Lost(l.levels[i]) \in 0..1
                        /\ \A m \in 1..8 : l.levels[i].mips[m] >= l.levels[i].mips[m + 1]
=============================================================================
