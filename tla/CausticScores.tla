---------------------------- MODULE CausticScores ----------------------------
(***************************************************************************)
(* compute_magenta_scores of caustic.c: the scores of one sample, with the *)
(* weights of the source, exact.  A sample is a record: ok, the file could *)
(* be read, its size, age in seconds (negative when the time of the last   *)
(* change is unknown or ahead of the clock), count and nameBytes of the    *)
(* extended attributes, path, the kind of word in the path, the card's     *)
(* memory, and whether it could be read.                                   *)
(***************************************************************************)
EXTENDS Integers

Million == 1000000
Capped(v, hi) == IF v > hi THEN hi ELSE v

(* (part * Million) \div whole for parts less than the whole, or less than *)
(* two of it, in steps that TLC's 32-bit integers hold.                    *)
Share(part, whole) ==
  ((part * 1000) \div whole) * 1000 + (((part * 1000) % whole) * 1000) \div whole

(* A card with no memory has no pressure.                                  *)
Pressure(s) ==
  LET Used(m) == IF m.total = 0 THEN 0 ELSE Share(m.used, m.total)
  IN IF s.gpuOk THEN (Used(s.vram) + Used(s.gtt)) \div 2 ELSE 0

Density(s) ==
  LET bytes == s.count * 4096 + s.nameBytes
      whole == IF s.size = 0 THEN 1 ELSE s.size
  IN IF ~s.ok THEN 0 ELSE IF bytes >= whole THEN Million ELSE Share(bytes, whole)

Freshness(s) ==
  LET Day == 86400
      Between(lo, hi) == s.ok /\ lo <= s.age /\ s.age <= hi
  IN CASE ~s.ok -> 400000
       [] s.ok /\ s.age < 0 -> 500000
       [] Between(0, 3600) -> Million
       [] Between(3601, Day) -> 850000
       [] Between(Day + 1, 7 * Day) -> 650000
       [] Between(7 * Day + 1, 30 * Day) -> 450000
       [] s.ok /\ 30 * Day < s.age -> 250000

PathWeight(s) ==
  CASE s.path = "campaign" -> 800000 [] s.path = "creative" -> 760000
    [] s.path = "audience" -> 820000 [] OTHER -> 550000

(* Mutant: the two limits of the clamp are swapped. *)
XattrWeightSwapped(s) == LET w == s.count * 90000 IN IF w > Million THEN 120000 ELSE w

XattrWeight(s) ==
  LET w == s.count * 90000 IN IF w < 120000 THEN 120000 ELSE Capped(w, Million)

(* The campaign and the advertiser are never empty: parse_args insists.    *)
IdWeight == 900000

Interest(s) ==
  Capped((Density(s) * 26 + Freshness(s) * 18 + XattrWeight(s) * 20 + IdWeight * 36) \div 100,
         Million)

Quality(s) ==
  Capped((Density(s) * 32 + Freshness(s) * 24 + PathWeight(s) * 18 + XattrWeight(s) * 26) \div 100,
         Million)

(* The pressure takes off at most what there is. *)
Penalized(causal, penalty) == IF causal > penalty THEN causal - penalty ELSE 0

CausalRatio(s) ==
  Capped(Penalized((Interest(s) * 65 + Quality(s) * 35) \div 100, Pressure(s) \div 5), Million)
=============================================================================
