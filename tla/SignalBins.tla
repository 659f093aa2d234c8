------------------------------- MODULE SignalBins -------------------------------
(***************************************************************************)
(* How one signal at one position is binned and what shape the bins show:  *)
(* research/kernels/descriptive/binning.py, diagnostic/shape.py,           *)
(* diagnostic/stability.py and hypothesis/stratification.py.  The registry *)
(* (characterization) and the lens studies (qualification) both cut their  *)
(* bins with select_bucketing_scheme.                                      *)
(*                                                                         *)
(* A cell is the sample of one signal and position:                        *)
(*   n         rows with a signal and a target                             *)
(*   values    what the signal's values are like: "fdr" (one of the five   *)
(*             ratings), "few" (under ten distinct ones), "mostly_zero",   *)
(*             "spread"                                                    *)
(*   constant  the signal has one value                                    *)
(*   tied      quantile edges coincide                                     *)
(*   gaps      rows without a signal make its share of zeros look smaller  *)
(*   means     mean target per occupied bin, in rising order of the signal *)
(*   dense     how many of these bins have MIN_N_PER_BIN rows              *)
(* A signal that varies may still fall into one bin.                       *)
(***************************************************************************)
EXTENDS Integers, FiniteSetsExt, SequencesExt

Registered == 100 \* MIN_N_SHAPE
Stratified == 25  \* stratification.py's MIN_N

CONSTANT None \* None and NaN
ASSUME NoneIsNoNumber == None \notin Int

(* select_bucketing_scheme(): `rows` and `zeros` are the series' own length *)
(* and whether more than 0.60 of it is zero.                                *)
SchemeOf(values, rows, zeros, minimum) ==
  IF rows < minimum THEN "insufficient"
  ELSE CASE values = "fdr" -> "ordinal"
         [] values = "few" -> "discrete"
         [] OTHER          -> IF zeros THEN "two_stage" ELSE "quantile"

Scheme(c, minimum) == SchemeOf(c.values, c.n, c.values = "mostly_zero", minimum)

(* _stability_row() selects the scheme before rows without a signal are dropped. *)
StabilityScheme(c) == SchemeOf(c.values, c.n, c.values = "mostly_zero" /\ ~c.gaps, Registered)

MinActiveBins(scheme) ==
  CASE scheme = "discrete" -> 2 [] scheme \in {"ordinal", "two_stage"} -> 3 [] OTHER -> 4

--------------------------------------------------------------------------------
(* bin_analysis() *)

(* The labels of a two-stage cut are plain strings, so groupby sorts them:  *)
(* high_nz, low_nz, mid_nz, zero.                                           *)
BinOrder(scheme, means) ==
  IF scheme = "two_stage" THEN <<means[4], means[2], means[3], means[1]>> ELSE means

(* qcut is given five (or three) labels and drops coinciding edges: pandas  *)
(* refuses that.                                                            *)
CannotCut(c, scheme) == c.constant \/ (scheme \in {"two_stage", "quantile"} /\ c.tied)

(* Why there are no bins, or "". *)
NoBins(c, scheme) ==
  IF scheme = "insufficient" \/ c.n < Registered THEN "insufficient_support"
  ELSE IF CannotCut(c, scheme) THEN "degenerate" ELSE ""

(* Only the number of dense bins counts: a thin bin beside enough dense     *)
(* ones stays, and its mean takes part in the shape.                        *)
DensityFlag(c, scheme) ==
  IF c.dense >= MinActiveBins(scheme) THEN "" ELSE "insufficient_support:bin_density"

--------------------------------------------------------------------------------
(* classify_geometry() *)

Rises(m) == \A i \in 1..(Len(m) - 1) : m[i] < m[i + 1]
Falls(m) == \A i \in 1..(Len(m) - 1) : m[i] > m[i + 1]
RisesSomewhere(m) == \E i \in 1..(Len(m) - 1) : m[i] < m[i + 1]
FallsSomewhere(m) == \E i \in 1..(Len(m) - 1) : m[i] > m[i + 1]

Spread(m) == Max(ToSet(m)) - Min(ToSet(m))
Sum(m) == FoldLeft(LAMBDA a, b : a + b, 0, m)

(* The other bins stay within half of what the last (the first) bin adds;  *)
(* both sides times 2 * (Len - 1).                                         *)
TopStandsOut(m) ==
  LET lower == Front(m)
      lift  == Len(lower) * Last(m) - Sum(lower)
  IN  lift > 0 /\ 2 * Len(lower) * Spread(lower) < lift

BottomStandsOut(m) ==
  LET upper == Tail(m)
      drop  == Sum(upper) - Len(upper) * Head(m)
  IN  drop > 0 /\ 2 * Len(upper) * Spread(upper) < drop

Saturates(m) ==
  LET middle == m[(Len(m) \div 2) + 1]
      lower  == middle - Head(m)
      upper  == Last(m) - middle
  IN  lower > 0 /\ upper >= 0 /\ lower > 2 * upper

TailsOnly(m) == Spread(m) > 0 /\ 100 * Spread(Front(Tail(m))) < 15 * Spread(m)

Geometry(m) ==
  IF Len(m) < 3 THEN "indeterminate"
  ELSE IF Rises(m) THEN "monotonic_positive"
  ELSE IF Falls(m) THEN "monotonic_negative"
  ELSE IF Len(m) >= 4 /\ TopStandsOut(m) THEN "threshold_positive"
  ELSE IF Len(m) >= 4 /\ BottomStandsOut(m) THEN "threshold_negative"
  ELSE IF Len(m) >= 4 /\ Saturates(m) THEN "saturation"
  ELSE IF TailsOnly(m) THEN "asymmetric_tail"
  ELSE IF RisesSomewhere(m) /\ FallsSomewhere(m) THEN "non_monotonic"
  ELSE "indeterminate"

Monotonic == {"monotonic_positive", "monotonic_negative"}
UpperTail == {"threshold_positive", "threshold_negative", "saturation"}

(* _q_gap() *)
Gap(m, geometry) == IF geometry \in Monotonic THEN Last(m) - Head(m) ELSE None

--------------------------------------------------------------------------------
(* stability_classify(): does the gap keep its sign and size over the blocks? *)

Magnitude(k) == IF k < 0 THEN -k ELSE k

(* Mutant: the sign of a block's gap is not looked at. *)
UnsignedStability(pooled, gaps) ==
  LET valid == {b \in DOMAIN gaps : gaps[b] # None}
      sizes == {Magnitude(gaps[b]) : b \in valid}
  IN  IF Cardinality(valid) < 2 \/ pooled = None THEN "insufficient_data"
      ELSE IF 2 * Min(sizes) < Max(sizes) THEN "moderate_shift" ELSE "stable"

Stability(pooled, gaps) ==
  LET valid == {b \in DOMAIN gaps : gaps[b] # None}
      sizes == {Magnitude(gaps[b]) : b \in valid}
  IN  IF Cardinality(valid) < 2 \/ pooled = None THEN "insufficient_data"
      ELSE IF ~((\A b \in valid : gaps[b] > 0) \/ (\A b \in valid : gaps[b] < 0)) THEN "unstable"
      ELSE IF 2 * Min(sizes) < Max(sizes) THEN "moderate_shift" ELSE "stable"

--------------------------------------------------------------------------------
(* quintile_stratification(): five ordered groups, or None. *)

Quintiles(c) ==
  LET scheme == Scheme(c, Stratified)
  IN  IF scheme \in {"ordinal", "quantile"} /\ Len(c.means) = 5 /\ ~CannotCut(c, scheme)
        THEN c.means ELSE None

NeverFalls(m) == ~FallsSomewhere(m)
NeverRises(m) == ~RisesSomewhere(m)
================================================================================
