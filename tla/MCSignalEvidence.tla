---------------------------- MODULE MCSignalEvidence ----------------------------
(***************************************************************************)
(* Every sample of five bins with mean targets 0..2, every rating, sparse  *)
(* and two-stage one likewise, with all bins dense, just enough of them or *)
(* one too few; thin, tied, constant and half-empty samples, at the sample *)
(* sizes around the two minima.  A two-stage cut of dense bins needs more  *)
(* rows: under 40 in 100 are not zero.                                     *)
(***************************************************************************)
EXTENDS SignalEvidence

MeansOf(lengths) == UNION {[1..k -> 0..2] : k \in lengths}

Sample(n, values, lengths) ==
  {[n |-> n, values |-> values, constant |-> FALSE, tied |-> FALSE, gaps |-> FALSE,
    means |-> m, dense |-> Len(m)] : m \in MeansOf(lengths)}

Full ==
  Sample(100, "spread", {5}) \cup Sample(100, "few", {1, 2, 3})
  \cup Sample(100, "fdr", {1, 3, 5}) \cup Sample(200, "mostly_zero", {4})

(* Mean targets up to 3, so that four bins can rise. *)
Steep == {[c EXCEPT !.means = m] : c \in Sample(200, "mostly_zero", {4}),
                                   m \in {<<0, 1, 2, 3>>, <<3, 1, 2, 0>>, <<3, 2, 1, 0>>}}

Ramps == {<<0, 1, 2, 3, 4>>, <<4, 3, 2, 1, 0>>, <<0, 0, 1, 2, 4>>, <<2, 2, 1, 0, 0>>}
Ramped == {[c EXCEPT !.n = n, !.means = m] : c \in Sample(100, "spread", {5}) \cup Sample(100, "fdr", {5}),
                                             n \in {24, 25, 99, 100}, m \in Ramps}

(* Just enough dense bins, or one too few; MIN_N_PER_BIN is 20. *)
Thinned(S) == {[c EXCEPT !.dense = d] : c \in S, d \in 0..4}
Thin ==
  {c \in Thinned(Sample(100, "few", {2, 3})) \cup Thinned(Ramped) \cup Thinned(Steep) :
     /\ c.dense < Len(c.means) /\ 20 * c.dense <= c.n
     /\ c.n >= 100 => MinActiveBins(Scheme(c, Registered)) - c.dense \in {0, 1}}

Odd == {[c EXCEPT !.tied = t, !.gaps = g] : c \in Steep, t \in BOOLEAN, g \in BOOLEAN}
       \cup {[c EXCEPT !.tied = TRUE] : c \in {r \in Ramped : r.values = "spread"}}
       \cup {[c EXCEPT !.constant = TRUE] : c \in {r \in Full : Len(r.means) = 1}}

MCCells == {c \in Full \cup Steep \cup {r \in Ramped : r.n >= 100} \cup Thin \cup Odd : TRUE}

(* A block has no bins, or bins that rise or fall by so much a step; the    *)
(* whole choice is given where the pooled bins rise or fall.  Where the     *)
(* blocks are cut otherwise than the pooled sample they have five bins.     *)
Ramp(c, step) ==
  IF StabilityScheme(c) = "two_stage" THEN [i \in 1..4 |-> step * <<4, 2, 3, 1>>[i]]
  ELSE [i \in 1..(IF c.gaps THEN 5 ELSE Len(c.means)) |-> step * i]

MCBlockSamples(c) ==
  LET m == BinOrder(Scheme(c, Registered), c.means)
  IN  {<<>>} \cup {Ramp(c, step) : step \in IF Rises(m) \/ Falls(m) THEN {-1, 1, 2, 3} ELSE {1}}

MCConfidences == {None, 59, 60, 79, 80}
MCDrops == {None, 20, 21}
MCLayers == {[layer |-> "performance", eligible |-> TRUE], [layer |-> "performance", eligible |-> FALSE],
             [layer |-> "valuation", eligible |-> FALSE], [layer |-> "exposure", eligible |-> FALSE],
             [layer |-> "context", eligible |-> FALSE], [layer |-> "market_behavior", eligible |-> FALSE]}
================================================================================
