----------------------------- MODULE FamilyVerdict -----------------------------
(***************************************************************************)
(* The verdict on a family of tests: decisions/starting_xi/verdict.py      *)
(* (four win shares, two-sided, with a re-run when a p-value is close to   *)
(* its threshold) and decisions/free_hit/verdict.py (one leg per baseline, *)
(* one-sided, passed when every leg is).  Both adjust with Holm's step-    *)
(* down, research/kernels/hypothesis/multiplicity.py.                      *)
(*                                                                         *)
(* A bootstrap is what the p-value reads of it: how many of its draws are  *)
(* valid and how many lie in the tail.  A p-value is the pair of its       *)
(* numerator and denominator, so that nothing is rounded.                  *)
(***************************************************************************)
EXTENDS Integers, FiniteSetsExt, SequencesExt

CONSTANTS Sizes,        \* per procedure, the sizes of its families
          Bootstraps,   \* per procedure, what one hypothesis' first bootstrap may give: [tail, valid]
          Rebootstraps, \* what the larger one may give
          AlphaNum, AlphaDen, \* FAMILY_WISE_ALPHA
          NResamples          \* N_RESAMPLES

Procedures == {"starting_xi", "free_hit"}

ASSUME VerdictAssumption ==
  /\ Sizes \in [Procedures -> SUBSET Nat]
  /\ Bootstraps \in [Procedures -> SUBSET [tail : Nat, valid : Nat]]
  /\ Rebootstraps \subseteq [tail : Nat, valid : Nat]
  /\ AlphaNum \in Nat /\ AlphaDen \in Nat \ {0}
  /\ NResamples \in Nat \ {0}

VARIABLES kind,     \* which procedure runs
          apply,    \* apply_rerun: the real run applies it, the lab does not
          step,     \* where it is
          first,    \* the first bootstrap of each hypothesis
          second,   \* the re-run's, or <<>>
          pRaw,     \* the raw p-values in use
          needed,   \* rerun_needed
          reject,   \* the decisions, one per hypothesis
          passed    \* free_hit's PASS

verdictVars == <<kind, apply, step, first, second, pRaw, needed, reject, passed>>

--------------------------------------------------------------------------------
(* p-values as fractions *)

Less(a, b) == a[1] * b[2] < b[1] * a[2]
AtMost(a, b) == a[1] * b[2] <= b[1] * a[2]

(* No valid draw gives NaN. *)
NaN == <<0, 0>>
IsNaN(a) == a[2] = 0

TwoSided(d) ==
  IF d.valid = 0 THEN NaN
  ELSE LET n == 2 * (1 + d.tail) IN <<IF n > 1 + d.valid THEN 1 + d.valid ELSE n, 1 + d.valid>>

OneSided(d) == IF d.valid = 0 THEN NaN ELSE <<1 + d.tail, 1 + d.valid>>

PValues(k, draws) ==
  [i \in DOMAIN draws |-> IF k = "free_hit" THEN OneSided(draws[i]) ELSE TwoSided(draws[i])]

--------------------------------------------------------------------------------
(* holm_bonferroni() *)

(* argsort(kind="stable"): ties in order, NaN last. *)
Before(q, i, j) ==
  \/ ~IsNaN(q[i]) /\ IsNaN(q[j])
  \/ /\ IsNaN(q[i]) <=> IsNaN(q[j])
     /\ Less(q[i], q[j]) \/ (~Less(q[j], q[i]) /\ i < j)

RankOf(q, i) == 1 + Cardinality({j \in DOMAIN q : Before(q, j, i)})

(* The threshold of the r-th smallest of m, alpha / (m - r + 1). *)
Threshold(m, r) == <<AlphaNum, AlphaDen * (m - r + 1)>>

(* Mutant: the adjusted p-values are not made monotone. *)
HolmNotMonotone(q) == [i \in DOMAIN q |-> AtMost(q[i], Threshold(Len(q), RankOf(q, i)))]

(* The running maximum of rank times p is within alpha when each of its     *)
(* terms is; clipping at 1 changes nothing below alpha.                     *)
Holm(q) ==
  [i \in DOMAIN q |->
     \A j \in DOMAIN q : RankOf(q, j) <= RankOf(q, i) => AtMost(q[j], Threshold(Len(q), RankOf(q, j)))]

--------------------------------------------------------------------------------
(* needs_rerun(): |p - t| <= 2 sqrt(p (1 - p) / B), squared *)

Square(n) == n * n

Near(a, t) ==
  Square(a[1] * t[2] - t[1] * a[2]) * NResamples <= 4 * a[1] * (a[2] - a[1]) * Square(t[2])

(* Mutant: every p-value is compared with the first threshold. *)
NearTheFirst(q) == \E i \in DOMAIN q : ~IsNaN(q[i]) /\ Near(q[i], Threshold(Len(q), 1))

(* A comparison with NaN is false. *)
NeedsRerun(q) == \E i \in DOMAIN q : ~IsNaN(q[i]) /\ Near(q[i], Threshold(Len(q), RankOf(q, i)))

--------------------------------------------------------------------------------
VerdictInit ==
  /\ kind \in Procedures
  /\ apply \in IF kind = "starting_xi" THEN BOOLEAN ELSE {FALSE}
  /\ \E m \in Sizes[kind] : first \in [1..m -> Bootstraps[kind]]
  /\ step = "bootstrap"
  /\ second = <<>> /\ pRaw = <<>> /\ reject = <<>>
  /\ needed = FALSE
  /\ passed = FALSE

Draw ==
  /\ step = "bootstrap"
  /\ pRaw' = PValues(kind, first)
  /\ step' = IF kind = "starting_xi" THEN "rerun" ELSE "adjust"
  /\ UNCHANGED <<kind, apply, first, second, needed, reject, passed>>

(* All tests are drawn again, in either direction. *)
Redraw ==
  /\ step = "rerun"
  /\ needed' = NeedsRerun(pRaw)
  /\ IF needed' /\ apply
       THEN second' \in [DOMAIN first -> Rebootstraps] /\ pRaw' = PValues(kind, second')
       ELSE UNCHANGED <<second, pRaw>>
  /\ step' = "adjust"
  /\ UNCHANGED <<kind, apply, first, reject, passed>>

(* A NaN in the family is refused: no verdict at all. *)
Refuse ==
  /\ step = "adjust"
  /\ \E i \in DOMAIN pRaw : IsNaN(pRaw[i])
  /\ step' = "refused"
  /\ UNCHANGED <<kind, apply, first, second, pRaw, needed, reject, passed>>

(* Mutant: an empty family passes. *)
AllRejected(d) == \A i \in DOMAIN d : d[i]

(* PASS: a family, and every leg of it rejected. *)
Passes(d) == d # <<>> /\ \A i \in DOMAIN d : d[i]

Adjust ==
  /\ step = "adjust"
  /\ \A i \in DOMAIN pRaw : ~IsNaN(pRaw[i])
  /\ reject' = Holm(pRaw)
  /\ passed' = (kind = "free_hit" /\ Passes(reject'))
  /\ step' = "done"
  /\ UNCHANGED <<kind, apply, first, second, pRaw, needed>>

VerdictNext == Draw \/ Redraw \/ Refuse \/ Adjust

VerdictSpec == VerdictInit /\ [][VerdictNext]_verdictVars

--------------------------------------------------------------------------------
(* Bonferroni's test of the joint hypothesis of I. *)
JointlyRejected(q, I) == \E i \in I : AtMost(q[i], <<AlphaNum, AlphaDen * Cardinality(I)>>)

(* The closed test: a hypothesis falls when every family it is part of does. *)
ClosedTest(q) ==
  [i \in DOMAIN q |-> \A I \in SUBSET DOMAIN q : i \in I => JointlyRejected(q, I)]

(* The family-wise error is controlled (multiplicity.py:13-14,              *)
(* free_hit/verdict.py:197-201): the step-down's decisions are those of the *)
(* closed test, taken on the last bootstrap alone when the re-run was       *)
(* applied ("that result replaces the first in either direction",           *)
(* starting_xi/verdict.py:199-200).                                         *)
DecidesAsClosedTest ==
  step = "done" =>
    reject = ClosedTest(PValues(kind, IF needed /\ apply THEN second ELSE first))

(* The p-values within two standard errors of a given one. *)
Neighbours(a) == {b \in {TwoSided(d) : d \in Bootstraps["starting_xi"]} : ~IsNaN(b) /\ Near(a, b)}

(* A verdict that asked for no re-run does not hang on the bootstrap's own  *)
(* noise: moving every p-value by up to two standard errors leaves each     *)
(* decision what it is (P6, starting_xi/verdict.py:160-175).                *)
SettledWithoutRerun ==
  step = "done" /\ kind = "starting_xi" /\ ~needed =>
    \A q \in [DOMAIN pRaw -> UNION {Neighbours(pRaw[i]) : i \in DOMAIN pRaw}] :
      (\A i \in DOMAIN pRaw : q[i] \in Neighbours(pRaw[i])) => Holm(q) = reject

(* One leg more in the family never turns a fail into a PASS, and no leg at *)
(* all is not one (free_hit/verdict.py:256-262): what passes would pass as  *)
(* part of fewer legs.                                                      *)
MoreLegsNeverHelp ==
  step = "done" /\ kind = "free_hit" /\ passed =>
    pRaw # <<>> /\ \A i \in DOMAIN pRaw : Len(pRaw) > 1 => Passes(Holm(RemoveAt(pRaw, i)))
================================================================================
