----------------------------- MODULE SignalEvidence -----------------------------
(***************************************************************************)
(* What the repository says of one signal at one position, twice over: a   *)
(* row of the registry (research/registry/sections.py and assembler.py,    *)
(* domain/registry/association.py, model/governance/semantics.py and       *)
(* promotion.py, domain/registry/validation.py) and the verdict of a lens  *)
(* study (research/families/*/validate/study.py, evidence_record.py).      *)
(* Both start from the same sample; neither reads the other's result.      *)
(***************************************************************************)
EXTENDS SignalBins

CONSTANTS Cells,           \* the samples
          BlockSamples(_), \* a sample's bins in one block of the season, <<>> if it has none
          Confidences,     \* percent of bootstrap resamples with the same directions, or None
          Drops,           \* rho_full - rho_no_haul in hundredths, or None
          Layers,          \* [layer, eligible] of SIGNAL_LAYER_MAPPING
          GapThreshold     \* QUINTILE_GAP_THRESHOLD

ASSUME NoneIsNoLabel ==
  None \notin {"core_signal", "review_signal", "exposure_control", "context_control", "market_context"}
ASSUME CellAssumption ==
  \A c \in Cells : /\ c.n \in Nat /\ c.constant \in BOOLEAN
                   /\ c.means \in Seq(Int) \ {<<>>} /\ c.dense \in 0..Len(c.means)
                   /\ c.constant => Len(c.means) = 1

Blocks == {"early", "mid", "late"}

(* Where a bootstrap interval lies; "nan" when no resample has a value. *)
Intervals == {"below", "spans", "above", "nan"}
ExcludesZero(ci) == ci \in {"below", "above"}

VARIABLES cell,   \* the sample
          stage,  \* how far it got
          blocks, \* the bins of each block
          row,    \* the registry row
          lens    \* the lens study's verdict

vars == <<cell, stage, blocks, row, lens>>

NoRow == [geometry |-> "", gap |-> None, low |-> FALSE, flags |-> {}, support |-> "",
          stability |-> "", panel |-> "", drop |-> None, tail |-> None, association |-> "",
          layer |-> "", eligible |-> FALSE, status |-> "", promotion |-> None]

NoVerdict == [study |-> "", full |-> "nan", stable |-> 0, status |-> "", class |-> ""]

Varies(c) == ~c.constant

--------------------------------------------------------------------------------
(* _geometry_row(): the pooled shape, kept only if enough resamples agree. *)

SupportType(c, flag) ==
  CASE flag = "insufficient_support:insufficient_n" -> "insufficient_n"
    [] flag = "insufficient_support:bin_density" /\ c.values = "fdr" -> "ordinal_scheme_mismatch"
    [] flag = "degenerate" -> "near_constant_position"
    [] OTHER -> ""

Shapeless(c, geometry, flag) ==
  [NoRow EXCEPT !.geometry = geometry, !.flags = {flag} \ {""}, !.support = SupportType(c, flag)]

GeometryRow(c, confidence) ==
  LET scheme  == Scheme(c, Registered)
      missing == NoBins(c, scheme)
      m       == BinOrder(scheme, c.means)
      flag    == DensityFlag(c, scheme)
      shape   == IF flag = "" THEN Geometry(m) ELSE "unassessable"
      trusted == confidence = None \/ confidence >= 60
  IN  IF scheme = "insufficient" THEN Shapeless(c, "unassessable", "insufficient_support:insufficient_n")
      ELSE IF missing = "degenerate" THEN Shapeless(c, "indeterminate", missing)
      ELSE IF shape \in Monotonic /\ trusted
        THEN [Shapeless(c, shape, flag) EXCEPT !.gap = Gap(m, shape),
                                               !.low = confidence # None /\ confidence < 80]
      ELSE Shapeless(c, IF shape \in Monotonic THEN "indeterminate" ELSE shape, flag)

(* _stability_row(): a block's bins are not checked for density.  A block   *)
(* of too few rows, of one value or of tied edges has no bins, whatever the *)
(* pooled sample has.                                                       *)
BlockGap(c, means) ==
  LET scheme == StabilityScheme(c)
      m      == BinOrder(scheme, means)
  IN  IF means = <<>> THEN None ELSE Gap(m, Geometry(m))

StabilityOf(c, r, samples) ==
  IF r.geometry = "unassessable" THEN "unassessable"
  ELSE Stability(r.gap, [b \in Blocks |-> BlockGap(c, samples[b])])

(* _dominance_class(), and the two abstentions the registry collapses. *)
PanelClass(pooled, diff, between, within) ==
  IF pooled = "spans" THEN "indeterminate"
  ELSE IF diff = "above" THEN "identity_dominant"
  ELSE IF diff = "below" THEN "state_sensitive"
  ELSE IF ExcludesZero(between) /\ ExcludesZero(within) THEN "mixed" ELSE "indeterminate"

(* measure_tail_event_dependence() *)
TailSensitive(drop) == IF drop = None THEN None ELSE drop > 20

--------------------------------------------------------------------------------
(* assign_association_class(), assign_downstream_status(), assign_promotion_class() *)

Insufficient(flags) == flags \cap {"insufficient_support", "insufficient_support:insufficient_n",
                                   "insufficient_support:bin_density"} # {}

AssociationClass(r) ==
  IF Insufficient(r.flags) \/ r.geometry = "unassessable" THEN "unassessable"
  ELSE IF r.geometry = "indeterminate" THEN "weak_association"
  ELSE IF r.stability = "unstable" THEN "temporally_unstable"
  ELSE IF r.drop # None /\ r.drop > 20 THEN "tail_dependent"
  ELSE IF r.geometry \in UpperTail THEN "upper_tail_concentrated"
  ELSE IF r.geometry \in Monotonic /\ ~r.low /\ r.panel \in {"state_sensitive", "mixed"}
    THEN "continuous_monotonic" ELSE "weak_association"

CaveatedLayers == {"context", "market_behavior", "valuation"}
NonFeatureLayers == CaveatedLayers \cup {"exposure"}

(* SIGNAL_LAYER_MAPPING gives no feature eligibility to these layers. *)
ASSUME LayerAssumption == \A l \in Layers : l.layer \in NonFeatureLayers => l.eligible = FALSE

(* Mutant: only what could not be assessed is blocked. *)
GeometryStatus(r) ==
  IF r.geometry = "unassessable" THEN "blocked"
  ELSE IF r.eligible /\ ~r.low /\ r.layer \notin CaveatedLayers THEN "eligible" ELSE "caveated"

DownstreamStatus(r) ==
  IF \/ Insufficient(r.flags) \/ r.geometry = "unassessable"
     \/ r.support \in {"insufficient_n", "near_constant_position"}
    THEN "blocked"
  ELSE IF \/ r.low \/ r.geometry = "indeterminate" \/ r.panel = "indeterminate"
          \/ r.support # "" \/ r.layer \in CaveatedLayers
    THEN "caveated"
  ELSE IF r.eligible THEN "eligible" ELSE "caveated"

PromotionClass(r) ==
  IF r.status = "blocked" THEN None
  ELSE IF r.layer = "exposure" THEN "exposure_control"
  ELSE IF r.layer = "context" THEN "context_control"
  ELSE IF r.layer = "market_behavior" THEN "market_context"
  ELSE IF /\ r.status = "eligible" /\ r.stability = "stable"
          /\ r.association = "continuous_monotonic"
    THEN "core_signal" ELSE "review_signal"

(* validate_registry_contract(): what it complains about. *)
ContractErrors(r) ==
  {e \in {"tail", "layer", "support", "confidence", "promotion"} :
     \/ e = "tail" /\ r.tail = None
     \/ e = "layer" /\ r.layer \in NonFeatureLayers /\ r.eligible
     \/ e = "support" /\ Insufficient(r.flags) /\ r.status # "blocked"
     \/ e = "confidence" /\ r.low /\ r.status = "eligible"
     \/ e = "promotion" /\ (r.status = "blocked") # (r.promotion = None)}

--------------------------------------------------------------------------------
(* _apply_signal_qualification_gates(): the three gates of a lens study. *)

(* Mutant: the ends of the five groups are compared, not every step. *)
EndsOnly(q, bidirectional) == q # None /\ (Magnitude(q[5] - q[1]) >= GapThreshold)

DecisionRelevant(q, bidirectional) ==
  /\ q # None
  /\ \/ NeverFalls(q) /\ q[5] - q[1] >= GapThreshold
     \/ bidirectional /\ NeverRises(q) /\ q[1] - q[5] >= GapThreshold

LensStatus(c, bidirectional, full, stable) ==
  IF ~ExcludesZero(full) \/ ~DecisionRelevant(Quintiles(c), bidirectional) THEN "uninformative"
  ELSE IF stable >= 2 THEN "informative" ELSE "unstable"

(* decision_class_for() *)
DecisionClass(status) == IF status = "informative" THEN "informative" ELSE "uninformative"

(* build_signal_verdict() *)
SignalVerdict(study, c, bidirectional, full, windows) ==
  LET stable == Cardinality({b \in Blocks : ExcludesZero(windows[b])})
      status == LensStatus(c, bidirectional, full, stable)
  IN  [study |-> study, full |-> full, stable |-> stable,
       status |-> status, class |-> DecisionClass(status)]

--------------------------------------------------------------------------------
Init ==
  /\ cell \in Cells
  /\ stage = "sampled"
  /\ blocks = [b \in Blocks |-> <<>>]
  /\ row = NoRow
  /\ lens = NoVerdict

MeasureGeometry ==
  /\ stage = "sampled"
  /\ \E confidence \in Confidences : row' = GeometryRow(cell, confidence)
  /\ stage' = "geometry"
  /\ UNCHANGED <<cell, blocks, lens>>

MeasureStability ==
  /\ stage = "geometry"
  /\ blocks' \in [Blocks -> BlockSamples(cell)]
  /\ row' = [row EXCEPT !.stability = StabilityOf(cell, row, blocks')]
  /\ stage' = "stability"
  /\ UNCHANGED <<cell, lens>>

(* bootstrap_panel_decomposition(): a sample of too few players counts as   *)
(* one of too few rows.  A constant signal has no correlation at all.       *)
MeasurePanel ==
  /\ stage = "stability"
  /\ \E players \in {"few", "enough"} :
       IF cell.n < Registered \/ players = "few"
         THEN row' = [row EXCEPT !.panel = "indeterminate", !.flags = @ \cup {"insufficient_support"}]
         ELSE \E pooled, diff, between, within \in IF Varies(cell) THEN Intervals ELSE {"nan"} :
                row' = [row EXCEPT !.panel = PanelClass(pooled, diff, between, within)]
  /\ stage' = "panel"
  /\ UNCHANGED <<cell, blocks, lens>>

MeasureHaul ==
  /\ stage = "panel"
  /\ \E drop \in IF cell.n >= Registered /\ Varies(cell) THEN Drops ELSE {None} :
       row' = [row EXCEPT !.drop = drop, !.tail = TailSensitive(drop),
                          !.flags = IF cell.n < Registered THEN @ \cup {"insufficient_support"} ELSE @]
  /\ stage' = "haul"
  /\ UNCHANGED <<cell, blocks, lens>>

(* assemble_registry_from_sections() *)
Assemble ==
  /\ stage = "haul"
  /\ row' = [row EXCEPT !.association = AssociationClass(row)]
  /\ stage' = "assembled"
  /\ UNCHANGED <<cell, blocks, lens>>

(* enrich_signal_layers() *)
Enrich ==
  /\ stage = "assembled"
  /\ \E l \in Layers :
       LET r == [row EXCEPT !.layer = l.layer, !.eligible = l.eligible]
       IN  row' = [r EXCEPT !.status = DownstreamStatus(r)]
  /\ stage' = "enriched"
  /\ UNCHANGED <<cell, blocks, lens>>

(* A signal without a layer is refused. *)
RefuseUnmapped ==
  /\ stage = "assembled"
  /\ stage' = "unmapped"
  /\ UNCHANGED <<cell, blocks, row, lens>>

(* enrich_promotion_class(), then the contract. *)
Promote ==
  /\ stage = "enriched"
  /\ row' = [row EXCEPT !.promotion = PromotionClass(row)]
  /\ stage' = IF ContractErrors(row') = {} THEN "accepted" ELSE "rejected"
  /\ UNCHANGED <<cell, blocks, lens>>

(* A lens study, run(): an interval over the full window and one per block. *)
(* assert_population_gate() refuses a season with an empty block.           *)
Qualify(study, bidirectional) ==
  /\ stage = "sampled"
  /\ \E full \in IF Varies(cell) THEN Intervals ELSE {"nan"},
        windows \in [Blocks -> IF Varies(cell) THEN Intervals \cup {"empty"} ELSE {"nan"}] :
       IF \E b \in Blocks : windows[b] = "empty"
         THEN stage' = "refused" /\ UNCHANGED lens
         ELSE stage' = "qualified" /\ lens' = SignalVerdict(study, cell, bidirectional, full, windows)
  /\ UNCHANGED <<cell, blocks, row>>

QualifyForm == Qualify("form", FALSE)
QualifyAvailability == Qualify("availability", FALSE)
QualifyMarket == Qualify("market", FALSE)

(* A hard fixture lowers the points: this study takes either direction. *)
QualifyFixture == Qualify("fixture", TRUE)

Next ==
  \/ MeasureGeometry \/ MeasureStability \/ MeasurePanel \/ MeasureHaul
  \/ Assemble \/ Enrich \/ RefuseUnmapped \/ Promote
  \/ QualifyForm \/ QualifyAvailability \/ QualifyMarket \/ QualifyFixture

Spec == Init /\ [][Next]_vars
--------------------------------------------------------------------------------
(* promotion.py: a core signal is earned on the sample itself, through five *)
(* modules that pass labels on: enough rows and enough dense bins, every    *)
(* step between its bins, thin ones included, in one direction, the same    *)
(* direction in at least two blocks and against it in none, no material     *)
(* drop without hauls, and an eligible layer.                               *)
CoreIsEarned ==
  row.promotion = "core_signal" =>
    /\ cell.n >= Registered /\ cell.dense >= MinActiveBins(Scheme(cell, Registered))
    /\ LET m == BinOrder(Scheme(cell, Registered), cell.means) IN Rises(m) \/ Falls(m)
    /\ LET measured == {b \in Blocks : BlockGap(cell, blocks[b]) # None}
       IN  /\ \E a, b \in measured : a # b
           /\ \/ \A b \in measured : BlockGap(cell, blocks[b]) > 0
              \/ \A b \in measured : BlockGap(cell, blocks[b]) < 0
    /\ row.drop # None => ~(row.drop > 20)
    /\ ~row.low /\ row.eligible /\ row.layer \notin NonFeatureLayers

(* validation.py: what sections, assembler, semantics and promotion make of *)
(* any sample keeps the registry contract, except that a row whose haul     *)
(* dependence was not assessed has no boolean there and is refused.         *)
ContractKept == stage = "rejected" => row.tail = None /\ ContractErrors(row) = {"tail"}

(* CHARACTERIZE_DESIGN.md:101: the lens and the registry do not state       *)
(* opposite things of one sample: what passes a lens' second gate is not    *)
(* non-monotonic in the registry, nor monotonic the other way, whatever the *)
(* bootstrap says.                                                          *)
ArtifactsAgree ==
  lens.status \in {"informative", "unstable"} =>
    \A confidence \in Confidences :
      LET geometry == GeometryRow(cell, confidence).geometry
          q        == Quintiles(cell)
      IN  /\ geometry # "non_monotonic"
          /\ geometry \in Monotonic => (geometry = "monotonic_positive") = (q[5] > q[1])
================================================================================
