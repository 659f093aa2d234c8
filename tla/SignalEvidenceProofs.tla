-------------------------- MODULE SignalEvidenceProofs --------------------------
(* Proofs about SignalEvidence, for every set of samples, layers and drops. *)
EXTENDS SignalEvidence, FiniteSetTheorems, SequenceTheorems, TLAPS

Shaped == {"geometry", "stability", "panel", "haul", "assembled", "unmapped", "enriched", "accepted", "rejected"}
Compared == Shaped \ {"geometry"}
Assembled == {"assembled", "unmapped", "enriched", "accepted", "rejected"}
Enriched == {"enriched", "accepted", "rejected"}
Promoted == {"accepted", "rejected"}

Fields == {"geometry", "gap", "low", "flags", "support", "stability", "panel", "drop", "tail",
           "association", "layer", "eligible", "status", "promotion"}
IsRow(r) == r = [f \in Fields |-> r[f]]

Steady(c) ==
  /\ c.n >= Registered /\ c.dense >= MinActiveBins(Scheme(c, Registered))
  /\ LET m == BinOrder(Scheme(c, Registered), c.means) IN Rises(m) \/ Falls(m)

(* What the labels of a row stand for, stage by stage. *)
ShapeHolds == stage \in Shaped /\ row.geometry \in Monotonic => Steady(cell)
StabilityHolds == stage \in Compared => row.stability = StabilityOf(cell, row, blocks)
AssociationHolds ==
  stage \in Assembled /\ row.association = "continuous_monotonic" =>
    row.geometry \in Monotonic /\ (row.drop # None => ~(row.drop > 20))
StatusHolds ==
  stage \in Enriched /\ row.status = "eligible" =>
    row.eligible /\ ~row.low /\ row.layer \notin CaveatedLayers
PromotionHolds ==
  /\ stage \notin Promoted => row.promotion = None
  /\ row.promotion = "core_signal" =>
       /\ row.status = "eligible" /\ row.stability = "stable"
       /\ row.association = "continuous_monotonic" /\ row.layer # "exposure"

Inv ==
  /\ cell \in Cells /\ IsRow(row)
  /\ ShapeHolds /\ StabilityHolds /\ AssociationHolds /\ StatusHolds /\ PromotionHolds

--------------------------------------------------------------------------------
LEMMA ShapelessRow ==
  ASSUME NEW c, NEW geometry, NEW flag, NEW r, r = Shapeless(c, geometry, flag)
  PROVE  IsRow(r) /\ r.promotion = None /\ r.geometry = geometry
<1>1. r = [NoRow EXCEPT !.geometry = geometry, !.flags = {flag} \ {""}, !.support = SupportType(c, flag)]
  BY DEF Shapeless
<1>2. IsRow(NoRow) /\ NoRow.promotion = None
  BY DEF IsRow, Fields, NoRow
<1>3. QED
  BY <1>1, <1>2 DEF IsRow, Fields

(* A row from _geometry_row() has a monotonic label only for bins that are. *)
Labelled(c, r) ==
  /\ IsRow(r) /\ r.promotion = None
  /\ r.geometry \in Monotonic =>
       /\ Scheme(c, Registered) # "insufficient"
       /\ DensityFlag(c, Scheme(c, Registered)) = ""
       /\ Geometry(BinOrder(Scheme(c, Registered), c.means)) \in Monotonic

LEMMA GeometryRowLabelled == \A c, confidence : Labelled(c, GeometryRow(c, confidence))
<1> TAKE c, confidence
<1> DEFINE scheme == Scheme(c, Registered)
           missing == NoBins(c, scheme)
           m == BinOrder(scheme, c.means)
           flag == DensityFlag(c, scheme)
           shape == IF flag = "" THEN Geometry(m) ELSE "unassessable"
           trusted == confidence = None \/ confidence >= 60
           gap == Gap(m, shape)
           low == confidence # None /\ confidence < 80
           last == IF shape \in Monotonic THEN "indeterminate" ELSE shape
           r == GeometryRow(c, confidence)
<1>1. r = IF scheme = "insufficient" THEN Shapeless(c, "unassessable", "insufficient_support:insufficient_n")
          ELSE IF missing = "degenerate" THEN Shapeless(c, "indeterminate", missing)
          ELSE IF shape \in Monotonic /\ trusted
            THEN [Shapeless(c, shape, flag) EXCEPT !.gap = gap, !.low = low]
          ELSE Shapeless(c, last, flag)
  BY DEF GeometryRow
<1>2. "unassessable" \notin Monotonic /\ "indeterminate" \notin Monotonic /\ last \notin Monotonic
  BY DEF Monotonic
<1>3. shape \in Monotonic => flag = "" /\ Geometry(m) \in Monotonic
  BY <1>2
<1>4. ASSUME NEW g, NEW f, r = Shapeless(c, g, f), g \notin Monotonic PROVE Labelled(c, r)
  <2> HIDE DEF r
  <2>1. IsRow(r) /\ r.promotion = None /\ r.geometry = g
    BY <1>4, ShapelessRow
  <2>2. QED
    BY <1>4, <2>1 DEF Labelled
<1>5. ASSUME r = [Shapeless(c, shape, flag) EXCEPT !.gap = gap, !.low = low],
             scheme # "insufficient", shape \in Monotonic
      PROVE  Labelled(c, r)
  <2>1. flag = "" /\ Geometry(m) \in Monotonic
    BY <1>3, <1>5
  <2>2. IsRow(r) /\ r.promotion = None
    <3> DEFINE s == Shapeless(c, shape, flag)
    <3> HIDE DEF shape, flag
    <3>0. s = Shapeless(c, shape, flag)
      OBVIOUS
    <3> HIDE DEF s, r, gap, low
    <3>1. IsRow(s) /\ s.promotion = None
      BY <3>0, ShapelessRow
    <3>2. r = [s EXCEPT !.gap = gap, !.low = low]
      BY <1>5 DEF s
    <3>3. QED
      BY <3>1, <3>2 DEF IsRow, Fields
  <2> HIDE DEF r
  <2>3. QED
    BY <1>5, <2>1, <2>2 DEF Labelled
<1>6. \/ \E g, f : r = Shapeless(c, g, f) /\ g \notin Monotonic
      \/ /\ r = [Shapeless(c, shape, flag) EXCEPT !.gap = gap, !.low = low]
         /\ scheme # "insufficient" /\ shape \in Monotonic
  <2> HIDE DEF scheme, missing, flag, trusted, gap, low, last, shape, m, r
  <2>1. CASE scheme = "insufficient"
    BY <1>1, <1>2, <2>1
  <2>2. CASE scheme # "insufficient" /\ missing = "degenerate"
    BY <1>1, <1>2, <2>2
  <2>3. CASE scheme # "insufficient" /\ missing # "degenerate" /\ shape \in Monotonic /\ trusted
    BY <1>1, <2>3
  <2>4. CASE scheme # "insufficient" /\ missing # "degenerate" /\ ~(shape \in Monotonic /\ trusted)
    BY <1>1, <1>2, <2>4
  <2>5. QED
    BY <2>1, <2>2, <2>3, <2>4
<1>7. QED
  <2> HIDE DEF scheme, flag, gap, low, shape, r
  <2>1. Labelled(c, r)
    BY <1>4, <1>5, <1>6
  <2>2. QED
    BY <2>1 DEF r

(* A scheme that is not "insufficient" has rows, and a rising or falling    *)
(* sequence of means is what the two monotonic labels mean.                 *)
LEMMA SteadyShape ==
  ASSUME NEW c, c.n \in Nat,
         NEW r, Labelled(c, r), r.geometry \in Monotonic
  PROVE  Steady(c)
<1> DEFINE scheme == Scheme(c, Registered)
           m == BinOrder(scheme, c.means)
<1>1. scheme # "insufficient" /\ DensityFlag(c, scheme) = "" /\ Geometry(m) \in Monotonic
  BY DEF Labelled
<1>2. c.n >= Registered
  <2>1. ~(c.n < Registered)
    BY <1>1 DEF Scheme, SchemeOf
  <2>2. QED
    BY <2>1 DEF Registered
<1>3. c.dense >= MinActiveBins(scheme)
  <2> HIDE DEF scheme
  <2>1. QED
    BY <1>1 DEF DensityFlag
<1>4. Rises(m) \/ Falls(m)
  <2> HIDE DEF m
  <2>1. QED
    BY <1>1 DEF Geometry, Monotonic
<1>5. QED
  BY <1>2, <1>3, <1>4 DEF Steady

(* "stable": at least two blocks have a gap, and all gaps have one sign. *)
LEMMA StableGaps ==
  ASSUME NEW pooled, NEW gaps, DOMAIN gaps = Blocks, Stability(pooled, gaps) = "stable"
  PROVE  LET measured == {b \in Blocks : gaps[b] # None}
         IN  /\ \E a, b \in measured : a # b
             /\ (\A b \in measured : gaps[b] > 0) \/ (\A b \in measured : gaps[b] < 0)
<1> DEFINE measured == {b \in Blocks : gaps[b] # None}
<1>1. /\ ~(Cardinality(measured) < 2)
      /\ (\A b \in measured : gaps[b] > 0) \/ (\A b \in measured : gaps[b] < 0)
  BY DEF Stability
<1>2. \E a, b \in measured : a # b
  <2> SUFFICES ASSUME \A a, b \in measured : a = b PROVE FALSE
    OBVIOUS
  <2>1. CASE measured = {}
    BY <1>1, <2>1, FS_EmptySet
  <2>2. CASE measured # {}
    <3>1. PICK x : x \in measured
      BY <2>2
    <3>2. measured = {x}
      BY <3>1
    <3>3. Cardinality(measured) = 1
      BY <3>2, FS_Singleton
    <3>4. QED
      BY <1>1, <3>3
  <2>3. QED
    BY <2>1, <2>2
<1>3. QED
  BY <1>1, <1>2

LEMMA InitInv == Init => Inv
<1> SUFFICES ASSUME Init PROVE Inv
  OBVIOUS
<1>1. IsRow(NoRow) /\ NoRow.promotion = None
  BY DEF IsRow, Fields, NoRow
<1>2. cell \in Cells /\ row = NoRow /\ stage = "sampled"
  BY DEF Init
<1>3. QED
  BY <1>1, <1>2, NoneIsNoLabel
  DEF Inv, ShapeHolds, StabilityHolds, AssociationHolds, StatusHolds, PromotionHolds,
      Shaped, Compared, Assembled, Enriched, Promoted

LEMMA NextInv == Inv /\ [Next]_vars => Inv'
<1> SUFFICES ASSUME Inv, [Next]_vars PROVE Inv'
  OBVIOUS
<1> USE DEF Inv, ShapeHolds, StabilityHolds, AssociationHolds, StatusHolds, PromotionHolds,
            Shaped, Compared, Assembled, Enriched, Promoted
<1>1. CASE MeasureGeometry
  <2>1. PICK confidence : row' = GeometryRow(cell, confidence)
    BY <1>1 DEF MeasureGeometry
  <2>2. cell' = cell /\ stage' = "geometry"
    BY <1>1 DEF MeasureGeometry
  <2>3. Labelled(cell, row')
    BY <2>1, GeometryRowLabelled
  <2>4. IsRow(row') /\ row'.promotion = None
    BY <2>3 DEF Labelled
  <2>5. row'.geometry \in Monotonic => Steady(cell)
    BY <2>3, SteadyShape, CellAssumption
  <2>6. QED
    BY <2>2, <2>4, <2>5, NoneIsNoLabel
<1>2. CASE MeasureStability
  <2>1. /\ row' = [row EXCEPT !.stability = StabilityOf(cell, row, blocks')]
        /\ cell' = cell /\ stage = "geometry" /\ stage' = "stability"
    BY <1>2 DEF MeasureStability
  <2>2. /\ IsRow(row') /\ row'.geometry = row.geometry /\ row'.gap = row.gap
        /\ row'.promotion = row.promotion /\ row'.stability = StabilityOf(cell, row, blocks')
    BY <2>1 DEF IsRow, Fields
  <2>3. StabilityOf(cell, row, blocks') = StabilityOf(cell, row', blocks')
    BY <2>2 DEF StabilityOf
  <2>4. QED
    BY <2>1, <2>2, <2>3, NoneIsNoLabel
<1>3. CASE MeasurePanel
  <2>1. cell' = cell /\ blocks' = blocks /\ stage = "stability" /\ stage' = "panel"
    BY <1>3 DEF MeasurePanel
  <2>2. PICK players \in {"few", "enough"} :
          IF cell.n < Registered \/ players = "few"
            THEN row' = [row EXCEPT !.panel = "indeterminate", !.flags = @ \cup {"insufficient_support"}]
            ELSE \E pooled, diff, between, within \in IF Varies(cell) THEN Intervals ELSE {"nan"} :
                   row' = [row EXCEPT !.panel = PanelClass(pooled, diff, between, within)]
    BY <1>3 DEF MeasurePanel
  <2>3. /\ IsRow(row') /\ row'.geometry = row.geometry /\ row'.gap = row.gap
        /\ row'.promotion = row.promotion /\ row'.stability = row.stability
    <3>1. CASE cell.n < Registered \/ players = "few"
      <4>1. row' = [row EXCEPT !.panel = "indeterminate", !.flags = @ \cup {"insufficient_support"}]
        BY <2>2, <3>1
      <4>2. QED
        BY <4>1 DEF IsRow, Fields
    <3>2. CASE ~(cell.n < Registered \/ players = "few")
      <4>1. PICK p : row' = [row EXCEPT !.panel = p]
        BY <2>2, <3>2
      <4>2. QED
        BY <4>1 DEF IsRow, Fields
    <3>3. QED
      BY <3>1, <3>2
  <2>4. StabilityOf(cell, row, blocks) = StabilityOf(cell, row', blocks)
    BY <2>3 DEF StabilityOf
  <2>5. QED
    BY <2>1, <2>3, <2>4, NoneIsNoLabel
<1>4. CASE MeasureHaul
  <2>1. /\ cell' = cell /\ blocks' = blocks /\ stage = "panel" /\ stage' = "haul"
        /\ \E d, t, f : row' = [row EXCEPT !.drop = d, !.tail = t, !.flags = f]
    <3>1. PICK drop : row' = [row EXCEPT !.drop = drop, !.tail = TailSensitive(drop),
                          !.flags = IF cell.n < Registered THEN @ \cup {"insufficient_support"} ELSE @]
      BY <1>4 DEF MeasureHaul
    <3> DEFINE f == IF cell.n < Registered THEN row.flags \cup {"insufficient_support"} ELSE row.flags
    <3>2. row' = [row EXCEPT !.drop = drop, !.tail = TailSensitive(drop), !.flags = f]
      BY <3>1
    <3> HIDE DEF f
    <3>3. QED
      BY <1>4, <3>2 DEF MeasureHaul
  <2>2. /\ IsRow(row') /\ row'.geometry = row.geometry /\ row'.gap = row.gap
        /\ row'.promotion = row.promotion /\ row'.stability = row.stability
    BY <2>1 DEF IsRow, Fields
  <2>3. StabilityOf(cell, row, blocks) = StabilityOf(cell, row', blocks)
    BY <2>2 DEF StabilityOf
  <2>4. QED
    BY <2>1, <2>2, <2>3, NoneIsNoLabel
<1>5. CASE Assemble
  <2>1. /\ cell' = cell /\ blocks' = blocks /\ stage = "haul" /\ stage' = "assembled"
        /\ row' = [row EXCEPT !.association = AssociationClass(row)]
    BY <1>5 DEF Assemble
  <2>2. /\ IsRow(row') /\ row'.geometry = row.geometry /\ row'.gap = row.gap /\ row'.drop = row.drop
        /\ row'.promotion = row.promotion /\ row'.stability = row.stability
        /\ row'.association = AssociationClass(row)
    BY <2>1 DEF IsRow, Fields
  <2>3. StabilityOf(cell, row, blocks) = StabilityOf(cell, row', blocks)
    BY <2>2 DEF StabilityOf
  <2>4. AssociationClass(row) = "continuous_monotonic" =>
          row.geometry \in Monotonic /\ (row.drop # None => ~(row.drop > 20))
    BY DEF AssociationClass
  <2>5. QED
    BY <2>1, <2>2, <2>3, <2>4, NoneIsNoLabel
<1>6. CASE Enrich
  <2>1. PICK l \in Layers :
          LET r == [row EXCEPT !.layer = l.layer, !.eligible = l.eligible]
          IN  row' = [r EXCEPT !.status = DownstreamStatus(r)]
    BY <1>6 DEF Enrich
  <2>2. cell' = cell /\ blocks' = blocks /\ stage = "assembled" /\ stage' = "enriched"
    BY <1>6 DEF Enrich
  <2> DEFINE r == [row EXCEPT !.layer = l.layer, !.eligible = l.eligible]
  <2>3. /\ IsRow(r) /\ r.geometry = row.geometry /\ r.gap = row.gap /\ r.drop = row.drop
        /\ r.promotion = row.promotion /\ r.stability = row.stability
        /\ r.association = row.association
    BY DEF IsRow, Fields
  <2>4. DownstreamStatus(r) = "eligible" => r.eligible /\ ~r.low /\ r.layer \notin CaveatedLayers
    BY DEF DownstreamStatus
  <2>5. row' = [r EXCEPT !.status = DownstreamStatus(r)]
    BY <2>1
  <2> HIDE DEF r
  <2>6. /\ IsRow(row') /\ row'.geometry = r.geometry /\ row'.gap = r.gap /\ row'.drop = r.drop
        /\ row'.promotion = r.promotion /\ row'.stability = r.stability
        /\ row'.association = r.association /\ row'.status = DownstreamStatus(r)
        /\ row'.eligible = r.eligible /\ row'.low = r.low /\ row'.layer = r.layer
    BY <2>3, <2>5 DEF IsRow, Fields
  <2>7. StabilityOf(cell, row, blocks) = StabilityOf(cell, row', blocks)
    BY <2>3, <2>6 DEF StabilityOf
  <2>8. QED
    BY <2>2, <2>3, <2>4, <2>6, <2>7, NoneIsNoLabel
<1>7. CASE RefuseUnmapped
  BY <1>7 DEF RefuseUnmapped, StabilityOf
<1>8. CASE Promote
  <2>1. /\ cell' = cell /\ blocks' = blocks /\ stage = "enriched" /\ stage' \in Promoted
        /\ row' = [row EXCEPT !.promotion = PromotionClass(row)]
    BY <1>8 DEF Promote
  <2>2. /\ IsRow(row') /\ row'.geometry = row.geometry /\ row'.gap = row.gap /\ row'.drop = row.drop
        /\ row'.promotion = PromotionClass(row) /\ row'.stability = row.stability
        /\ row'.association = row.association /\ row'.status = row.status
        /\ row'.eligible = row.eligible /\ row'.low = row.low /\ row'.layer = row.layer
    BY <2>1 DEF IsRow, Fields
  <2>3. StabilityOf(cell, row, blocks) = StabilityOf(cell, row', blocks)
    BY <2>2 DEF StabilityOf
  <2>4. PromotionClass(row) = "core_signal" =>
          /\ row.status = "eligible" /\ row.stability = "stable"
          /\ row.association = "continuous_monotonic" /\ row.layer # "exposure"
    BY NoneIsNoLabel DEF PromotionClass
  <2>5. QED
    BY <2>1, <2>2, <2>3, <2>4
<1>9. ASSUME NEW study, NEW bidirectional, Qualify(study, bidirectional) PROVE Inv'
  BY <1>9, NoneIsNoLabel DEF Qualify
<1>10. CASE UNCHANGED vars
  BY <1>10 DEF vars, StabilityOf
<1>11. QED
  BY <1>1, <1>2, <1>3, <1>4, <1>5, <1>6, <1>7, <1>8, <1>9, <1>10
  DEF Next, QualifyForm, QualifyAvailability, QualifyMarket, QualifyFixture

LEMMA InvGivesCore == Inv => CoreIsEarned
<1> SUFFICES ASSUME Inv, row.promotion = "core_signal" PROVE CoreIsEarned
  BY DEF CoreIsEarned
<1>1. /\ stage \in Promoted
      /\ row.status = "eligible" /\ row.stability = "stable"
      /\ row.association = "continuous_monotonic" /\ row.layer # "exposure"
  BY NoneIsNoLabel DEF Inv, PromotionHolds
<1>2. /\ row.geometry \in Monotonic /\ (row.drop # None => ~(row.drop > 20))
      /\ row.eligible /\ ~row.low /\ row.layer \notin NonFeatureLayers
  BY <1>1 DEF Inv, AssociationHolds, StatusHolds, Promoted, Assembled, Enriched, NonFeatureLayers
<1>3. Steady(cell)
  BY <1>1, <1>2 DEF Inv, ShapeHolds, Promoted, Shaped
<1> DEFINE gaps == [b \in Blocks |-> BlockGap(cell, blocks[b])]
<1>4. Stability(row.gap, gaps) = "stable"
  BY <1>1, <1>2 DEF Inv, StabilityHolds, Promoted, Compared, Shaped, StabilityOf, Monotonic
<1> DEFINE measured == {b \in Blocks : gaps[b] # None}
<1>5. /\ \E a, b \in measured : a # b
      /\ (\A b \in measured : gaps[b] > 0) \/ (\A b \in measured : gaps[b] < 0)
  BY <1>4, StableGaps
<1>6. measured = {b \in Blocks : BlockGap(cell, blocks[b]) # None}
  OBVIOUS
<1>7. \A b \in measured : gaps[b] = BlockGap(cell, blocks[b])
  OBVIOUS
<1> HIDE DEF gaps, measured
<1>8. QED
  BY <1>2, <1>3, <1>5, <1>6, <1>7 DEF CoreIsEarned, Steady

(* promotion.py: a core signal is earned on its sample, whatever the        *)
(* samples, the layers and the drops are.                                   *)
THEOREM CoreSignalsAreEarned == Spec => []CoreIsEarned
<1>1. Spec => []Inv
  BY InitInv, NextInv, PTL DEF Spec
<1>2. QED
  BY <1>1, InvGivesCore, PTL

--------------------------------------------------------------------------------
(* The second invariant: what governance and a lens study make of a row.   *)

(* A row's status is what its other fields say, and its layer's eligibility *)
(* is the mapping's.                                                        *)
EnrichedHolds ==
  stage \in Enriched =>
    row.status = DownstreamStatus(row) /\ (row.layer \in NonFeatureLayers => row.eligible = FALSE)
PromotedHolds ==
  /\ stage \in Promoted => row.promotion = PromotionClass(row)
  /\ stage = "rejected" => ContractErrors(row) # {}

(* A lens study calls nothing but ordered groups informative or unstable. *)
LensHolds ==
  lens.status \in {"informative", "unstable"} =>
    \E bidirectional \in BOOLEAN : DecisionRelevant(Quintiles(cell), bidirectional)

Verdicts == EnrichedHolds /\ PromotedHolds /\ LensHolds

Promotions == {"core_signal", "review_signal", "exposure_control", "context_control", "market_context"}

LEMMA StatusReads ==
  ASSUME NEW r, NEW q, \A f \in Fields \ {"status", "promotion"} : r[f] = q[f]
  PROVE  DownstreamStatus(r) = DownstreamStatus(q)
<1>1. /\ r.flags = q.flags /\ r.geometry = q.geometry /\ r.support = q.support /\ r.low = q.low
      /\ r.panel = q.panel /\ r.layer = q.layer /\ r.eligible = q.eligible
  BY DEF Fields
<1>2. QED
  BY <1>1 DEF DownstreamStatus, Insufficient

LEMMA PromotionReads ==
  ASSUME NEW r, NEW q, \A f \in Fields \ {"promotion"} : r[f] = q[f]
  PROVE  PromotionClass(r) = PromotionClass(q)
<1>1. /\ r.status = q.status /\ r.layer = q.layer /\ r.stability = q.stability
      /\ r.association = q.association
  BY DEF Fields
<1>2. QED
  BY <1>1 DEF PromotionClass

LEMMA PromotionOfUnblocked == \A r : PromotionClass(r) = None <=> r.status = "blocked"
  BY NoneIsNoLabel DEF PromotionClass

LEMMA VerdictsInit == Init => Verdicts
<1> SUFFICES ASSUME Init PROVE Verdicts
  OBVIOUS
<1>1. stage = "sampled" /\ lens.status = ""
  BY DEF Init, NoVerdict
<1>2. QED
  BY <1>1 DEF Verdicts, EnrichedHolds, PromotedHolds, LensHolds, Enriched, Promoted

LEMMA VerdictsNext == Inv /\ Verdicts /\ [Next]_vars => Verdicts'
<1> SUFFICES ASSUME Inv, Verdicts, [Next]_vars PROVE Verdicts'
  OBVIOUS
<1> USE DEF Verdicts, EnrichedHolds, PromotedHolds, LensHolds, Enriched, Promoted
<1>1. CASE MeasureGeometry \/ MeasureStability \/ MeasurePanel \/ MeasureHaul \/ Assemble \/ RefuseUnmapped
  BY <1>1 DEF MeasureGeometry, MeasureStability, MeasurePanel, MeasureHaul, Assemble, RefuseUnmapped
<1>2. CASE Enrich
  <2>1. PICK l \in Layers :
          LET r == [row EXCEPT !.layer = l.layer, !.eligible = l.eligible]
          IN  row' = [r EXCEPT !.status = DownstreamStatus(r)]
    BY <1>2 DEF Enrich
  <2> DEFINE r == [row EXCEPT !.layer = l.layer, !.eligible = l.eligible]
  <2>2. IsRow(row) /\ row' = [r EXCEPT !.status = DownstreamStatus(r)]
    BY <2>1 DEF Inv
  <2>3. IsRow(r) /\ r.layer = l.layer /\ r.eligible = l.eligible
    BY <2>2 DEF IsRow, Fields
  <2> HIDE DEF r
  <2>4. /\ \A f \in Fields \ {"status", "promotion"} : row'[f] = r[f]
        /\ row'.status = DownstreamStatus(r) /\ row'.layer = l.layer /\ row'.eligible = l.eligible
    BY <2>2, <2>3 DEF IsRow, Fields
  <2>5. row'.status = DownstreamStatus(row')
    BY <2>4, StatusReads
  <2>6. row'.layer \in NonFeatureLayers => row'.eligible = FALSE
    BY <2>4, LayerAssumption
  <2>7. stage' = "enriched" /\ lens' = lens /\ cell' = cell
    BY <1>2 DEF Enrich
  <2>8. QED
    BY <2>5, <2>6, <2>7
<1>3. CASE Promote
  <2>1. /\ stage = "enriched" /\ stage' = (IF ContractErrors(row') = {} THEN "accepted" ELSE "rejected")
        /\ row' = [row EXCEPT !.promotion = PromotionClass(row)] /\ IsRow(row)
        /\ lens' = lens /\ cell' = cell
    BY <1>3 DEF Promote, Inv
  <2>2. (\A f \in Fields \ {"promotion"} : row'[f] = row[f]) /\ row'.promotion = PromotionClass(row)
    BY <2>1 DEF IsRow, Fields
  <2>3. row'.status = row.status /\ row'.layer = row.layer /\ row'.eligible = row.eligible
    BY <2>2 DEF Fields
  <2>4. DownstreamStatus(row') = DownstreamStatus(row) /\ PromotionClass(row') = PromotionClass(row)
    BY <2>2, StatusReads, PromotionReads
  <2>5. QED
    BY <2>1, <2>2, <2>3, <2>4
<1>4. ASSUME NEW study, NEW bidirectional \in BOOLEAN, Qualify(study, bidirectional) PROVE Verdicts'
  <2>1. stage = "sampled" /\ stage' \in {"refused", "qualified"} /\ cell' = cell /\ row' = row
    BY <1>4 DEF Qualify
  <2>2. \/ lens' = lens
        \/ \E full, windows : lens' = SignalVerdict(study, cell, bidirectional, full, windows)
    BY <1>4 DEF Qualify
  <2>3. ASSUME NEW full, NEW windows, lens' = SignalVerdict(study, cell, bidirectional, full, windows),
               lens'.status \in {"informative", "unstable"}
        PROVE  DecisionRelevant(Quintiles(cell), bidirectional)
    <3> DEFINE stable == Cardinality({b \in Blocks : ExcludesZero(windows[b])})
    <3>1. lens'.status = LensStatus(cell, bidirectional, full, stable)
      BY <2>3 DEF SignalVerdict
    <3> HIDE DEF stable
    <3>2. QED
      BY <2>3, <3>1 DEF LensStatus
  <2>4. LensHolds'
    BY <2>1, <2>2, <2>3
  <2>5. QED
    BY <2>1, <2>4
<1>5. CASE UNCHANGED vars
  BY <1>5 DEF vars
<1>6. QED
  BY <1>1, <1>2, <1>3, <1>4, <1>5
  DEF Next, QualifyForm, QualifyAvailability, QualifyMarket, QualifyFixture

LEMMA BothHold == Spec => [](Inv /\ Verdicts)
<1>1. Init => Inv /\ Verdicts
  BY InitInv, VerdictsInit
<1>2. (Inv /\ Verdicts) /\ [Next]_vars => (Inv /\ Verdicts)'
  BY NextInv, VerdictsNext
<1>3. QED
  BY <1>1, <1>2, PTL DEF Spec

(* What the five modules make of any sample keeps the registry contract but *)
(* for a haul dependence that was not assessed                              *)
(* (validate_registry_contract()).                                          *)
THEOREM RegistryKeepsContract == Spec => []ContractKept
<1>1. ASSUME Verdicts, stage = "rejected" PROVE row.tail = None /\ ContractErrors(row) = {"tail"}
  <2>1. /\ row.status = DownstreamStatus(row) /\ (row.layer \in NonFeatureLayers => row.eligible = FALSE)
        /\ row.promotion = PromotionClass(row) /\ ContractErrors(row) # {}
    BY <1>1 DEF Verdicts, EnrichedHolds, PromotedHolds, Enriched, Promoted
  <2>2. ~(row.layer \in NonFeatureLayers /\ row.eligible)
    BY <2>1
  <2>3. ~(Insufficient(row.flags) /\ row.status # "blocked")
    BY <2>1 DEF DownstreamStatus
  <2>4. ~(row.low /\ row.status = "eligible")
    BY <2>1 DEF DownstreamStatus
  <2>5. ~((row.status = "blocked") # (row.promotion = None))
    BY <2>1, PromotionOfUnblocked
  <2>6. ContractErrors(row) \subseteq {"tail"} /\ ("tail" \in ContractErrors(row) => row.tail = None)
    BY <2>2, <2>3, <2>4, <2>5 DEF ContractErrors
  <2>7. QED
    BY <2>1, <2>6
<1>2. Verdicts => ContractKept
  BY <1>1 DEF ContractKept
<1>3. QED
  BY <1>2, BothHold, PTL

--------------------------------------------------------------------------------
(* A registry row abstains or states the shape of the sample's own bins. *)
LEMMA ShapeOrAbstention ==
  \A c, confidence :
    LET geometry == GeometryRow(c, confidence).geometry IN
    \/ geometry \in {"unassessable", "indeterminate"}
    \/ /\ Scheme(c, Registered) # "insufficient"
       /\ geometry = Geometry(BinOrder(Scheme(c, Registered), c.means))
<1> TAKE c, confidence
<1> DEFINE scheme == Scheme(c, Registered)
           missing == NoBins(c, scheme)
           m == BinOrder(scheme, c.means)
           flag == DensityFlag(c, scheme)
           shape == IF flag = "" THEN Geometry(m) ELSE "unassessable"
           trusted == confidence = None \/ confidence >= 60
           gap == Gap(m, shape)
           low == confidence # None /\ confidence < 80
           last == IF shape \in Monotonic THEN "indeterminate" ELSE shape
           r == GeometryRow(c, confidence)
<1>1. r = IF scheme = "insufficient" THEN Shapeless(c, "unassessable", "insufficient_support:insufficient_n")
          ELSE IF missing = "degenerate" THEN Shapeless(c, "indeterminate", missing)
          ELSE IF shape \in Monotonic /\ trusted
            THEN [Shapeless(c, shape, flag) EXCEPT !.gap = gap, !.low = low]
          ELSE Shapeless(c, last, flag)
  BY DEF GeometryRow
<1>2. shape \in {"unassessable", Geometry(m)} /\ last \in {"indeterminate", "unassessable", Geometry(m)}
  OBVIOUS
<1>3. \A g, f : Shapeless(c, g, f).geometry = g /\ IsRow(Shapeless(c, g, f))
  BY ShapelessRow
<1> HIDE DEF scheme, missing, m, flag, shape, trusted, gap, low, last, r
<1>4. [Shapeless(c, shape, flag) EXCEPT !.gap = gap, !.low = low].geometry = shape
  BY <1>3 DEF IsRow, Fields
<1>5. r.geometry \in {"unassessable", "indeterminate"} \/ (scheme # "insufficient" /\ r.geometry = Geometry(m))
  BY <1>1, <1>2, <1>3, <1>4
<1>6. QED
  BY <1>5 DEF r, m, scheme

(* What a lens cuts into quintiles the registry reads in the same order. *)
LEMMA SameBins ==
  ASSUME NEW c \in Cells, Quintiles(c) # None, Scheme(c, Registered) # "insufficient"
  PROVE  /\ BinOrder(Scheme(c, Registered), c.means) = c.means
         /\ Quintiles(c) = c.means /\ Len(c.means) = 5
<1>1. Scheme(c, Registered) = Scheme(c, Stratified)
  <2>1. c.n \in Nat
    BY CellAssumption
  <2>2. ~(c.n < Registered)
    BY DEF Scheme, SchemeOf
  <2>3. ~(c.n < Stratified)
    BY <2>1, <2>2 DEF Registered, Stratified
  <2>4. QED
    BY <2>2, <2>3 DEF Scheme, SchemeOf
<1>2. Scheme(c, Stratified) \in {"ordinal", "quantile"} /\ Quintiles(c) = c.means /\ Len(c.means) = 5
  BY DEF Quintiles
<1>3. QED
  BY <1>1, <1>2 DEF BinOrder

LEMMA ShapeOfOrdered ==
  ASSUME NEW m \in Seq(Int), Len(m) = 5
  PROVE  /\ NeverFalls(m) \/ NeverRises(m) => Geometry(m) # "non_monotonic"
         /\ Geometry(m) = "monotonic_positive" => m[5] > m[1]
         /\ Geometry(m) = "monotonic_negative" => ~(m[5] > m[1])
<1>1. m[1] \in Int /\ m[2] \in Int /\ m[3] \in Int /\ m[4] \in Int /\ m[5] \in Int
  <2>1. m \in [1..5 -> Int]
    BY SeqDef
  <2>2. QED
    BY <2>1
<1>2. Rises(m) => m[5] > m[1]
  <2> SUFFICES ASSUME Rises(m) PROVE m[5] > m[1]
    OBVIOUS
  <2>1. \A i \in 1..4 : m[i] < m[i + 1]
    BY DEF Rises
  <2>2. m[1] < m[2] /\ m[2] < m[3] /\ m[3] < m[4] /\ m[4] < m[5]
    BY <2>1
  <2>3. QED
    BY <1>1, <2>2
<1>3. Falls(m) => ~(m[5] > m[1])
  <2> SUFFICES ASSUME Falls(m) PROVE ~(m[5] > m[1])
    OBVIOUS
  <2>1. \A i \in 1..4 : m[i] > m[i + 1]
    BY DEF Falls
  <2>2. m[1] > m[2] /\ m[2] > m[3] /\ m[3] > m[4] /\ m[4] > m[5]
    BY <2>1
  <2>3. QED
    BY <1>1, <2>2
<1>4. Geometry(m) = "monotonic_positive" => Rises(m)
  BY DEF Geometry
<1>5. Geometry(m) = "monotonic_negative" => Falls(m)
  BY DEF Geometry
<1>6. Geometry(m) = "non_monotonic" => RisesSomewhere(m) /\ FallsSomewhere(m)
  BY DEF Geometry
<1>7. QED
  BY <1>2, <1>3, <1>4, <1>5, <1>6 DEF NeverFalls, NeverRises

(* A lens study and the registry never state opposite shapes of one sample, *)
(* whatever the bootstrap says (_apply_signal_qualification_gates(),        *)
(* _geometry_row()).                                                        *)
THEOREM LensAndRegistryAgree == Spec => []ArtifactsAgree
<1>1. ASSUME Inv, Verdicts, lens.status \in {"informative", "unstable"}, NEW confidence \in Confidences
      PROVE  LET geometry == GeometryRow(cell, confidence).geometry
                 q        == Quintiles(cell)
             IN  /\ geometry # "non_monotonic"
                 /\ geometry \in Monotonic => (geometry = "monotonic_positive") = (q[5] > q[1])
  <2> DEFINE geometry == GeometryRow(cell, confidence).geometry
             q == Quintiles(cell)
             scheme == Scheme(cell, Registered)
  <2>1. cell \in Cells /\ q # None /\ (NeverFalls(q) \/ NeverRises(q))
    BY <1>1 DEF Inv, Verdicts, LensHolds, DecisionRelevant
  <2>2. CASE geometry \in {"unassessable", "indeterminate"}
    BY <2>2 DEF Monotonic
  <2>3. CASE scheme # "insufficient" /\ geometry = Geometry(BinOrder(scheme, cell.means))
    <3>1. BinOrder(scheme, cell.means) = cell.means /\ q = cell.means /\ Len(cell.means) = 5
      BY <2>1, <2>3, SameBins
    <3>2. cell.means \in Seq(Int)
      BY <2>1, CellAssumption
    <3>3. /\ geometry # "non_monotonic"
          /\ geometry = "monotonic_positive" => q[5] > q[1]
          /\ geometry = "monotonic_negative" => ~(q[5] > q[1])
      <4> DEFINE m == cell.means
      <4>1. geometry = Geometry(m) /\ q = m /\ m \in Seq(Int) /\ Len(m) = 5
        BY <2>3, <3>1, <3>2
      <4> HIDE DEF m, geometry, q
      <4>2. QED
        BY <2>1, <4>1, ShapeOfOrdered
    <3> HIDE DEF geometry, q
    <3>4. geometry \in Monotonic => (geometry = "monotonic_positive") = (q[5] > q[1])
      BY <3>3 DEF Monotonic
    <3>5. QED
      BY <3>3, <3>4 DEF geometry, q
  <2>4. QED
    BY <2>2, <2>3, ShapeOrAbstention
<1>2. Inv /\ Verdicts => ArtifactsAgree
  BY <1>1 DEF ArtifactsAgree
<1>3. QED
  BY <1>2, BothHold, PTL
================================================================================
