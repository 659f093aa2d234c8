---------------------------- MODULE MCStage5Verdict ----------------------------
(***************************************************************************)
(* Two swept counts, 5 and 8, the first with two settings, and one probed  *)
(* setting at 8.  At most MaxMissing cells are still to be saved.          *)
(***************************************************************************)
EXTENDS Stage5Verdict

MCSettings == 1..3
MCProbeSettings == {4}
MCGameweeks == [s \in 1..4 |-> IF s \in {1, 2} THEN 5 ELSE 8]

(* A curve rises with the share, or dips: every cell has seeds of its own. *)
Low == <<60, 60>>   Edge == <<60, 85>>   High == <<85, 85>>   Dip == <<85, 60>>

TallyOf(firings, curves, sensitivity) ==
  [c \in GridCells |->
     IF c[2] = NullShare THEN firings[c[1]]
     ELSE IF c[2] = SensitivityShare THEN sensitivity
     ELSE curves[c[1]][IF c[2] = SecondaryEdge THEN 1 ELSE 2]]

Lows == <<Low, Edge, High>>
Highs == <<High, Edge, Low>>
Dips == <<Edge, Dip, High>>

(* Nobody fires, the weakest or the other setting of the first count does,  *)
(* the second count, the probe, or every grid setting.                      *)
Cases ==
  {<<{}, Lows, 99>>, <<{}, Highs, 99>>, <<{}, Highs, 98>>, <<{2, 4}, Lows, 99>>,
   <<{3}, Highs, 99>>, <<{1, 2, 3}, Lows, 99>>, <<{}, Dips, 99>>}

MCTallies ==
  {TallyOf([i \in 1..4 |-> IF i \in case[1] THEN 61 ELSE 50], case[2], case[3]) : case \in Cases}

MaxMissing == 1

MCInit == Init /\ Cardinality(GridCells \ saved) <= MaxMissing
MCSpec == MCInit /\ [][Next]_vars

MCSpread == [p \in Pins |-> IF p = "first" THEN 5 ELSE 8]
================================================================================
