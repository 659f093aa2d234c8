---------------------------- MODULE MCFreeHitSquad ----------------------------
(***************************************************************************)
(* Pools of three candidates for each of two positions: clubs told apart   *)
(* up to renaming, three prices, each position numbered from the dearest,  *)
(* and scores that follow or oppose the price; and pools with free choice  *)
(* of signals for the composite.                                           *)
(***************************************************************************)
EXTENDS FreeHitSquad

MCPlayers == 1..6
MCPosition == [x \in 1..6 |-> IF x <= 3 THEN "DEF" ELSE "MID"]
MCOrder == <<"DEF", "MID">>
MCQuota == [p \in {"DEF", "MID"} |-> 2]

Prices ==
  {p \in [Players -> {1, 2, 4}] :
     /\ \A x, y \in Players : PositionOf[x] = PositionOf[y] /\ x < y => p[x] >= p[y]
     /\ \A x \in At(Players, "MID") : p[x] # 2}

(* Each candidate's club is an earlier one or the next new one. *)
Canonical(c) == \A x \in Players : \A k \in 1..(c[x] - 1) : \E y \in 1..(x - 1) : c[y] = k
Clubs == {c : c \in {f \in [Players -> Players] : Canonical(f)}}

Alike == [x \in Players |-> 1]
Follows(p) == [first |-> p, second |-> Alike, fdr |-> Alike]
Opposes(p) == [first |-> [x \in Players |-> IF p[x] = 4 THEN NoValue ELSE -p[x]], second |-> Alike, fdr |-> Alike]

Ranked == {1, 2, NoValue}
Seconds == {Alike, [x \in Players |-> IF x <= 2 THEN 2 ELSE 1], [x \in Players |-> IF x = 4 THEN NoValue ELSE x]}
FdrBins == {[x \in Players |-> 3], [x \in Players |-> IF x % 2 = 0 THEN 2 ELSE 4], [x \in Players |-> IF x = 5 THEN NoValue ELSE x]}

Distinct == [x \in Players |-> x]
Single(signals(_)) == {<<p, signals(p), "single">> : p \in Prices}
Composites == {<<Alike, [first |-> a, second |-> b, fdr |-> f], "composite">> :
                 a \in [Players -> Ranked], b \in Seconds, f \in FdrBins}

MCFamilies == <<Single(Follows) \X Clubs, Single(Opposes) \X Clubs, Composites \X {Distinct}>>
===============================================================================
