----------------------------- MODULE MCFormations -----------------------------
(***************************************************************************)
(* FPL's own squad for Formations (domain/fpl_squad.py:44-66), and sides   *)
(* in which starters and blanks are told apart by position only.           *)
(***************************************************************************)
EXTENDS Formations

FplOrder == <<"GK", "DEF", "MID", "FWD">>
FplSquad == 1..15
FplPosition ==
  [x \in 1..15 |-> CASE x <= 2 -> "GK" [] x \in 3..7 -> "DEF" [] x \in 8..12 -> "MID" [] OTHER -> "FWD"]
FplMin == [p \in {"GK", "DEF", "MID", "FWD"} |-> CASE p = "DEF" -> 3 [] p = "MID" -> 2 [] OTHER -> 1]
FplMax == [p \in {"GK", "DEF", "MID", "FWD"} |-> CASE p = "GK" -> 1 [] p = "FWD" -> 3 [] OTHER -> 5]

(* Within a position the lowest ids start and, among starters and among     *)
(* substitutes, the lowest ids feature: the rule reads positions only.  At  *)
(* most MaxBlanks outfield starters are without minutes; the goalkeeper is  *)
(* missing only where at most one of them is.                               *)
Nth == [x \in Squad |-> Cardinality({y \in Squad : PositionOf[y] = PositionOf[x] /\ y <= x})]

Lowest(f) == {x \in Squad : Nth[x] <= f[PositionOf[x]]}

MaxBlanks == 3

Missing(f, g) == SumFunction([p \in Positions |-> IF p = "GK" THEN 0 ELSE f[p] - g[p]])

Playing(f) ==
  {g \in [Positions -> 0..Max(Range(f))] :
     /\ \A p \in Positions : g[p] <= f[p]
     /\ Missing(f, g) <= (IF g["GK"] = 1 THEN MaxBlanks ELSE 1)}

Featuring(bench, g) ==
  {S \in SUBSET bench :
     /\ \A x \in S, y \in bench : PositionOf[y] = PositionOf[x] /\ y < x => y \in S
     /\ g["GK"] = 1 => At(S, "GK") = {}}

Teams(shapes) ==
  UNION {UNION {{<<Lowest(f), Lowest(g) \cup subs>> : subs \in Featuring(Squad \ Lowest(f), g)} :
                g \in Playing(f)} :
         f \in shapes}
===============================================================================
