------------------------------- MODULE Formations -------------------------------
(***************************************************************************)
(* domain/fpl_squad.py and decisions/starting_xi/formations.py: the legal  *)
(* formations derived from FPL's bounds, the legality of a side, and the   *)
(* best and second-best legal XI of a squad by prefixes of each position.  *)
(***************************************************************************)
EXTENDS Integers, Sequences, FiniteSetsExt, Functions

CONSTANTS Squad,         \* the players; their ids break ties
          PositionOf,    \* each player's position
          PositionOrder, \* the positions, in POSITIONS order
          XiMin, XiMax,  \* XI bounds per position
          XiSize         \* players in an XI

Positions == Range(PositionOrder)

At(S, p) == {x \in S : PositionOf[x] = p}

Counts(S) == [p \in Positions |-> Cardinality(At(S, p))]

(* The count vectors inside the bounds, and those of them that fill an XI   *)
(* (a mapped set, which TLC enumerates once).                               *)
WithinBounds ==
  {f \in [Positions -> UNION {XiMin[p]..XiMax[p] : p \in Positions}] :
     \A p \in Positions : f[p] \in XiMin[p]..XiMax[p]}

LegalFormations == {f : f \in {g \in WithinBounds : SumFunction(g) = XiSize}}

(* Some formation is legal, every one starts somebody at each position, and *)
(* the squad can field all of them.                                         *)
ASSUME SquadAssumption ==
  /\ Squad \subseteq Nat \ {0} /\ IsFiniteSet(Squad)
  /\ PositionOrder \in Seq(Positions)
  /\ PositionOf \in [Squad -> Positions]
  /\ XiMin \in [Positions -> Nat \ {0}]
  /\ XiMax \in [Positions -> Nat]
  /\ XiSize \in Nat
  /\ LegalFormations # {}
  /\ \A p \in Positions : XiMax[p] <= Cardinality(At(Squad, p))

IsLegalXI(S) == Counts(S) \in LegalFormations

(* Every legal side of the squad, counted out one player set at a time.     *)
LegalXIs == {S : S \in {R \in kSubset(XiSize, Squad) : IsLegalXI(R)}}

(* The order LEGAL_FORMATIONS is sorted in, which settles ties. *)
Lower(f, g) ==
  \E i \in DOMAIN PositionOrder :
    /\ f[PositionOrder[i]] < g[PositionOrder[i]]
    /\ \A j \in 1..(i - 1) : f[PositionOrder[j]] = g[PositionOrder[j]]

(* The first n players of a position under a strict order on players. *)
Top(p, n, Ahead(_, _)) ==
  {x \in At(Squad, p) : Cardinality({y \in At(Squad, p) : Ahead(y, x)}) < n}

(* The best side a formation admits under the order. *)
Pick(f, Ahead(_, _)) == UNION {Top(p, f[p], Ahead) : p \in Positions}

Total(S, value) == SumFunctionOnSet(value, S)

(* What the best side of each formation is worth. *)
Sides(value, Ahead(_, _)) ==
  {[formation |-> f, total |-> Total(Pick(f, Ahead), value)] : f \in LegalFormations}

(* A side worth most, of the lowest formation among those worth as much. *)
Winner(sides) ==
  LET best == Max({s.total : s \in sides})
      level == {s.formation : s \in {t \in sides : t.total = best}} IN
    [formation |-> CHOOSE f \in level : \A g \in level \ {f} : Lower(f, g), total |-> best]

(* More points first. *)
Scores(points, x, y) == points[x] > points[y] \/ (points[x] = points[y] /\ x < y)

(* Mutant: the runner-up is the best side of another formation. *)
BestOfOtherFormation(points) ==
  LET Ahead(x, y) == Scores(points, x, y)
      sides == Sides(points, Ahead)
      winner == Winner(sides) IN
    [xi |-> Pick(winner.formation, Ahead),
     best |-> winner.total,
     second |-> Max({s.total : s \in sides \ {winner}})]

(* The best side, and the second-best total: the best of another formation, *)
(* or the winner with one starter demoted for the next at his position.     *)
BestLegalXI(points) ==
  LET Ahead(x, y) == Scores(points, x, y)
      sides == Sides(points, Ahead)
      winner == Winner(sides)
      xi == Pick(winner.formation, Ahead)
      demotions == {Min({points[x] : x \in At(xi, p)}) - Max({points[x] : x \in At(Squad \ xi, p)}) :
                      p \in {q \in Positions : winner.formation[q] < Cardinality(At(Squad, q))}} IN
    [xi |-> xi,
     best |-> winner.total,
     second |-> Max({s.total : s \in sides \ {winner}} \cup {winner.total - Min(demotions)})]
================================================================================
