------------------------------ MODULE FreeHitSquad ------------------------------
(***************************************************************************)
(* decisions/free_hit/candidates.py and feasibility.py: a policy scores    *)
(* the gameweek's candidates and fills the squad position by position,     *)
(* best score first, skipping whoever can_complete() says would make the   *)
(* rest impossible.                                                        *)
(***************************************************************************)
EXTENDS SquadRules

CONSTANTS Families, \* sequence of sets of gameweeks <<<<prices, signals, policy>>, clubs>>
          NoValue   \* a signal without prior data (NaN)

Values == [Players -> Int \cup {NoValue}]

(* Ids break ties; a gameweek's prices and signals are columns of its pool. *)
ASSUME PoolAssumption ==
  /\ Players \subseteq Nat
  /\ NoValue \notin Int
  /\ \A i \in DOMAIN Families : \A g \in Families[i] :
       /\ g[1][1] \in [Players -> Nat]
       /\ g[1][2].first \in Values /\ g[1][2].second \in Values /\ g[1][2].fdr \in Values
       /\ g[1][3] \in {"single", "composite"}

VARIABLES price,  \* each candidate's price
          club,   \* each candidate's club
          signal, \* the signals the policies read
          policy, \* "single" ranks on the first signal, "composite" on all
          score,  \* the policy's score
          phase,  \* the step the policy is at
          at,     \* index of the position being filled
          seen,   \* the position's candidates already considered
          picked, \* the squad so far
          misjudged \* history: someone was skipped who fits a legal squad with the picks

pool == <<price, club, signal, policy>>
FillVars == <<pool, score, phase, at, seen, picked, misjudged>>

FillInit ==
  /\ \E i \in DOMAIN Families : \E g \in Families[i] :
       price = g[1][1] /\ signal = g[1][2] /\ policy = g[1][3] /\ club = g[2]
  /\ score = [x \in Players |-> NoValue]
  /\ phase = "score"
  /\ at = 1
  /\ seen = {}
  /\ picked = {}
  /\ misjudged = FALSE

OfClub(S, k) == {x \in S : club[x] = k}
Cost(S) == SumFunctionOnSet(price, S)

--------------------------------------------------------------------------------
(* Scores *)

Scorable(f) == {x \in Players : f[x] # NoValue}

(* Twice the average rank below the first: ties take their mean. *)
HalfRank(f, x) ==
  2 * Cardinality({y \in Scorable(f) : f[y] < f[x]}) + Cardinality({y \in Scorable(f) : f[y] = f[x]}) - 1

(* Ranks are mapped to 0..1 over the scorable candidates: HalfRank over     *)
(* this; a lone candidate is at a half.                                     *)
Span(f) == IF Cardinality(Scorable(f)) = 1 THEN 2 ELSE 2 * (Cardinality(Scorable(f)) - 1)
Normalized(f, x) == IF Cardinality(Scorable(f)) = 1 THEN 1 ELSE HalfRank(f, x)

(* An easier fixture has the lower bin; the term is reversed before ranking. *)
Ease == [x \in Players |-> IF signal.fdr[x] = NoValue THEN NoValue ELSE 6 - signal.fdr[x]]

Terms == <<signal.first, signal.second, Ease>>

Weights == <<1, 1, 2>> \* COMPOSITE_WEIGHTS and C5_WEIGHTS, in quarters

(* The weighted sum over the product of the spans, without a value where    *)
(* any term is.                                                             *)
Composite(x) ==
  IF \E i \in 1..3 : Terms[i][x] = NoValue THEN NoValue
  ELSE Weights[1] * Normalized(Terms[1], x) * Span(Terms[2]) * Span(Terms[3])
     + Weights[2] * Normalized(Terms[2], x) * Span(Terms[1]) * Span(Terms[3])
     + Weights[3] * Normalized(Terms[3], x) * Span(Terms[1]) * Span(Terms[2])

ScorePool ==
  /\ phase = "score"
  /\ score' = [x \in Players |-> IF policy = "single" THEN signal.first[x] ELSE Composite(x)]
  /\ phase' = "fill"
  /\ UNCHANGED <<pool, at, seen, picked, misjudged>>

(* Best first; without a score last; then the lower id. *)
Ahead(x, y) ==
  \/ score[x] # NoValue /\ score[y] = NoValue
  \/ score[x] # NoValue /\ score[y] # NoValue /\ score[x] > score[y]
  \/ score[x] = score[y] /\ x < y

--------------------------------------------------------------------------------
(* can_complete() *)

Needed(squad, p) == Quota[p] - Cardinality(At(squad, p))
HasRoom(squad, x) == Cardinality(OfClub(squad, club[x])) < MaxPerClub

Index(p) == CHOOSE i \in DOMAIN PositionOrder : PositionOrder[i] = p

(* Mutant: the candidates of a position in the order of the pool. *)
CheaperUnsorted(x, y) ==
  Index(PositionOf[x]) < Index(PositionOf[y]) \/ (PositionOf[x] = PositionOf[y] /\ x < y)

(* The order of the completion: by position, the cheapest first. *)
CheaperAt(x, y) ==
  \/ Index(PositionOf[x]) < Index(PositionOf[y])
  \/ /\ PositionOf[x] = PositionOf[y]
     /\ price[x] < price[y] \/ (price[x] = price[y] /\ x < y)

(* The squad with every remaining place filled by the cheapest candidate    *)
(* whose club still has room, position after position: a candidate is in it *)
(* if at his turn his position and his club have a place left.              *)
BeforeTurn(squad, G, x) == squad \cup {y \in G : CheaperAt(y, x)}
IsTaken(S, x) == Needed(S, PositionOf[x]) > 0 /\ HasRoom(S, x)

GreedyCompletion(squad) ==
  CHOOSE G \in SUBSET Players :
    /\ squad \subseteq G
    /\ \A x \in Players \ squad : x \in G <=> IsTaken(BeforeTurn(squad, G, x), x)

Full(S) == \A p \in Positions : Needed(S, p) = 0

(* Mutant: every position is completed as if it were the only one. *)
CanCompleteEachAlone(squad) ==
  /\ \A p \in Positions : Cardinality({x \in At(Players \ squad, p) : HasRoom(squad, x)}) >= Needed(squad, p)
  /\ Cost(GreedyCompletion(squad)) <= Budget

CanComplete(squad) ==
  /\ Cost(squad) <= Budget
  /\ Full(GreedyCompletion(squad))
  /\ Cost(GreedyCompletion(squad)) <= Budget

--------------------------------------------------------------------------------
(* What a squad has to be, and what can still become one. *)
Legal(S) ==
  /\ Full(S)
  /\ \A x \in S : Cardinality(OfClub(S, club[x])) <= MaxPerClub
  /\ Cost(S) <= Budget

LegalSquads == {S \in SUBSET Players : Legal(S)}

WithinReach(T) == \E S \in LegalSquads : T \subseteq S

--------------------------------------------------------------------------------
(* _greedy_fill() *)

Position == PositionOrder[at]

IsNext(x) ==
  /\ phase = "fill"
  /\ at \in DOMAIN PositionOrder
  /\ x \in At(Players, Position) \ seen
  /\ \A y \in At(Players, Position) \ (seen \cup {x}) : Ahead(x, y)
  /\ Needed(picked, Position) > 0

Fits(x) ==
  /\ Cost(picked) + price[x] <= Budget
  /\ HasRoom(picked, x)
  /\ CanComplete(picked \cup {x})

Pick(x) ==
  /\ IsNext(x)
  /\ Fits(x)
  /\ picked' = picked \cup {x}
  /\ seen' = seen \cup {x}
  /\ UNCHANGED <<pool, score, phase, at, misjudged>>

Skip(x) ==
  /\ IsNext(x)
  /\ ~Fits(x)
  /\ seen' = seen \cup {x}
  /\ misjudged' = (misjudged \/ WithinReach(picked \cup {x}))
  /\ UNCHANGED <<pool, score, phase, at, picked>>

NextPosition ==
  /\ phase = "fill"
  /\ at \in DOMAIN PositionOrder
  /\ Needed(picked, Position) = 0
  /\ at' = at + 1
  /\ seen' = {}
  /\ UNCHANGED <<pool, score, phase, picked, misjudged>>

(* InfeasibleGameweek. *)
GiveUp ==
  /\ phase = "fill"
  /\ at \in DOMAIN PositionOrder
  /\ Needed(picked, Position) > 0
  /\ At(Players, Position) \subseteq seen
  /\ phase' = "infeasible"
  /\ UNCHANGED <<pool, score, at, seen, picked, misjudged>>

Finish ==
  /\ phase = "fill"
  /\ at = Len(PositionOrder) + 1
  /\ phase' = "squad"
  /\ UNCHANGED <<pool, score, at, seen, picked, misjudged>>

FillNext ==
  \/ ScorePool
  \/ \E x \in Players : Pick(x) \/ Skip(x)
  \/ NextPosition \/ GiveUp \/ Finish

FillSpec == FillInit /\ [][FillNext]_FillVars

--------------------------------------------------------------------------------
(* Every pick leaves a legal squad within reach: can_complete overstates    *)
(* the cost of finishing, so what it accepts is never a dead end            *)
(* (feasibility.py:34-37); what it ends with is one.                        *)
PicksCanComplete ==
  /\ picked # {} => WithinReach(picked)
  /\ phase = "squad" => Legal(picked)

(* The completion spends the last place of a club on one position and then  *)
(* lacks it for a candidate of a later one.                                 *)
ClubSpentEarlier(T) ==
  \E x \in Players \ T :
    LET before == BeforeTurn(T, GreedyCompletion(T), x) IN
      /\ Needed(before, PositionOf[x]) > 0 /\ ~HasRoom(before, x)
      /\ \E y \in before \ T : club[y] = club[x] /\ PositionOf[y] # PositionOf[x]

(* can_complete turns down a candidate who fits a legal squad with the      *)
(* picks only in that case: within one position, clubs full or not, its     *)
(* completion is the cheapest there is (feasibility.py:25-45).              *)
ErrsOnlyAcrossPositions ==
  \A x \in Players :
    IsNext(x) /\ ~Fits(x) /\ WithinReach(picked \cup {x}) => ClubSpentEarlier(picked \cup {x})

(* Where that never happened (0 of 75 refusals on the season's pools,       *)
(* test_feasibility_club_cap_probe.py:134), the fill gives up only on a     *)
(* pool without a legal squad, and no one it passed over could replace a    *)
(* lower-ranked pick: what it once skipped it need not ask about again      *)
(* (candidates.py:317-320, :361).                                           *)
BestWhereNotMisjudged ==
  ~misjudged =>
    /\ phase = "infeasible" => LegalSquads = {}
    /\ phase = "squad" =>
         \A x \in picked, y \in Players \ picked :
           PositionOf[x] = PositionOf[y] /\ Ahead(y, x) => ~Legal((picked \ {x}) \cup {y})

(* A candidate no worse on any term and better on one is ranked ahead, and  *)
(* equal signals give equal scores: every weight counts at every ranking    *)
(* and ties do not depend on the order of the pool (candidates.py:456-458,  *)
(* :476-478).                                                                *)
CompositeDominates ==
  phase # "score" /\ policy = "composite" =>
    \A x, y \in {z \in Players : score[z] # NoValue} :
      (\A i \in 1..3 : Terms[i][x] >= Terms[i][y]) =>
        IF \A i \in 1..3 : Terms[i][x] = Terms[i][y] THEN score[x] = score[y] ELSE score[x] > score[y]

(* From the composite to the squad, the better candidate comes first. *)
BestFirst == CompositeDominates /\ ErrsOnlyAcrossPositions /\ BestWhereNotMisjudged
================================================================================
