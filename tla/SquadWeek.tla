------------------------------- MODULE SquadWeek -------------------------------
(***************************************************************************)
(* decisions/starting_xi/harness.py, run(): one squad-week from the        *)
(* ranker's scores to its rows on T2 and T5.  It runs XISelection          *)
(* (which XI is chosen) and then XIReplay, once per ordering of the        *)
(* outfield bench, against the best XI in hindsight.  The orderings        *)
(* are those of orderings.py; any may be the primary.                      *)
(***************************************************************************)
EXTENDS XIReplay

CONSTANTS Cases,  \* [score, noFixture, featured, points, asof]
          Weight  \* _POSITION_WEIGHT, in hundredths

VARIABLES stage,   \* whether XISelection or XIReplay is running
          asof,    \* each player's points per gameweek before this one
          plain,   \* the XI without the no-fixture rule
          replays, \* what each ordering came to
          best,    \* the best legal XI, and the second-best total, on asof
          row      \* the row of T2

selection == <<score, noFixture, points, rank, xi, best>>
replay == <<featured, order, live, queue, vacancies, vacant, unfilled, entered, regret>>
vars == <<selection, replay, pc, stage, asof, plain, replays, row>>

(* The goalkeeper has one place and one substitute; no outfield position    *)
(* has more players than may start; and a legal formation has at most one   *)
(* outfield position at its minimum (domain/fpl_squad.py).                  *)
ASSUME WeekAssumption ==
  /\ GK \in Positions
  /\ XiMin[GK] = 1 /\ XiMax[GK] = 1 /\ Cardinality(At(Squad, GK)) = 2
  /\ \A p \in Positions \ {GK} : Cardinality(At(Squad, p)) <= XiMax[p]
  /\ \A f \in LegalFormations : \A p, q \in Positions \ {GK} :
       f[p] = XiMin[p] /\ f[q] = XiMin[q] => p = q
  /\ Unranked \notin Int
  /\ Cases \subseteq [score : [Squad -> Int \cup {Unranked}], noFixture : SUBSET Squad,
                     featured : SUBSET Squad, points : [Squad -> Int], asof : [Squad -> Int]]
  /\ Weight \in [Positions \ {GK} -> Int]

NoRow == [primary |-> "", regret |-> 0, closeness |-> 0, changed |-> FALSE,
          fired |-> FALSE, uncovered |-> FALSE, permutation |-> 0]

Init ==
  /\ \E c \in Cases :
       /\ score = c.score /\ noFixture = c.noFixture
       /\ featured = c.featured /\ points = c.points /\ asof = c.asof
  /\ pc = "rank" /\ stage = "select"
  /\ rank = [x \in Squad |-> 0]
  /\ xi = {} /\ plain = {} /\ live = {}
  /\ best = [xi |-> {}, best |-> 0, second |-> 0]
  /\ order = <<>> /\ queue = <<>>
  /\ vacancies = {} /\ unfilled = {} /\ entered = {}
  /\ vacant = Nobody
  /\ regret = 0
  /\ replays = << >>
  /\ row = NoRow

--------------------------------------------------------------------------------
RankStep ==
  /\ stage = "select"
  /\ RankSquad
  /\ UNCHANGED <<points, best, replay, stage, asof, plain, replays, row>>

(* Ahead with nobody in the last tier. *)
AheadUnruled(x, y) ==
  \/ score[x] # Unranked /\ score[y] = Unranked
  \/ /\ (score[x] = Unranked) = (score[y] = Unranked)
     /\ \/ ScoreOrZero(x) > ScoreOrZero(y)
        \/ ScoreOrZero(x) = ScoreOrZero(y) /\ x < y

(* The XI, and the one that would have been chosen without the rule. *)
SelectStep ==
  /\ stage = "select"
  /\ SelectXI
  /\ LET value == [x \in Squad |-> Cardinality({y \in Squad : x = y \/ AheadUnruled(x, y)})] IN
       plain' = Pick(Winner(Sides(value, AheadUnruled)).formation, AheadUnruled)
  /\ UNCHANGED <<points, best, replay, stage, asof, replays, row>>

Bench == Outfield(Squad \ xi)
Orderings == SetToSeqs(Bench)

(* The next of the orderings not yet replayed. *)
StartReplay ==
  /\ \/ stage = "select" /\ pc = "chosen"
     \/ stage = "replay" /\ pc = "scored"
  /\ DOMAIN replays # Orderings
  /\ order' = CHOOSE o \in Orderings : o \notin DOMAIN replays
  /\ queue' = order'
  /\ live' = xi
  /\ vacancies' = Outfield(xi) \ featured
  /\ vacant' = Nobody /\ unfilled' = {} /\ entered' = {} /\ regret' = 0
  /\ pc' = "keeper" /\ stage' = "replay"
  /\ UNCHANGED <<selection, featured, asof, plain, replays, row>>

ReplayStep ==
  /\ stage = "replay"
  /\ \/ KeeperStays \/ KeeperReplaced \/ KeeperUncovered
     \/ \E x \in Squad : Vacate(x)
     \/ \E i \in DOMAIN queue : Enter(i)
     \/ NobodyEnters
  /\ UNCHANGED <<score, noFixture, rank, best, stage, asof, plain, replays, row>>

ScoreReplay ==
  /\ stage = "replay"
  /\ Score
  /\ replays' =
       [o \in DOMAIN replays \cup {order} |->
          IF o = order
          THEN [total     |-> Total(live, points),
                entered   |-> entered,
                fired     |-> entered # {} \/ live \cap At(Squad \ xi, GK) # {},
                uncovered |-> unfilled # {}]
          ELSE replays[o]]
  /\ UNCHANGED <<score, noFixture, rank, best, stage, asof, plain, row>>

(* order_by_rank() and order_by_weighted_score(). *)
Sorted(InFront(_, _)) ==
  CHOOSE o \in Orderings : \A i, j \in DOMAIN o : i < j => InFront(o[i], o[j])

ByRank == Sorted(LAMBDA x, y : rank[x] < rank[y])

AheadWeighted(x, y) ==
  LET worth(z) == IF Tier(z) = 0 THEN score[z] * Weight[PositionOf[z]] ELSE 0 IN
    \/ Tier(x) < Tier(y)
    \/ /\ Tier(x) = Tier(y)
       /\ \/ worth(x) > worth(y)
          \/ worth(x) = worth(y) /\ x < y

ByWeightedScore == Sorted(AheadWeighted)

(* Best of all orderings, regret and closeness go to the row; a regret      *)
(* below zero raises instead.                                               *)
Compare(primary, ordering) ==
  /\ stage = "replay" /\ pc = "scored"
  /\ DOMAIN replays = Orderings
  /\ best' = BestLegalXI(asof)
  /\ LET r == replays[ordering]
         short == BestLegalXI(points).best - r.total
     IN  /\ stage' = IF short < 0 THEN "raised" ELSE "written"
         /\ row' = IF short < 0 THEN NoRow
                   ELSE [primary     |-> primary,
                         regret      |-> short,
                         closeness   |-> best'.best - best'.second,
                         changed     |-> xi # plain,
                         fired       |-> r.fired,
                         uncovered   |-> r.uncovered,
                         permutation |-> Max({replays[o].total : o \in Orderings})]
  /\ pc' = "done"
  /\ UNCHANGED <<score, noFixture, points, rank, xi, replay, asof, plain, replays>>

Next ==
  \/ RankStep \/ SelectStep \/ StartReplay \/ ReplayStep \/ ScoreReplay
  \/ Compare("by_rank", ByRank) \/ Compare("by_weighted_score", ByWeightedScore)

Spec == Init /\ [][Next]_vars
--------------------------------------------------------------------------------
(* Idle players start only where the rules force them to, unranked ones     *)
(* only where idle ones do, and among such sides the XI is worth most on    *)
(* the ranker's own scores, though they were never summed                   *)
(* (harness.py:224-252, :270-275).                                          *)
Idle(S) == Cardinality(S \cap noFixture)
UnrankedIn(S) == Cardinality({x \in S \ noFixture : score[x] = Unranked})
ScoredIn(S) == {x \in S \ noFixture : score[x] # Unranked}
BestOnItsScores ==
  stage = "select" /\ pc = "chosen" =>
    /\ xi \in LegalXIs
    /\ \A S \in LegalXIs :
         \/ Idle(S) > Idle(xi)
         \/ Idle(S) = Idle(xi) /\ UnrankedIn(S) > UnrankedIn(xi)
         \/ /\ Idle(S) = Idle(xi) /\ UnrankedIn(S) = UnrankedIn(xi)
            /\ Total(ScoredIn(S), score) <= Total(ScoredIn(xi), score)

(* Between two vacancies the side is a legal XI, the unfilled places still  *)
(* named to their starters: no order of vacancies and no queue lets it      *)
(* leave the set the counterfactual maximises over (formations.py:14-16,    *)
(* harness.py:356-358).                                                     *)
SideStaysLegal ==
  stage = "replay" /\ pc # "fill" =>
    IsLegalXI(live \cup unfilled) /\ live \cap unfilled \subseteq {Keeper(xi)}

(* Every ordering's replay covers as many blanks as any legal XI that keeps *)
(* the starters who featured: deferring the tightest position wastes no     *)
(* substitute (harness.py:403-409).                                         *)
CoversAllItCan ==
  stage = "replay" /\ pc = "scored" =>
    \A subs \in SUBSET (ToSet(order) \cap featured) :
      Cardinality(subs) > Cardinality(entered) =>
        \A blanks \in SUBSET Outfield(xi \ featured) :
          ~IsLegalXI({Keeper(xi)} \cup (xi \cap featured) \cup subs \cup blanks)

(* Bench priority is kept in every replay: a featured player left on the    *)
(* bench could not have taken the place, in the final side, of one who came *)
(* on from behind him in the order (harness.py:362-363).                    *)
PriorityRespected ==
  stage = "replay" /\ pc = "scored" =>
    \A i, j \in DOMAIN order :
      /\ i < j
      /\ order[i] \in featured \ entered
      /\ order[j] \in entered
      => ~IsLegalXI(((live \cup unfilled) \ {order[j]}) \cup {order[i]})

(* Regret is never negative, whichever ordering is the primary, and no week *)
(* ends in the AssertionError (harness.py:670-679) unless somebody without  *)
(* minutes lost points: a side left short may then beat every full one.     *)
RegretNonNegative ==
  (\A x \in Squad \ featured : points[x] >= 0) =>
    stage # "raised" /\ (stage = "replay" => regret >= 0)

(* The closeness pair is the best total of any legal XI on the as-of        *)
(* statistic, and the best of any legal XI but one of those: the demotion   *)
(* argument of best_legal_xi (formations.py:128-137).                       *)
BestAndSecondBest ==
  stage = "written" =>
    /\ best.xi \in LegalXIs
    /\ best.best = Max({Total(S, asof) : S \in LegalXIs})
    /\ best.second = Max({Total(S, asof) : S \in LegalXIs \ {best.xi}})
    /\ row.closeness = best.best - best.second

(* A ranking that puts the squad in the order its points came out in leaves *)
(* no regret, under any ordering of the bench, in a week in which nobody    *)
(* loses points: tiers, selection, substitutions and the counterfactual all *)
(* agree on what is best.                                                   *)
RightRankingHasNoRegret ==
  /\ stage = "written"
  /\ \A x, y \in Squad : points[x] > points[y] => rank[x] < rank[y]
  /\ \A x \in Squad : points[x] >= 0 /\ (x \notin featured => points[x] = 0)
  => row.regret = 0
================================================================================
