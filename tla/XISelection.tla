------------------------------ MODULE XISelection ------------------------------
(***************************************************************************)
(* decisions/starting_xi/harness.py, rank_squad() and select_xi(): a       *)
(* squad is ranked in three tiers and the XI is the legal one worth most   *)
(* by rank.                                                                *)
(***************************************************************************)
EXTENDS Formations

CONSTANT Unranked \* a player the ranker gives no score

VARIABLES score,     \* the ranker's score, or none
          noFixture, \* the players without a fixture
          pc,        \* the step the week is at
          rank,      \* each player's place in the ranking
          xi         \* the chosen XI

(* Scored players first, then those a ranker cannot rank, then those with   *)
(* no fixture.                                                              *)
Tier(x) == IF x \in noFixture THEN 2 ELSE IF score[x] = Unranked THEN 1 ELSE 0

ScoreOrZero(x) == IF score[x] = Unranked THEN 0 ELSE score[x]

(* Mutant: the tier alone, in order of id. *)
AheadByTierOnly(x, y) == Tier(x) < Tier(y) \/ (Tier(x) = Tier(y) /\ x < y)

(* Better in the ranking: tier, then score, then player id. *)
Ahead(x, y) ==
  \/ Tier(x) < Tier(y)
  \/ /\ Tier(x) = Tier(y)
     /\ \/ ScoreOrZero(x) > ScoreOrZero(y)
        \/ ScoreOrZero(x) = ScoreOrZero(y) /\ x < y

RankSquad ==
  /\ pc = "rank"
  /\ rank' = [x \in Squad |-> 1 + Cardinality({y \in Squad : Ahead(y, x)})]
  /\ pc' = "select"
  /\ UNCHANGED <<score, noFixture, xi>>

(* Mutant: the lowest formation, with the best players it admits. *)
SelectLowestFormation ==
  /\ pc = "select"
  /\ LET Higher(x, y) == rank[x] < rank[y]
         lowest == CHOOSE f \in LegalFormations : \A g \in LegalFormations \ {f} : Lower(f, g) IN
       xi' = Pick(lowest, Higher)
  /\ pc' = "chosen"
  /\ UNCHANGED <<score, noFixture, rank>>

(* Places are worth distinct values; the XI worth most is chosen. *)
SelectXI ==
  /\ pc = "select"
  /\ LET Higher(x, y) == rank[x] < rank[y]
         value == [x \in Squad |-> Cardinality(Squad) + 1 - rank[x]] IN
       xi' = Pick(Winner(Sides(value, Higher)).formation, Higher)
  /\ pc' = "chosen"
  /\ UNCHANGED <<score, noFixture, rank>>

================================================================================
