-------------------------------- MODULE Forecast --------------------------------
(***************************************************************************)
(* The walk-forward forecast of model/ and the candidates serve/ ranks by  *)
(* it.  The mart grows by one gameweek at a time; a run fits every term    *)
(* again on the mart it finds (assemble_forecast) and lists who may be     *)
(* ranked in each of its gameweeks (run_decision).                         *)
(*                                                                         *)
(* Abstraction: a fitted value is what it was computed from, the rows it   *)
(* read with what they held, so two values are the same when they come     *)
(* from the same data by the same steps.  Numbers, and failures of the     *)
(* solver that depend on them alone, are left out; so are the draws of the *)
(* simulator, whose result is the law they are drawn from.  One rolling    *)
(* window stands for 3, 5 and 8; an appearance is a full match; a player   *)
(* keeps his club.  The lists are not cut to their first n.                *)
(***************************************************************************)
EXTENDS Integers, Sequences, FiniteSets

CONSTANTS Players,   \* ids, which order the rows
          Clubs, Positions,
          Club, Position, \* of each player
          Weeks,     \* what a gameweek may be: a status for every player
          MaxGw,     \* bound on the season
          Warmup,    \* WARMUP_GW
          Window,    \* the rolling window
          MinTrain,  \* min_train_rows_total of each Poisson term
          MinFit,    \* feature-complete rows a Poisson fit needs
          MinCell,   \* and a logistic fit of one position
          MinTeam,   \* MIN_TEAM_TRAIN_ROWS
          MinBonus,  \* MIN_BONUS_TRAIN_ROWS
          Zero, KeeperPrior  \* 0.0 and _GK_PRIOR_PLAY60

Statuses == {"none", "bench", "played", "double"}

ASSUME ForecastAssumption ==
  /\ Players \subseteq Nat /\ IsFiniteSet(Players)
  /\ Club \in [Players -> Clubs] /\ Position \in [Players -> Positions]
  /\ Weeks \subseteq [Players -> Statuses]
  /\ MaxGw \in Nat /\ Warmup \in Nat /\ Window \in Nat \ {0}
  /\ MinTrain \in [{"goals", "assists", "saves"} -> Nat]
  /\ MinFit \in Nat /\ MinCell \in Nat /\ MinTeam \in Nat /\ MinBonus \in Nat

VARIABLES mart,     \* the gameweeks so far
          forecast, \* of the last run, per keep_all: what each row of its panel carries
          ranked    \* per gameweek of that run, the candidates of each decision

vars == <<mart, forecast, ranked>>

(* A value that may be missing is a set of at most one element. *)
NaN == {}

--------------------------------------------------------------------------------
(* Rows are pairs <<player, gameweek>>, and <<club, gameweek>> at team grain *)

Rows(m) == Players \X DOMAIN m
Status(m, r) == m[r[2]][r[1]]

(* "none" is NULL minutes, no fixture; double gameweeks are left out. *)
Fixtured(m) == {r \in Rows(m) : Status(m, r) \in {"bench", "played"}}
Appeared(m) == {r \in Rows(m) : Status(m, r) = "played"}

(* Mutant: rows without a fixture are kept as well. *)
PopulationWithBlanks(m, keepAll) ==
  IF keepAll THEN {r \in Rows(m) : Status(m, r) # "double"} ELSE Appeared(m)

Population(m, keepAll) == IF keepAll THEN Fixtured(m) ELSE Appeared(m)

Earlier(rows, t) == {q \in rows : q[2] < t}

(* What is read of rows: which, and what they hold. *)
Seen(m, rows) == {<<q, Status(m, q)>> : q \in rows}

(* shift(1).rolling(Window) over the rows of one player or club. *)
Rolled(rows, r) ==
  LET own == {q \in rows : q[1] = r[1] /\ q[2] < r[2]} IN
    {q \in own : Cardinality({x \in own : x[2] > q[2]}) < Window}

(* The mart's own rolls run over the calendar and skip NULL. *)
MartRolled(m, r) ==
  {q \in Rows(m) : q[1] = r[1] /\ r[2] - Window <= q[2] /\ q[2] < r[2] /\ Status(m, q) # "none"}

--------------------------------------------------------------------------------
(* The terms at player grain *)

(* Saves draws on columns of the mart only; the others roll over the rows   *)
(* of their own population too.                                             *)
Features(m, keepAll, term, r) ==
  {Seen(m, MartRolled(m, r))}
    \cup IF term = "saves" THEN {} ELSE {Seen(m, Rolled(Population(m, keepAll), r))}

Complete(m, keepAll, term, r) == {} \notin Features(m, keepAll, term, r)

(* _fit_predict(): NaN on a thin slice and where a feature is missing. *)
Fit(m, keepAll, term, train, least, r) ==
  LET complete == {q \in train : Complete(m, keepAll, term, q)} IN
    IF Cardinality(complete) < least \/ ~Complete(m, keepAll, term, r) THEN NaN
    ELSE {[from |-> {<<q, Status(m, q), Features(m, keepAll, term, q)>> : q \in complete},
           at |-> Features(m, keepAll, term, r)]}

(* The positions a Poisson term fits; goals gives keepers the structural 0. *)
FitPositions(term) ==
  CASE term = "goals" -> Positions \ {"GK"} [] term = "saves" -> {"GK"} [] OTHER -> Positions

(* Mutant: the gameweek itself is trained on. *)
PoissonUpToNow(m, keepAll, term, r) ==
  LET train == {q \in Earlier(Appeared(m), r[2] + 1) : Position[q[1]] \in FitPositions(term)} IN
    IF r[2] <= Warmup \/ Cardinality(train) < MinTrain[term] THEN NaN
    ELSE IF Position[r[1]] \notin FitPositions(term) THEN {Zero}
    ELSE Fit(m, keepAll, term, train, MinFit, r)

Poisson(m, keepAll, term, r) ==
  LET train == {q \in Earlier(Appeared(m), r[2]) : Position[q[1]] \in FitPositions(term)} IN
    IF r[2] <= Warmup \/ Cardinality(train) < MinTrain[term] THEN NaN
    ELSE IF Position[r[1]] \notin FitPositions(term) THEN {Zero}
    ELSE Fit(m, keepAll, term, train, MinFit, r)

(* One logistic per position; only p_play learns from those who stayed out. *)
Logit(m, keepAll, term, r) ==
  LET rows == IF term = "p_play" THEN Fixtured(m) ELSE Appeared(m)
      train == {q \in Earlier(rows, r[2]) : Position[q[1]] = Position[r[1]]} IN
    IF r[2] <= Warmup THEN NaN ELSE Fit(m, keepAll, term, train, MinCell, r)

(* _fill_special(): a keeper's own earlier rows; without any, the keepers'  *)
(* rows above his in the order of player and gameweek.                      *)
KeeperRate(m, keepAll, r) ==
  LET keepers == {q \in Population(m, keepAll) : Position[q[1]] = "GK"}
      own == {q \in keepers : q[1] = r[1] /\ q[2] < r[2]}
      above == {q \in keepers : q[1] < r[1]} IN
    {IF own # {} THEN [keeper |-> Seen(m, own)]
     ELSE IF above # {} THEN [keepers |-> Seen(m, above)]
     ELSE KeeperPrior}

P60(m, keepAll, r) ==
  IF Position[r[1]] = "GK" THEN KeeperRate(m, keepAll, r) ELSE Logit(m, keepAll, "minutes", r)

--------------------------------------------------------------------------------
(* The joint term at team grain, broadcast to players *)

Sides(m) == {<<Club[q[1]], q[2]>> : q \in Appeared(m)}

(* The players who appeared give the side its goals against. *)
Sheet(m, s) == <<s, {q \in Appeared(m) : Club[q[1]] = s[1] /\ q[2] = s[2]}>>
Sheets(m, sides) == {Sheet(m, s) : s \in sides}

TeamGoalsAgainst(m, s) ==
  LET past(x) == Rolled(Sides(m), x)
      complete == {x \in Earlier(Sides(m), s[2]) : past(x) # {}} IN
    IF s[2] <= Warmup \/ s \notin Sides(m) \/ Cardinality(complete) < MinTeam \/ past(s) = {} THEN NaN
    ELSE {[from |-> {<<Sheet(m, x), Sheets(m, past(x))>> : x \in complete}, at |-> Sheets(m, past(s))]}

(* Mutant: the broadcast joins on the club alone. *)
BroadcastLatest(m, r) ==
  LET of == {s \in Sides(m) : s[1] = Club[r[1]]} IN
    IF of = {} THEN NaN
    ELSE TeamGoalsAgainst(m, CHOOSE s \in of : \A x \in of : x[2] <= s[2])

Broadcast(m, r) == TeamGoalsAgainst(m, <<Club[r[1]], r[2]>>)

(* The scoring map of a position's gameweek, fit where somebody appeared. *)
Bonus(m, r) ==
  LET cell == {q \in Appeared(m) : Position[q[1]] = Position[r[1]]} IN
    IF r[2] <= Warmup \/ Cardinality(Earlier(cell, r[2])) < MinBonus \/ ~\E q \in cell : q[2] = r[2]
      THEN NaN ELSE {Seen(m, Earlier(cell, r[2]))}

--------------------------------------------------------------------------------
(* compose and simulate *)

Views(m, keepAll, r) ==
  [goals |-> Poisson(m, keepAll, "goals", r),
   assists |-> Poisson(m, keepAll, "assists", r),
   saves |-> IF Position[r[1]] = "GK" THEN Poisson(m, keepAll, "saves", r) ELSE NaN,
   team |-> Broadcast(m, r),
   dc |-> IF Position[r[1]] = "GK" THEN NaN ELSE Logit(m, keepAll, "dc", r),
   p60 |-> P60(m, keepAll, r),
   bonus |-> Bonus(m, r)]

(* simulate's _REQUIRED *)
Required == {"goals", "assists", "team", "p60", "bonus"}

(* e_points: a missing view counts 0. *)
Points(v) == [x \in DOMAIN v |-> IF v[x] = NaN THEN {Zero} ELSE v[x]]

Line(m, keepAll, r) ==
  LET v == Views(m, keepAll, r)
      play == Logit(m, TRUE, "p_play", r) IN
    [views |-> v,
     uncond |-> IF ~keepAll \/ play = NaN THEN NaN ELSE {<<Points(v), play>>},
     dist |-> IF r[2] <= Warmup \/ \E x \in Required : v[x] = NaN THEN NaN ELSE {v}]

Panel(m, keepAll) == [r \in Population(m, keepAll) |-> Line(m, keepAll, r)]

--------------------------------------------------------------------------------
(* serve: who is ranked, by what *)

(* Mean minutes over the window of at least the given part of a match. *)
Regular(m, r, part) ==
  LET window == MartRolled(m, r) IN
    /\ window # {}
    /\ part * (Cardinality({q \in window : Status(m, q) # "bench"})
                 + Cardinality({q \in window : Status(m, q) = "double"})) >= Cardinality(window)

(* The enriched mart keeps every row; a row without a score is dropped. *)
Scores(panel, r, col) ==
  IF r \notin DOMAIN panel THEN NaN ELSE IF col = "p_haul" THEN panel[r].dist ELSE panel[r].uncond

Candidates(m, panel, t, col, part) ==
  {p \in Players : t > 1 /\ Regular(m, <<p, t>>, part) /\ Scores(panel, <<p, t>>, col) # NaN}

Shortlist(m, panel, t) ==
  [captain |-> Candidates(m, panel, t, "p_haul", 2),
   transfers |-> Candidates(m, panel, t, "e_points_uncond", 3)]

--------------------------------------------------------------------------------
Init ==
  /\ mart = <<>>
  /\ forecast = [keepAll \in BOOLEAN |-> <<>>]
  /\ ranked = <<>>

(* The mart is rebuilt with the next gameweek. *)
PlayWeek ==
  /\ Len(mart) < MaxGw
  /\ \E week \in Weeks : mart' = Append(mart, week)
  /\ UNCHANGED <<forecast, ranked>>

(* assemble_forecast() in both universes, and the ranker over every         *)
(* gameweek (recommend for one of them, the backtest for all).              *)
Run ==
  /\ Len(ranked) < Len(mart)
  /\ forecast' = [keepAll \in BOOLEAN |-> Panel(mart, keepAll)]
  /\ ranked' = [t \in DOMAIN mart |-> Shortlist(mart, forecast'[TRUE], t)]
  /\ UNCHANGED mart

Next == PlayWeek \/ Run

Spec == Init /\ [][Next]_vars

--------------------------------------------------------------------------------
(* A keeper's first row: there is nothing of his own to read.               *)
KeeperDebut(keepAll, r) ==
  Position[r[1]] = "GK" /\ {q \in DOMAIN forecast[keepAll] : q[1] = r[1] /\ q[2] < r[2]} = {}

(* A forecast is lag-safe (serve/captain.py:75-76, eval/walkforward.py:5-8): *)
(* a run on a longer mart leaves every earlier gameweek's forecast as it     *)
(* was.  Keepers' first rows excepted: see EveryForecastSettles.             *)
ForecastsSettle ==
  [][\A keepAll \in BOOLEAN : \A r \in DOMAIN forecast[keepAll] :
       /\ r \in DOMAIN forecast'[keepAll]
       /\ KeeperDebut(keepAll, r) \/ forecast'[keepAll][r] = forecast[keepAll][r]]_vars

(* Who is ranked settles too, keepers included: the backtest, which ranks   *)
(* every gameweek on the last mart, grades the candidates that were listed  *)
(* when the gameweek was the last one (backtest.py:137-140 of model/eval).  *)
ListsSettle ==
  [][\A t \in DOMAIN ranked : t \in DOMAIN ranked' /\ ranked'[t] = ranked[t]]_vars

(* The same of every forecast past the warm-up: the forecast at a gameweek  *)
(* "is lag-safe (the terms fit on gw < target_gw)", captain.py:75-76.       *)
EveryForecastSettles ==
  [][\A keepAll \in BOOLEAN : \A r \in DOMAIN forecast[keepAll] :
       r[2] > Warmup => forecast'[keepAll][r] = forecast[keepAll][r]]_vars

(* Every club with a fixture, and every position, has somebody on.          *)
Fielded(week) ==
  /\ \A p \in Players : week[p] = "bench" =>
       \E q \in Players : Club[q] = Club[p] /\ week[q] = "played"
  /\ \A pos \in {Position[p] : p \in Players} : \E q \in Players : Position[q] = pos /\ week[q] = "played"

SameFixtures(v, w) == \A p \in Players : v[p] = w[p] \/ {v[p], w[p]} = {"bench", "played"}

(* The forecast of a gameweek is made before it: whoever then appears of    *)
(* the players with a fixture, it is the same (compose.py:83-86,            *)
(* "evaluated as-if-played").  Keepers' first rows excepted.                   *)
IgnoresTheWeekItself ==
  LET t == Len(mart) IN
    t > 0 /\ Len(ranked) = t /\ Fielded(mart[t]) =>
      \A week \in Weeks : SameFixtures(week, mart[t]) /\ Fielded(week) =>
        LET other == [mart EXCEPT ![t] = week] IN
          \A r \in Players \X {t} :
            r \in DOMAIN forecast[TRUE] =>
              /\ r \in Fixtured(other)
              /\ KeeperDebut(TRUE, r) \/ Line(other, TRUE, r) = forecast[TRUE][r]

(* keep_all adds rows and changes no forecast that is made of the mart's    *)
(* own columns (test_keep_all.py:8-11): of the shared rows, saves, the team *)
(* term and bonus are the same in both universes.                           *)
WideningOnlyAdds ==
  \A r \in DOMAIN forecast[FALSE] :
    /\ r \in DOMAIN forecast[TRUE]
    /\ \A x \in {"saves", "team", "bonus"} : forecast[FALSE][r].views[x] = forecast[TRUE][r].views[x]

(* A gameweek in which everybody plays one match, and those before t whose  *)
(* windows reach back to another such gameweek: every term can learn there. *)
FullWeek(g) == \A p \in Players : mart[g][p] = "played"
Learnable(t) ==
  {g \in DOMAIN mart : g < t /\ FullWeek(g) /\ \E h \in DOMAIN mart : g - Window <= h /\ h < g /\ FullWeek(h)}

(* The rows of n of them reach every minimum size. *)
Enough(n) ==
  LET of(positions) == n * Cardinality({p \in Players : Position[p] \in positions}) IN
    /\ n > 0
    /\ \A term \in {"goals", "assists"} :
         of(FitPositions(term)) >= MinTrain[term] /\ of(FitPositions(term)) >= MinFit
    /\ \A pos \in {Position[p] : p \in Players} : of({pos}) >= MinCell /\ of({pos}) >= MinBonus
    /\ n * Cardinality({Club[p] : p \in Players}) >= MinTeam

(* No regular is lost between the forecast and the lists: after enough full *)
(* gameweeks, each one with a single match is a captain and a transfer      *)
(* candidate, and nobody without one is (decision_engine.py:52-56).         *)
NoRegularLost ==
  \A t \in DOMAIN ranked :
    t > Warmup /\ Enough(Cardinality(Learnable(t))) /\ Fielded(mart[t]) =>
      LET single == {p \in Players : mart[t][p] \in {"bench", "played"}} IN
        /\ ranked[t].captain = {p \in single : Regular(mart, <<p, t>>, 2)}
        /\ ranked[t].transfers = {p \in single : Regular(mart, <<p, t>>, 3)}
================================================================================
