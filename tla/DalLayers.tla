------------------------------- MODULE DalLayers -------------------------------
(***************************************************************************)
(* The five layers of dal/: staging, intermediate, fct, feat and mart turn *)
(* the tables of the source database into one row per player and gameweek. *)
(* A layer ends in its frame, in a DALContractViolation ("violation") or   *)
(* in any other exception ("error"); MartPipeline shows what run() makes   *)
(* of each.                                                                *)
(*                                                                         *)
(* Abstraction: minutes stand for every summed column, price and team for  *)
(* the columns taken first, status for the flags of the events table that  *)
(* are joined to every row (finished, is_previous, is_live, is_next); a    *)
(* mean is the pair <<sum, observations>>.                                 *)
(***************************************************************************)
EXTENDS Integers, FiniteSetsExt, Functions

CONSTANTS Sources,   \* source databases: teams, players, fixtures, events, histories
          CutPoints, \* values of data_cutoff_gw
          Windows,   \* lengths of the rolling windows (3, 5 and 8 in the code)
          Trend,     \* length of the two windows the trend compares (3 in the code)
          Swing,     \* minutes by which their means must differ (30 in the code)
          Null,      \* NULL
          StatusOn(_, _) \* StatusOn(c, g): the status of gameweek g while c is the last one played

(* A staged history row, by the types its columns are cast to. *)
HistoryRow ==
  [player : Int, fixture : Int, gw : Int, home : BOOLEAN, minutes : Int \cup {Null}, price : Int]

ASSUME LayersAssumption ==
  /\ Windows \subseteq Nat \ {0} /\ Trend \in Nat \ {0} /\ Swing \in Nat
  /\ CutPoints \subseteq Int /\ Null \notin Int
  /\ \A s \in Sources :
       /\ DOMAIN s = {"teams", "players", "fixtures", "events", "histories"}
       /\ IsFiniteSet(s.histories) /\ IsFiniteSet(s.fixtures) /\ IsFiniteSet(s.events)
       /\ s.histories \subseteq HistoryRow
       /\ \A e \in s.events : e = [x \in DOMAIN e |-> e[x]] /\ {"gw", "status"} \subseteq DOMAIN e /\ e.gw \in Int

VARIABLES source,   \* the database read
          cutoff,   \* data_cutoff_gw, Null if not given
          stage,    \* the layer at work, or how the build ended
          base,     \* player fixtures: a row per history row
          spine,    \* per <<player, gameweek>>
          table     \* the mart's rows, per <<player, gameweek>> up to the cutoff

buildVars == <<source, cutoff, stage, base, spine, table>>

BuildInit ==
  /\ source \in Sources
  /\ cutoff \in CutPoints \cup {Null}
  /\ stage = "staging"
  /\ base = {} /\ spine = <<>> /\ table = <<>>

--------------------------------------------------------------------------------
(* Checks shared by the layers *)

(* validate_join_safety() after a left join: a row on the right repeats a key. *)
FansOut(left, f, right, g) == \E x \in left : Cardinality({y \in right : y[g] = x[f]}) > 1

(* validate_grain_uniqueness() *)
Unique(rows, keys) == \A x, y \in rows : (\A k \in keys : x[k] = y[k]) => x = y

(* The layer at work hands over to the next, or the build ends. *)
Advance(outcome, next) == stage' = IF outcome = "ok" THEN next ELSE outcome

--------------------------------------------------------------------------------
(* Staging *)

Stage ==
  /\ stage = "staging"
  /\ Advance(IF \E h \in source.histories : h.minutes = Null THEN "error" ELSE "ok", "intermediate")
  /\ UNCHANGED <<source, cutoff, base, spine, table>>

--------------------------------------------------------------------------------
(* Intermediate: fixtures and players are joined on *)

(* A fixture without a gameweek is left out. *)
Scheduled(s) == {f \in s.fixtures : f.gw # Null}

FixtureOf(s, h) == CHOOSE f \in Scheduled(s) : f.id = h.fixture

PositionOf(s, p) ==
  IF \E x \in s.players : x.id = p THEN (CHOOSE x \in s.players : x.id = p).position ELSE Null

(* Mutant: the club of the players table. *)
TeamOfRecord(s, h) ==
  CHOOSE t \in {x.team : x \in s.players} :
    (\E x \in s.players : x.id = h.player) => \E x \in s.players : x.id = h.player /\ x.team = t

(* The fixture says whom a player played for; the players table may lag. *)
TeamOf(s, h) == IF h.home THEN FixtureOf(s, h).home ELSE FixtureOf(s, h).away

PlayerFixtures(s) ==
  {[player |-> h.player, gw |-> h.gw, fixture |-> h.fixture, home |-> h.home, minutes |-> h.minutes,
    price |-> h.price, position |-> PositionOf(s, h.player), team |-> TeamOf(s, h)] : h \in s.histories}

JoinsFail(s) ==
  \/ FansOut(s.fixtures, "home", s.teams, "id") \/ FansOut(s.fixtures, "away", s.teams, "id")
  \/ ~Unique(Scheduled(s), {"id"})
  \/ FansOut(s.histories, "player", s.players, "id")
  \/ \E h \in s.histories : ~\E f \in Scheduled(s) : f.id = h.fixture
  \/ ~Unique(s.histories, {"player", "gw", "fixture"})

Integrate ==
  /\ stage = "intermediate"
  /\ LET fails == JoinsFail(source) IN
       /\ Advance(IF fails THEN "violation" ELSE "ok", "fct")
       /\ base' = IF fails THEN base ELSE PlayerFixtures(source)
  /\ UNCHANGED <<source, cutoff, spine, table>>

--------------------------------------------------------------------------------
(* Fct: the spine of players and gameweeks *)

PlayersIn(b) == {r.player : r \in b}
GwsIn(b) == {r.gw : r \in b}
GwRange(b) == Min(GwsIn(b))..Max(GwsIn(b))
Games(b, p, g) == {r \in b : r.player = p /\ r.gw = g}

(* Mutant: the club of the player's last game of all. *)
LatestKnown(b, p, g) ==
  LET of == {r \in b : r.player = p} IN CHOOSE r \in of : \A q \in of : q.gw <= r.gw

(* A blank row takes club and price from the last game before it, or from   *)
(* the first one after it.                                                  *)
Known(b, p, g) ==
  LET before == {r \in b : r.player = p /\ r.gw <= g}
      after == {r \in b : r.player = p /\ r.gw >= g} IN
    IF before # {} THEN CHOOSE r \in before : \A q \in before : q.gw <= r.gw
                   ELSE CHOOSE r \in after : \A q \in after : r.gw <= q.gw

(* Mutant: a double gameweek counts its average. *)
MinutesAveraged(games) == SumFunctionOnSet([r \in games |-> r.minutes], games) \div Cardinality(games)

Minutes(games) == SumFunctionOnSet([r \in games |-> r.minutes], games)

(* The gameweek context is joined onto every row, blank ones included. *)
EventOf(events, g) == CHOOSE e \in events : e.gw = g

SpineRow(events, b, p, g) ==
  LET games == Games(b, p, g)
      known == Known(b, p, g) IN
    [blank |-> games = {},
     double |-> Cardinality(games) >= 2,
     minutes |-> IF games = {} THEN Null ELSE Minutes(games),
     home |-> IF Cardinality(games) = 1 THEN known.home ELSE Null,
     homeGames |-> Cardinality({r \in games : r.home}),
     team |-> known.team, price |-> known.price, position |-> known.position,
     status |-> EventOf(events, g).status]

Spine(events, b) == [k \in PlayersIn(b) \X GwRange(b) |-> SpineRow(events, b, k[1], k[2])]

(* _assert_invariant_per_gw_columns(), for the columns that can vary. *)
Invariant(b) ==
  \A x, y \in b : x.player = y.player /\ x.gw = y.gw => x.team = y.team /\ x.price = y.price

EventGws(s) == {e.gw : e \in s.events}
EventsFail(s) ==
  ~Unique(s.events, {"gw"}) \/ (s.events # {} /\ EventGws(s) # Min(EventGws(s))..Max(EventGws(s)))

(* In order: contract, empty frame, events missing, casts, contracts. *)
SpineOutcome(s, b) ==
  IF ~Invariant(b) \/ EventsFail(s) THEN "violation"
  ELSE IF b = {} THEN "error"
  ELSE IF ~(GwRange(b) \subseteq EventGws(s)) THEN "violation"
  ELSE IF \E r \in b : r.position = Null THEN "error"
  ELSE IF \E r \in b : Cardinality(Games(b, r.player, r.gw)) > 2 THEN "violation"
  ELSE "ok"

BuildSpine ==
  /\ stage = "fct"
  /\ LET outcome == SpineOutcome(source, base) IN
       /\ Advance(outcome, "feat")
       /\ spine' = IF outcome = "ok" THEN Spine(source.events, base) ELSE spine
  /\ UNCHANGED <<source, cutoff, base, table>>

--------------------------------------------------------------------------------
(* Feat: rolling windows over each player's rows *)

Observed(sp, p, gws) == {g \in gws : <<p, g>> \in DOMAIN sp /\ sp[<<p, g>>].minutes # Null}

MeanOver(sp, p, gws) ==
  LET o == Observed(sp, p, gws) IN <<SumFunctionOnSet([g \in o |-> sp[<<p, g>>].minutes], o), Cardinality(o)>>

(* Mutant: the window is not lagged. *)
RollUnlagged(sp, p, g, n) == MeanOver(sp, p, (g - n + 1)..g)

Roll(sp, p, g, n) == MeanOver(sp, p, (g - n)..(g - 1))

(* The two windows share gameweek g - Trend; either with a blank is no trend. *)
MinutesTrend(sp, p, g) ==
  LET last == MeanOver(sp, p, (g - Trend)..(g - 1))
      prior == MeanOver(sp, p, (g - 2 * Trend + 1)..(g - Trend))
      diff == last[1] - prior[1] IN
    IF last[2] < Trend \/ prior[2] < Trend THEN Null
    ELSE IF diff > Trend * Swing THEN "rising"
    ELSE IF diff < -(Trend * Swing) THEN "falling" ELSE "stable"

FirstGw(sp) == Min({k[2] : k \in DOMAIN sp})

Features(sp) ==
  [k \in DOMAIN sp |->
    [row |-> sp[k],
     rolls |-> [n \in Windows |-> Roll(sp, k[1], k[2], n)],
     trend |-> MinutesTrend(sp, k[1], k[2]),
     context |-> IF sp[k].blank THEN "BGW" ELSE IF sp[k].double THEN "DGW" ELSE "SGW",
     warmup |-> k[2] = FirstGw(sp)]]

--------------------------------------------------------------------------------
(* Mart: the cutoff and the serving contract *)

CutAt(fs, c) == Restrict(fs, {k \in DOMAIN fs : k[2] <= c})

DefaultCutoff(sp) == Max({k[2] : k \in DOMAIN sp})

Governed(m) == \A k \in DOMAIN m : m[k].row.position \in 1..4

BuildMart ==
  /\ stage = "feat"
  /\ LET c == IF cutoff = Null THEN DefaultCutoff(spine) ELSE cutoff
         m == CutAt(Features(spine), c)
         outcome == IF c <= 0 THEN "error" ELSE IF Governed(m) THEN "ok" ELSE "violation" IN
       /\ Advance(outcome, "done")
       /\ table' = IF outcome = "ok" THEN m ELSE table
  /\ UNCHANGED <<source, cutoff, base, spine>>

BuildNext == Stage \/ Integrate \/ BuildSpine \/ BuildMart

BuildSpec == BuildInit /\ [][BuildNext]_buildVars

--------------------------------------------------------------------------------
(* What the league can do to the tables: a postponed fixture leaves a blank *)
(* and a double, a player joins late or changes club between gameweeks.     *)
Regular(s) ==
  /\ Unique(s.teams, {"id"}) /\ Unique(s.players, {"id"}) /\ Unique(s.fixtures, {"id"})
  /\ Unique(s.histories, {"player", "fixture"})
  /\ \A f \in s.fixtures : {f.home, f.away} \subseteq {t.id : t \in s.teams}
  /\ s.histories # {}
  /\ \A h \in s.histories :
       /\ h.minutes # Null /\ h.gw > 0
       /\ \E x \in s.players : x.id = h.player /\ x.position \in 1..4
       /\ \E f \in s.fixtures : f.id = h.fixture /\ f.gw = h.gw
       /\ \E e \in s.events : e.gw = h.gw
  /\ \A h, i \in s.histories :
       i.player = h.player /\ i.gw = h.gw => TeamOf(s, i) = TeamOf(s, h) /\ i.price = h.price
  /\ \A t \in {x.id : x \in s.teams}, g \in EventGws(s) :
       Cardinality({f \in s.fixtures : f.gw = g /\ t \in {f.home, f.away}}) <= 2
  /\ \A e, d \in s.events : \A g \in e.gw..d.gw : \E x \in s.events : x.gw = g
  /\ Unique(s.events, {"gw"})

(* What reaches the mart is what was played: a regular database is not      *)
(* refused, players and gameweeks are crossed without a gap, and the        *)
(* minutes of every history row up to the cutoff arrive exactly once,       *)
(* through every join, aggregation and blank row                            *)
(* (fct_player_gameweek.py:3-5, joins.py:1).                                *)
MinutesConserved ==
  /\ Regular(source) /\ (cutoff = Null \/ cutoff > 0) => stage \notin {"violation", "error"}
  /\ stage = "done" =>
       /\ DOMAIN spine = PlayersIn(base) \X GwRange(base)
       /\ \A p \in {h.player : h \in source.histories} :
            LET rows == {k \in DOMAIN table : k[1] = p /\ ~table[k].row.blank}
                c == IF cutoff = Null THEN DefaultCutoff(spine) ELSE cutoff
                played == {h \in source.histories : h.player = p /\ h.gw <= c} IN
              SumFunctionOnSet([k \in rows |-> table[k].row.minutes], rows)
                = SumFunctionOnSet([h \in played |-> h.minutes], played)

(* A player's club changes from one row to the next only where he plays for *)
(* the new one, and a row before his first game shows that game's club      *)
(* (fct_player_gameweek.py:83-89, :137-139).                                *)
ClubChangesByPlaying ==
  stage = "done" =>
    \A k \in DOMAIN table :
      LET played == {h \in source.histories : h.player = k[1] /\ h.gw <= k[2]}
          yet == {h \in source.histories : h.player = k[1]}
          clubs(hs) == {IF h.home THEN FixtureOf(source, h).home ELSE FixtureOf(source, h).away : h \in hs} IN
        IF played # {} THEN {table[k].row.team} = clubs({h \in played : \A i \in played : i.gw <= h.gw})
                       ELSE {table[k].row.team} = clubs({h \in yet : \A i \in yet : h.gw <= i.gw})

(* No lagged feature of a gameweek depends on what was played in it or      *)
(* after it (downstream-dependency-governance.md:58).                       *)
Blinded(s, g) == [s EXCEPT !.histories = {IF h.gw < g THEN h ELSE [h EXCEPT !.minutes = 0] : h \in @}]
NoLookAhead ==
  stage = "done" =>
    \A g \in {k[2] : k \in DOMAIN table} :
      LET blind == Spine(source.events, PlayerFixtures(Blinded(source, g))) IN
        \A p \in PlayersIn(base) :
          /\ \A n \in Windows : Roll(blind, p, g, n) = table[<<p, g>>].rolls[n]
          /\ MinutesTrend(blind, p, g) = table[<<p, g>>].trend

(* A mart cut at a gameweek is the mart that was built when that gameweek   *)
(* was the last one played, for everyone who had played by then, in every   *)
(* column but one: the status of a gameweek is that of the day the mart is  *)
(* built, so a replay that filtered on it would read the future             *)
(* (dal/README.md:61, fct_player_gameweek.py:281). Players and fixtures are *)
(* taken as the tables have them now.                                       *)
AsOf(s, c) ==
  [s EXCEPT !.histories = {h \in @ : h.gw <= c},
            !.events = {[e EXCEPT !.status = StatusOn(c, e.gw)] : e \in @}]
Redated(x, status) == [x EXCEPT !.row.status = status]
CutIsHistory ==
  stage = "done" =>
    \A c \in GwsIn(base) :
      LET then == AsOf(source, c)
          rows == Features(Spine(then.events, PlayerFixtures(then))) IN
        /\ SpineOutcome(then, PlayerFixtures(then)) = "ok"
        /\ \A k \in DOMAIN rows \cap DOMAIN table : rows[k] = Redated(table[k], StatusOn(c, k[2]))

================================================================================
