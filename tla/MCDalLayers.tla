------------------------------ MODULE MCDalLayers ------------------------------
(***************************************************************************)
(* Seasons of four gameweeks and three clubs, as the league can deliver    *)
(* them, and the same with one fault in one of the tables.                 *)
(***************************************************************************)
EXTENDS DalLayers, Sequences

MCTeams == {[id |-> t, row |-> 1] : t \in 1..3}

Fixture(id, g, h, a) == [id |-> id, gw |-> g, home |-> h, away |-> a]

(* Every club each week; a week without club 1; a postponement that leaves  *)
(* club 1 a blank and a double, and one not yet rescheduled.                *)
Schedules ==
  {{Fixture(1, 1, 1, 2), Fixture(2, 2, 2, 1), Fixture(3, 2, 3, 2), Fixture(4, 3, 1, 3), Fixture(5, 4, 3, 1), Fixture(6, 4, 2, 3)},
   {Fixture(1, 1, 1, 2), Fixture(2, 2, 3, 2), Fixture(3, 3, 1, 3), Fixture(4, 3, 2, 1), Fixture(5, 4, 1, 2)},
   {Fixture(1, 1, 1, 3), Fixture(2, 2, 2, 1), Fixture(3, 3, 2, 3), Fixture(4, 4, 1, 2), Fixture(5, 4, 3, 1), Fixture(6, Null, 2, 1)}}

(* Whom a player plays for in each gameweek, 0 for nobody. *)
Careers == {<<1, 1, 1, 1>>, <<1, 1, 2, 2>>, <<0, 2, 2, 2>>, <<0, 0, 1, 1>>, <<3, 3, 0, 0>>}

MinutesPlayed == {[f \in 1..6 |-> 90], [f \in 1..6 |-> 15 * f], [f \in 1..6 |-> IF f < 3 THEN 90 ELSE 1]}

Rows(schedule, p, career, minutes) ==
  {[player |-> p, fixture |-> f.id, gw |-> f.gw, home |-> f.home = career[f.gw],
    minutes |-> minutes[f.id], price |-> 40 + f.gw] :
     f \in {e \in schedule : e.gw # Null /\ career[e.gw] \in {e.home, e.away}}}

(* The flags of the events table: bootstrap-static sets them as the season  *)
(* moves on.                                                                *)
MCStatusOn(c, g) ==
  CASE g < c - 1 -> "finished"
    [] g = c - 1 -> "previous"
    [] g = c     -> "live"
    [] g = c + 1 -> "next"
    [] OTHER     -> "later"

Season(schedule, one, two, minutes) ==
  [teams |-> MCTeams,
   players |-> {[id |-> 1, position |-> 2, team |-> one[4]], [id |-> 2, position |-> 4, team |-> two[4]]},
   fixtures |-> schedule,
   events |-> {[gw |-> g, row |-> 1, status |-> MCStatusOn(4, g)] : g \in 1..4},
   histories |-> Rows(schedule, 1, one, minutes) \cup Rows(schedule, 2, two, minutes)]

Seasons ==
  {Season(s, one, two, m) : s \in Schedules, one \in Careers, two \in Careers, m \in MinutesPlayed}

(* One fault. *)
History(p, f, g) == [player |-> p, fixture |-> f, gw |-> g, home |-> TRUE, minutes |-> 7, price |-> 40 + g]

Faulty(s) ==
  {[s EXCEPT !.teams = @ \cup {[id |-> 1, row |-> 2]}],
   [s EXCEPT !.players = @ \cup {[id |-> 2, position |-> 4, team |-> 3]}],
   [s EXCEPT !.players = {x \in @ : x.id = 1}],
   [s EXCEPT !.players = {[x EXCEPT !.position = 5] : x \in @}],
   [s EXCEPT !.fixtures = {f \in @ : f.id # 2}],
   [s EXCEPT !.fixtures = @ \cup {Fixture(1, 2, 3, 2)}],
   [s EXCEPT !.fixtures = {IF f.id = 4 THEN [f EXCEPT !.gw = Null] ELSE f : f \in @}],
   [s EXCEPT !.events = {e \in @ : e.gw # 3}],
   [s EXCEPT !.events = {e \in @ : e.gw # 4}],
   [s EXCEPT !.events = @ \cup {[gw |-> 2, row |-> 2, status |-> "next"]}],
   [s EXCEPT !.histories = @ \cup {History(1, 1, 1)}],
   [s EXCEPT !.histories = @ \cup {History(1, 1, 4), History(1, 2, 4)}],
   [s EXCEPT !.histories = @ \cup {[History(2, 3, 3) EXCEPT !.minutes = Null]}],
   [s EXCEPT !.histories = {IF h.fixture = 4 THEN [h EXCEPT !.home = ~@] ELSE h : h \in @}],
   [s EXCEPT !.histories = {IF h.fixture = 4 THEN [h EXCEPT !.price = 99] ELSE h : h \in @}],
   [s EXCEPT !.histories = {}]}

MCSources == Seasons \cup UNION {Faulty(s) : s \in Seasons}
================================================================================
