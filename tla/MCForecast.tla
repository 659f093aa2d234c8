------------------------------- MODULE MCForecast -------------------------------
(***************************************************************************)
(* Two clubs of a keeper and a forward, four gameweeks of which one is     *)
(* warm-up.  The minimum sizes are those of two full gameweeks.            *)
(***************************************************************************)
EXTENDS Forecast

Keepers == {1, 3}
MCClub == [p \in Players |-> IF p <= 2 THEN "north" ELSE "south"]
MCPosition == [p \in Players |-> IF p \in Keepers THEN "GK" ELSE "FWD"]

MCMinTrain == [goals |-> 2, assists |-> 4, saves |-> 2]

(* Everybody; a forward and a keeper rested; a keeper without a fixture, so *)
(* that he may join late; a club's blank; a club's double.                  *)
MCWeeks ==
  {<<"played", "played", "played", "played">>,
   <<"played", "bench", "played", "played">>,
   <<"bench", "played", "played", "played">>,
   <<"played", "played", "none", "played">>,
   <<"none", "none", "played", "played">>,
   <<"played", "played", "double", "double">>}
================================================================================
