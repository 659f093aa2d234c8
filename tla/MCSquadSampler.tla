---------------------------- MODULE MCSquadSampler ----------------------------
(***************************************************************************)
(* Two gameweeks, one keeper and two of three defenders. The last defender *)
(* may register late or never; prices and clubs move between the weeks.    *)
(***************************************************************************)
EXTENDS SquadSampler

MCPlayers == 1..4
MCPosition == [x \in 1..4 |-> IF x = 1 THEN "GK" ELSE "DEF"]
MCOrder == <<"GK", "DEF">>
MCQuota == [p \in {"GK", "DEF"} |-> IF p = "GK" THEN 1 ELSE 2]
MCWeeks == {2, 3}

ByWeek(second, third) == [w \in {2, 3} |-> IF w = 2 THEN second ELSE third]

Entries == {<<1, 1, 1, 1>>, <<1, 1, 1, 3>>, <<1, 1, 2, 4>>, <<1, 1, 3, 3>>}

MCFrames ==
  {[entry |-> e, price |-> p, club |-> c, owned |-> o] :
     e \in Entries,
     p \in {ByWeek(<<1, 2, 1, 1>>, <<1, 1, 1, 3>>), ByWeek(<<2, 1, 3, 1>>, <<1, 1, 1, 1>>)},
     c \in {ByWeek(<<1, 1, 2, 1>>, <<1, 2, 1, 1>>)},
     o \in {ByWeek({1, 2, 3}, {1, 2, 4}), ByWeek({1, 2, 3, 4}, {1, 4})}}
===============================================================================
