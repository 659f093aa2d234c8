----------------------------- MODULE MCSquadWeek -----------------------------
(***************************************************************************)
(* Squad-weeks of an FPL squad, in five families: every pattern of blanks  *)
(* in every formation; bookings of players without minutes; scores with    *)
(* ties, unranked and idle players; as-of values with ties; and scores     *)
(* that foresee the points.                                                *)
(***************************************************************************)
EXTENDS SquadWeek, MCFormations

Level == [x \in Squad |-> 0]
Outfielders == Positions \ {"GK"}

Case(s, idle, played, p, a) == [score |-> s, noFixture |-> idle, featured |-> played, points |-> p, asof |-> a]

(* One outfield position scores badly; without minutes nobody scores. *)
Outcomes(t) ==
  {[x \in Squad |-> IF x \notin t[2] THEN 0 ELSE IF PositionOf[x] = bad THEN -1 ELSE 2] : bad \in Outfielders}

(* Every formation without points; with points, those with fewest defenders *)
(* and with fewest forwards.                                                *)
TightFormations == {f \in LegalFormations : <<f["DEF"], f["FWD"]>> \in {<<3, 3>>, <<5, 1>>}}

Blanks ==
  LET Worth(t) == [x \in Squad |-> IF x \in t[1] THEN 2 ELSE 1]
  IN  {Case(Worth(t), {}, t[2], Level, Level) : t \in Teams(LegalFormations)}
      \cup UNION {{Case(Worth(t), {}, t[2], p, Level) : p \in Outcomes(t)} :
                  t \in {u \in Teams(TightFormations) : At(u[1], "GK") \subseteq u[2]}}

(* Everyone without minutes was booked. *)
Booked ==
  {Case(Level, {}, 3..9 \cup subs, [x \in Squad |-> IF x \in 3..9 \cup subs THEN 0 ELSE -1], Level) :
     subs \in {{}, {1}, {14}, {1, 14, 15}, 1..2}}

(* Values per position: level, or falling from the first or from the last. *)
Shapes == {"level", "falling", "rising"}
Values(base, shape) ==
  [x \in Squad |-> LET p == PositionOf[x]
                   IN  base[p] + CASE shape[p] = "falling" -> -Nth[x] [] shape[p] = "rising" -> Nth[x] [] OTHER -> 0]

Clubs == {{}, {1, 3, 8}, {3, 4, 5, 9}, {8, 9, 10, 11, 12}}
Gaps == {{}, {1, 4, 13}, {14, 15}}
Uniform == {[p \in Positions |-> s] : s \in Shapes}
Bases(keeper, values) == {[p \in Positions |-> IF p = "GK" THEN keeper ELSE b[p]] : b \in [Outfielders -> values]}

Scored ==
  {Case([x \in Squad |-> IF x \in gap THEN Unranked ELSE Values(base, shape)[x]], idle, Squad \ idle, Level, Level) :
     gap \in Gaps, idle \in Clubs, base \in Bases(0, {0, 2}), shape \in Uniform}

AsOf ==
  {Case(Level, {}, Squad, Level, Values(base, shape)) :
     base \in Bases(0, {0, 1, 3}), shape \in {[p \in Positions |-> IF p = "GK" THEN "level" ELSE s[p]] :
                                          s \in [Outfielders -> {"level", "falling"}]}}

Foreseen ==
  {Case(p, {}, played, p, Level) :
     <<played, p>> \in
       UNION {{<<g, [x \in Squad |-> IF x \in g THEN 3 + Values(base, shape)[x] ELSE 0]>> :
                 base \in Bases(2, {2, 4}), shape \in Uniform} :
              g \in {Squad, Squad \ {1}, Squad \ {3, 8, 13}, 1..9, Squad \ {1, 2, 13, 14}, Squad \ {4, 5, 6, 12}}}}

MCCases == Blanks \cup Booked \cup Scored \cup AsOf \cup Foreseen

MCWeight == [p \in {"DEF", "MID", "FWD"} |-> CASE p = "DEF" -> 100 [] p = "MID" -> 105 [] OTHER -> 110]
==============================================================================
