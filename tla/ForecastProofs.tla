----------------------------- MODULE ForecastProofs -----------------------------
(***************************************************************************)
(* A longer mart changes no forecast of a gameweek it already had, for     *)
(* every season, every set of players and all minimum sizes: each operator *)
(* of Forecast is followed from the rows it reads, which end before the    *)
(* row it scores, up to the panel.                                         *)
(***************************************************************************)
EXTENDS Forecast, FiniteSetTheorems, WellFoundedInduction, TLAPS

(* Two marts hold the same before gameweek t. *)
Agree(n, m, t) ==
  /\ m \in Seq(Weeks) /\ n \in Seq(Weeks) /\ t \in Nat
  /\ t <= Len(m) + 1 /\ t <= Len(n) + 1
  /\ \A i \in 1..(t - 1) : n[i] = m[i]

Before(m, t) == Earlier(Rows(m), t)

LEMMA AgreeEarlier ==
  ASSUME NEW m, NEW n, NEW t, Agree(n, m, t), NEW u \in Nat, u <= t
  PROVE  Agree(n, m, u)
<1>1. Len(m) \in Nat /\ Len(n) \in Nat
  BY DEF Agree
<1> QED
  BY <1>1 DEF Agree

(* Their rows before t are the same, and hold the same. *)
LEMMA SharedRows ==
  ASSUME NEW m, NEW n, NEW t, Agree(n, m, t)
  PROVE  /\ DOMAIN m = 1..Len(m) /\ DOMAIN n = 1..Len(n) /\ Len(m) \in Nat /\ t \in Nat
         /\ Before(n, t) = Before(m, t)
         /\ \A q \in Before(m, t) : q[2] \in Nat /\ q[2] < t /\ Status(n, q) = Status(m, q)
<1>1. /\ DOMAIN m = 1..Len(m) /\ DOMAIN n = 1..Len(n) /\ Len(m) \in Nat /\ Len(n) \in Nat /\ t \in Nat
  BY DEF Agree
<1>2. \A q : q \in Before(n, t) <=> q \in Players \X (1..(t - 1))
  BY <1>1 DEF Agree, Before, Earlier, Rows
<1>3. \A q : q \in Before(m, t) <=> q \in Players \X (1..(t - 1))
  BY <1>1 DEF Agree, Before, Earlier, Rows
<1>4. Before(n, t) = Before(m, t)
  <2>1. \A q : q \in Before(n, t) <=> q \in Before(m, t)
    BY <1>2, <1>3
  <2> QED
    BY <2>1 DEF Before, Earlier
<1>5. \A q \in Before(m, t) : q[2] \in Nat /\ q[2] < t /\ Status(n, q) = Status(m, q)
  BY <1>1, <1>3 DEF Agree, Status
<1> QED
  BY <1>1, <1>4, <1>5

(* So are the universes. *)
LEMMA SharedUniverses ==
  ASSUME NEW m, NEW n, NEW t, Agree(n, m, t)
  PROVE  /\ Earlier(Fixtured(n), t) = Earlier(Fixtured(m), t)
         /\ Earlier(Appeared(n), t) = Earlier(Appeared(m), t)
         /\ Earlier(Fixtured(m), t) \subseteq Before(m, t)
         /\ Earlier(Appeared(m), t) \subseteq Before(m, t)
<1>1. \A x : Earlier(Fixtured(x), t) = {q \in Before(x, t) : Status(x, q) \in {"bench", "played"}}
  BY DEF Before, Earlier, Fixtured
<1>2. \A x : Earlier(Appeared(x), t) = {q \in Before(x, t) : Status(x, q) = "played"}
  BY DEF Before, Earlier, Appeared
<1>3. Before(n, t) = Before(m, t) /\ \A q \in Before(m, t) : Status(n, q) = Status(m, q)
  BY SharedRows
<1>4. Earlier(Fixtured(n), t) = Earlier(Fixtured(m), t) /\ Earlier(Appeared(n), t) = Earlier(Appeared(m), t)
  BY <1>1, <1>2, <1>3
<1>5. /\ Earlier(Fixtured(m), t) \subseteq Before(m, t)
      /\ Earlier(Appeared(m), t) \subseteq Before(m, t)
  BY <1>1, <1>2
<1> QED
  BY <1>4, <1>5

LEMMA SharedPopulation ==
  ASSUME NEW m, NEW n, NEW t, Agree(n, m, t), NEW keepAll \in BOOLEAN
  PROVE  /\ Earlier(Population(n, keepAll), t) = Earlier(Population(m, keepAll), t)
         /\ Earlier(Population(m, keepAll), t) \subseteq Before(m, t)
BY SharedUniverses DEF Population

(* A window reads earlier rows only. *)
LEMMA WindowsReadEarlier ==
  ASSUME NEW A, NEW B, NEW r, Earlier(A, r[2]) = Earlier(B, r[2])
  PROVE  Rolled(A, r) = Rolled(B, r) /\ Rolled(A, r) \subseteq Earlier(A, r[2])
<1>1. {q \in A : q[1] = r[1] /\ q[2] < r[2]} = {q \in B : q[1] = r[1] /\ q[2] < r[2]}
  BY DEF Earlier
<1> QED
  BY <1>1 DEF Rolled, Earlier

LEMMA SharedWindows ==
  ASSUME NEW m, NEW n, NEW r, Agree(n, m, r[2]), NEW keepAll \in BOOLEAN
  PROVE  /\ Rolled(Population(n, keepAll), r) = Rolled(Population(m, keepAll), r)
         /\ Rolled(Population(m, keepAll), r) \subseteq Before(m, r[2])
         /\ MartRolled(n, r) = MartRolled(m, r)
         /\ MartRolled(m, r) \subseteq Before(m, r[2])
<1>1. /\ Earlier(Population(n, keepAll), r[2]) = Earlier(Population(m, keepAll), r[2])
      /\ Earlier(Population(m, keepAll), r[2]) \subseteq Before(m, r[2])
  BY SharedPopulation
<1>2. /\ Rolled(Population(n, keepAll), r) = Rolled(Population(m, keepAll), r)
      /\ Rolled(Population(m, keepAll), r) \subseteq Before(m, r[2])
  BY <1>1, WindowsReadEarlier
<1>3. \A x : MartRolled(x, r) = {q \in Before(x, r[2]) : q[1] = r[1] /\ r[2] - Window <= q[2] /\ Status(x, q) # "none"}
  BY DEF MartRolled, Before, Earlier
<1>4. /\ Before(n, r[2]) = Before(m, r[2])
      /\ \A q \in Before(m, r[2]) : Status(n, q) = Status(m, q)
  BY SharedRows
<1>5. MartRolled(n, r) = MartRolled(m, r) /\ MartRolled(m, r) \subseteq Before(m, r[2])
  BY <1>3, <1>4
<1> QED
  BY <1>2, <1>5

LEMMA SharedSight ==
  ASSUME NEW m, NEW n, NEW t, Agree(n, m, t), NEW rows \in SUBSET Before(m, t)
  PROVE  Seen(n, rows) = Seen(m, rows)
BY SharedRows DEF Seen

LEMMA SharedFeatures ==
  ASSUME NEW m, NEW n, NEW r, Agree(n, m, r[2]), NEW keepAll \in BOOLEAN, NEW term
  PROVE  /\ Features(n, keepAll, term, r) = Features(m, keepAll, term, r)
         /\ Complete(n, keepAll, term, r) <=> Complete(m, keepAll, term, r)
<1>0. /\ Rolled(Population(n, keepAll), r) = Rolled(Population(m, keepAll), r)
      /\ Rolled(Population(m, keepAll), r) \in SUBSET Before(m, r[2])
      /\ MartRolled(n, r) = MartRolled(m, r)
      /\ MartRolled(m, r) \in SUBSET Before(m, r[2])
  BY SharedWindows
<1>1. Seen(n, MartRolled(m, r)) = Seen(m, MartRolled(m, r))
  BY <1>0, SharedSight
<1>2. Seen(n, Rolled(Population(m, keepAll), r)) = Seen(m, Rolled(Population(m, keepAll), r))
  BY <1>0, SharedSight
<1>3. Features(n, keepAll, term, r) = Features(m, keepAll, term, r)
  BY <1>0, <1>1, <1>2 DEF Features
<1> QED
  BY <1>3 DEF Complete

(* A fit on earlier rows. *)
LEMMA SharedFit ==
  ASSUME NEW m, NEW n, NEW r, Agree(n, m, r[2]), NEW keepAll \in BOOLEAN, NEW term,
         NEW train \in SUBSET Before(m, r[2]), NEW least
  PROVE  Fit(n, keepAll, term, train, least, r) = Fit(m, keepAll, term, train, least, r)
<1>1. \A q \in train :
        /\ Status(n, q) = Status(m, q)
        /\ Features(n, keepAll, term, q) = Features(m, keepAll, term, q)
        /\ Complete(n, keepAll, term, q) <=> Complete(m, keepAll, term, q)
  <2> TAKE q \in train
  <2>1. q[2] \in Nat /\ q[2] < r[2] /\ r[2] \in Nat /\ Status(n, q) = Status(m, q)
    BY SharedRows
  <2>2. Agree(n, m, q[2])
    BY <2>1, AgreeEarlier
  <2> QED
    BY <2>1, <2>2, SharedFeatures
<1>2. {q \in train : Complete(n, keepAll, term, q)} = {q \in train : Complete(m, keepAll, term, q)}
  BY <1>1
<1> DEFINE complete == {q \in train : Complete(m, keepAll, term, q)}
           FromRows(x) == {<<q, Status(x, q), Features(x, keepAll, term, q)>> : q \in complete}
<1>3. FromRows(n) = FromRows(m)
  BY <1>1
<1>4. Features(n, keepAll, term, r) = Features(m, keepAll, term, r)
  BY SharedFeatures
<1>5. Complete(n, keepAll, term, r) <=> Complete(m, keepAll, term, r)
  BY SharedFeatures
<1> QED
  BY <1>2, <1>3, <1>4, <1>5 DEF Fit

LEMMA SharedTerms ==
  ASSUME NEW m, NEW n, NEW r, Agree(n, m, r[2]), NEW keepAll \in BOOLEAN, NEW term
  PROVE  /\ Poisson(n, keepAll, term, r) = Poisson(m, keepAll, term, r)
         /\ Logit(n, keepAll, term, r) = Logit(m, keepAll, term, r)
<1>1. /\ Earlier(Fixtured(n), r[2]) = Earlier(Fixtured(m), r[2])
      /\ Earlier(Appeared(n), r[2]) = Earlier(Appeared(m), r[2])
      /\ Earlier(Fixtured(m), r[2]) \subseteq Before(m, r[2])
      /\ Earlier(Appeared(m), r[2]) \subseteq Before(m, r[2])
  BY SharedUniverses
<1>2. Poisson(n, keepAll, term, r) = Poisson(m, keepAll, term, r)
  <2> DEFINE train == {q \in Earlier(Appeared(m), r[2]) : Position[q[1]] \in FitPositions(term)}
  <2>1. train \in SUBSET Before(m, r[2])
    BY <1>1
  <2>2. Fit(n, keepAll, term, train, MinFit, r) = Fit(m, keepAll, term, train, MinFit, r)
    BY <2>1, SharedFit
  <2> QED
    BY <1>1, <2>2 DEF Poisson
<1>3. Logit(n, keepAll, term, r) = Logit(m, keepAll, term, r)
  <2> DEFINE rows(x) == IF term = "p_play" THEN Fixtured(x) ELSE Appeared(x)
             train == {q \in Earlier(rows(m), r[2]) : Position[q[1]] = Position[r[1]]}
  <2>1. Earlier(rows(n), r[2]) = Earlier(rows(m), r[2]) /\ train \in SUBSET Before(m, r[2])
    BY <1>1
  <2>2. Fit(n, keepAll, term, train, MinCell, r) = Fit(m, keepAll, term, train, MinCell, r)
    BY <2>1, SharedFit
  <2> QED
    BY <2>1, <2>2 DEF Logit
<1> QED
  BY <1>2, <1>3

(* A keeper without a row of his own to read. *)
Debut(m, keepAll, r) ==
  Position[r[1]] = "GK" /\ {q \in Population(m, keepAll) : q[1] = r[1] /\ q[2] < r[2]} = {}

LEMMA SharedDebut ==
  ASSUME NEW m, NEW n, NEW r, Agree(n, m, r[2]), NEW keepAll \in BOOLEAN
  PROVE  Debut(n, keepAll, r) <=> Debut(m, keepAll, r)
<1>1. Earlier(Population(n, keepAll), r[2]) = Earlier(Population(m, keepAll), r[2])
  BY SharedPopulation
<1> QED
  BY <1>1 DEF Debut, Earlier

LEMMA SharedP60 ==
  ASSUME NEW m, NEW n, NEW r, Agree(n, m, r[2]), NEW keepAll \in BOOLEAN, ~Debut(m, keepAll, r)
  PROVE  P60(n, keepAll, r) = P60(m, keepAll, r)
<1>1. CASE Position[r[1]] # "GK"
  BY <1>1, SharedTerms DEF P60
<1>2. CASE Position[r[1]] = "GK"
  <2> DEFINE own(x) == {q \in {y \in Population(x, keepAll) : Position[y[1]] = "GK"} :
                          q[1] = r[1] /\ q[2] < r[2]}
  <2>1. /\ Earlier(Population(n, keepAll), r[2]) = Earlier(Population(m, keepAll), r[2])
        /\ Earlier(Population(m, keepAll), r[2]) \subseteq Before(m, r[2])
    BY SharedPopulation
  <2>2. own(n) = own(m) /\ own(m) \in SUBSET Before(m, r[2])
    BY <2>1 DEF Earlier
  <2>3. own(m) # {}
    BY <1>2 DEF Debut
  <2>4. Seen(n, own(m)) = Seen(m, own(m))
    BY <2>2, SharedSight
  <2>5. KeeperRate(n, keepAll, r) = {[keeper |-> Seen(n, own(n))]}
    BY <2>2, <2>3 DEF KeeperRate
  <2>6. KeeperRate(m, keepAll, r) = {[keeper |-> Seen(m, own(m))]}
    BY <2>3 DEF KeeperRate
  <2> QED
    BY <1>2, <2>2, <2>4, <2>5, <2>6 DEF P60
<1> QED
  BY <1>1, <1>2

(* The team grain: a side's past is its own earlier sheets. *)
LEMMA SharedSides ==
  ASSUME NEW m, NEW n, NEW t, Agree(n, m, t)
  PROVE  /\ Earlier(Sides(n), t) = Earlier(Sides(m), t)
         /\ \A s \in Earlier(Sides(m), t) : s[2] \in Nat /\ s[2] < t
<1>1. Earlier(Appeared(n), t) = Earlier(Appeared(m), t)
  BY SharedUniverses
<1>2. \A x, u : u \in Earlier(Sides(x), t) <=> \E q \in Earlier(Appeared(x), t) : u = <<Club[q[1]], q[2]>>
  BY DEF Sides, Earlier
<1>3. Earlier(Sides(n), t) = Earlier(Sides(m), t)
  <2>1. \A u : u \in Earlier(Sides(n), t) <=> u \in Earlier(Sides(m), t)
    BY <1>1, <1>2
  <2> QED
    BY <2>1 DEF Earlier
<1>4. \A q \in Earlier(Appeared(m), t) : q[2] \in Nat /\ q[2] < t
  BY SharedUniverses, SharedRows
<1> QED
  BY <1>2, <1>3, <1>4

LEMMA SharedSheet ==
  ASSUME NEW m, NEW n, NEW t, Agree(n, m, t), NEW s, s[2] < t
  PROVE  Sheet(n, s) = Sheet(m, s)
<1>1. Earlier(Appeared(n), t) = Earlier(Appeared(m), t)
  BY SharedUniverses
<1>2. {q \in Appeared(n) : Club[q[1]] = s[1] /\ q[2] = s[2]}
        = {q \in Appeared(m) : Club[q[1]] = s[1] /\ q[2] = s[2]}
  BY <1>1 DEF Earlier
<1> QED
  BY <1>2 DEF Sheet

LEMMA SharedPast ==
  ASSUME NEW m, NEW n, NEW s, Agree(n, m, s[2])
  PROVE  /\ Rolled(Sides(n), s) = Rolled(Sides(m), s)
         /\ Sheets(n, Rolled(Sides(m), s)) = Sheets(m, Rolled(Sides(m), s))
<1>1. Rolled(Sides(n), s) = Rolled(Sides(m), s) /\ Rolled(Sides(m), s) \subseteq Earlier(Sides(m), s[2])
  BY SharedSides, WindowsReadEarlier
<1>2. \A x \in Rolled(Sides(m), s) : Sheet(n, x) = Sheet(m, x)
  <2> TAKE x \in Rolled(Sides(m), s)
  <2>1. x[2] < s[2]
    BY <1>1, SharedSides
  <2> QED
    BY <2>1, SharedSheet
<1> QED
  BY <1>1, <1>2 DEF Sheets

LEMMA SharedTeamTerm ==
  ASSUME NEW m, NEW n, NEW s, Agree(n, m, s[2]), s \in Sides(n) <=> s \in Sides(m)
  PROVE  TeamGoalsAgainst(n, s) = TeamGoalsAgainst(m, s)
<1> DEFINE past(z, x) == Rolled(Sides(z), x)
           complete(z) == {x \in Earlier(Sides(z), s[2]) : past(z, x) # {}}
           FromSides(z) == {<<Sheet(z, x), Sheets(z, past(z, x))>> : x \in complete(m)}
<1>1. Earlier(Sides(n), s[2]) = Earlier(Sides(m), s[2])
  BY SharedSides
<1>2. \A x \in Earlier(Sides(m), s[2]) :
        /\ past(n, x) = past(m, x)
        /\ Sheet(n, x) = Sheet(m, x)
        /\ Sheets(n, past(n, x)) = Sheets(m, past(m, x))
  <2> TAKE x \in Earlier(Sides(m), s[2])
  <2>1. x[2] \in Nat /\ x[2] < s[2] /\ s[2] \in Nat
    BY SharedSides DEF Agree
  <2>2. Agree(n, m, x[2])
    BY <2>1, AgreeEarlier
  <2> QED
    BY <2>1, <2>2, SharedPast, SharedSheet
<1>3. complete(n) = complete(m)
  BY <1>1, <1>2
<1>4. FromSides(n) = FromSides(m)
  BY <1>2
<1>5. past(n, s) = past(m, s) /\ Sheets(n, past(n, s)) = Sheets(m, past(m, s))
  BY SharedPast
<1> QED
  BY <1>3, <1>4, <1>5 DEF TeamGoalsAgainst

(* Somebody of the row's club, and of its position, has been on. *)
ClubOn(m, r) == <<Club[r[1]], r[2]>> \in Sides(m)
PositionOn(m, r) == \E q \in Appeared(m) : Position[q[1]] = Position[r[1]] /\ q[2] = r[2]

LEMMA SharedBonus ==
  ASSUME NEW m, NEW n, NEW r, Agree(n, m, r[2]), PositionOn(n, r) <=> PositionOn(m, r)
  PROVE  Bonus(n, r) = Bonus(m, r)
<1> DEFINE cell(x) == {q \in Appeared(x) : Position[q[1]] = Position[r[1]]}
<1>1. /\ Earlier(Appeared(n), r[2]) = Earlier(Appeared(m), r[2])
      /\ Earlier(Appeared(m), r[2]) \subseteq Before(m, r[2])
  BY SharedUniverses
<1>2. Earlier(cell(n), r[2]) = Earlier(cell(m), r[2])
  BY <1>1 DEF Earlier
<1>3. Earlier(cell(m), r[2]) \in SUBSET Before(m, r[2])
  BY <1>1 DEF Earlier
<1>4. Seen(n, Earlier(cell(m), r[2])) = Seen(m, Earlier(cell(m), r[2]))
  BY <1>3, SharedSight
<1>5. (\E q \in cell(n) : q[2] = r[2]) <=> (\E q \in cell(m) : q[2] = r[2])
  BY DEF PositionOn
<1> QED
  BY <1>2, <1>4, <1>5 DEF Bonus

(* All that the panel carries of a row, but for the keeper's rate. *)
SameButRate(n, m, keepAll, r) ==
  /\ \A x \in {"goals", "assists", "saves", "team", "dc", "bonus"} :
       Views(n, keepAll, r)[x] = Views(m, keepAll, r)[x]
  /\ Logit(n, TRUE, "p_play", r) = Logit(m, TRUE, "p_play", r)

LEMMA SharedTermsOfLine ==
  ASSUME NEW m, NEW n, NEW r, Agree(n, m, r[2]), NEW keepAll \in BOOLEAN,
         ClubOn(n, r) <=> ClubOn(m, r), PositionOn(n, r) <=> PositionOn(m, r)
  PROVE  SameButRate(n, m, keepAll, r)
<1>1. Broadcast(n, r) = Broadcast(m, r)
  <2> DEFINE s == <<Club[r[1]], r[2]>>
  <2>1. Agree(n, m, s[2]) /\ (s \in Sides(n) <=> s \in Sides(m))
    BY DEF ClubOn
  <2> HIDE DEF s
  <2>2. TeamGoalsAgainst(n, s) = TeamGoalsAgainst(m, s)
    BY <2>1, SharedTeamTerm
  <2> QED
    BY <2>2 DEF Broadcast, s
<1>2. /\ Poisson(n, keepAll, "goals", r) = Poisson(m, keepAll, "goals", r)
      /\ Poisson(n, keepAll, "assists", r) = Poisson(m, keepAll, "assists", r)
      /\ Poisson(n, keepAll, "saves", r) = Poisson(m, keepAll, "saves", r)
      /\ Logit(n, keepAll, "dc", r) = Logit(m, keepAll, "dc", r)
  BY SharedTerms
<1>3. Bonus(n, r) = Bonus(m, r)
  BY SharedBonus
<1>4. \A x \in {"goals", "assists", "saves", "team", "dc", "bonus"} : Views(n, keepAll, r)[x] = Views(m, keepAll, r)[x]
  BY <1>1, <1>2, <1>3 DEF Views
<1>5. \A x \in BOOLEAN : Logit(n, x, "p_play", r) = Logit(m, x, "p_play", r)
  BY SharedTerms
<1>6. Logit(n, TRUE, "p_play", r) = Logit(m, TRUE, "p_play", r)
  BY <1>5, Zenon
<1> QED
  BY <1>4, <1>6 DEF SameButRate

LEMMA SharedLine ==
  ASSUME NEW m, NEW n, NEW r, Agree(n, m, r[2]), NEW keepAll \in BOOLEAN,
         ClubOn(n, r) <=> ClubOn(m, r), PositionOn(n, r) <=> PositionOn(m, r),
         ~Debut(m, keepAll, r)
  PROVE  Line(n, keepAll, r) = Line(m, keepAll, r)
<1>1. SameButRate(n, m, keepAll, r)
  BY SharedTermsOfLine
<1>2. Views(n, keepAll, r).p60 = Views(m, keepAll, r).p60
  BY SharedP60 DEF Views
<1>3. Views(n, keepAll, r) = Views(m, keepAll, r)
  BY <1>1, <1>2 DEF Views, SameButRate
<1> QED
  BY <1>1, <1>3 DEF Line, SameButRate

(* At a keeper's debut the rate is another, but it is there. *)
LEMMA SameGaps ==
  ASSUME NEW m, NEW n, NEW r, Agree(n, m, r[2]), NEW keepAll \in BOOLEAN,
         ClubOn(n, r) <=> ClubOn(m, r), PositionOn(n, r) <=> PositionOn(m, r)
  PROVE  /\ Line(n, keepAll, r).dist = NaN <=> Line(m, keepAll, r).dist = NaN
         /\ Line(n, keepAll, r).uncond = NaN <=> Line(m, keepAll, r).uncond = NaN
<1>1. SameButRate(n, m, keepAll, r)
  BY SharedTermsOfLine
<1>2. P60(n, keepAll, r) = NaN <=> P60(m, keepAll, r) = NaN
  <2>1. CASE Position[r[1]] = "GK"
    BY <2>1 DEF P60, KeeperRate, NaN
  <2>2. CASE Position[r[1]] # "GK"
    <3>1. ~Debut(m, keepAll, r)
      BY <2>2 DEF Debut
    <3> QED
      BY <3>1, SharedP60
  <2> QED
    BY <2>1, <2>2
<1>3. \A z : Views(z, keepAll, r).p60 = P60(z, keepAll, r)
  BY DEF Views
<1>4. \A x \in Required : Views(n, keepAll, r)[x] = NaN <=> Views(m, keepAll, r)[x] = NaN
  BY <1>1, <1>2, <1>3 DEF SameButRate, Required
<1>5. \A z : Line(z, keepAll, r).dist = NaN
               <=> r[2] <= Warmup \/ \E x \in Required : Views(z, keepAll, r)[x] = NaN
  BY DEF Line, NaN
<1>6. \A z : Line(z, keepAll, r).uncond = NaN <=> ~keepAll \/ Logit(z, TRUE, "p_play", r) = NaN
  BY DEF Line, NaN
<1>7. Line(n, keepAll, r).dist = NaN <=> Line(m, keepAll, r).dist = NaN
  BY <1>4, <1>5
<1>8. Line(n, keepAll, r).uncond = NaN <=> Line(m, keepAll, r).uncond = NaN
  BY <1>1, <1>6 DEF SameButRate
<1> QED
  BY <1>7, <1>8

--------------------------------------------------------------------------------
(* n is m with gameweeks added. *)
Longer(n, m) ==
  /\ m \in Seq(Weeks) /\ n \in Seq(Weeks)
  /\ Len(m) <= Len(n)
  /\ \A i \in 1..Len(m) : n[i] = m[i]

LEMMA LongerAgrees ==
  ASSUME NEW m, NEW n, Longer(n, m)
  PROVE  /\ \A t \in 1..(Len(m) + 1) : Agree(n, m, t)
         /\ \A q \in Rows(m) : q[2] \in 1..Len(m) /\ Agree(n, m, q[2])
<1>1. Len(m) \in Nat /\ Len(n) \in Nat /\ DOMAIN m = 1..Len(m)
  BY DEF Longer
<1>2. \A t \in 1..(Len(m) + 1) : Agree(n, m, t)
  BY <1>1 DEF Longer, Agree
<1>3. \A q \in Rows(m) : q[2] \in 1..Len(m)
  BY <1>1 DEF Rows
<1> QED
  BY <1>1, <1>2, <1>3

(* A row of the shorter mart stands in both as it does in one. *)
LEMMA SharedMembership ==
  ASSUME NEW m, NEW n, Longer(n, m), NEW r \in Rows(m), NEW keepAll \in BOOLEAN
  PROVE  /\ r \in Population(n, keepAll) <=> r \in Population(m, keepAll)
         /\ ClubOn(n, r) <=> ClubOn(m, r)
         /\ PositionOn(n, r) <=> PositionOn(m, r)
<1> DEFINE t == r[2] + 1
<1>1. r[2] \in Nat /\ t \in 1..(Len(m) + 1) /\ r[2] < t
  BY LongerAgrees DEF Longer
<1>2. Agree(n, m, t)
  BY <1>1, LongerAgrees
<1> HIDE DEF t
<1>3. /\ Earlier(Appeared(n), t) = Earlier(Appeared(m), t)
      /\ Earlier(Population(n, keepAll), t) = Earlier(Population(m, keepAll), t)
      /\ Earlier(Sides(n), t) = Earlier(Sides(m), t)
  BY <1>2, SharedUniverses, SharedPopulation, SharedSides
<1>4. r \in Population(n, keepAll) <=> r \in Population(m, keepAll)
  BY <1>1, <1>3 DEF Earlier
<1>5. ClubOn(n, r) <=> ClubOn(m, r)
  BY <1>1, <1>3 DEF Earlier, ClubOn
<1>6. PositionOn(n, r) <=> PositionOn(m, r)
  BY <1>1, <1>3 DEF Earlier, PositionOn
<1> QED
  BY <1>4, <1>5, <1>6

(* Who may be ranked in a gameweek of the shorter mart. *)
LEMMA SharedRegulars ==
  ASSUME NEW m, NEW n, NEW r, Agree(n, m, r[2]), NEW part
  PROVE  Regular(n, r, part) <=> Regular(m, r, part)
<1>0. TRUE \in BOOLEAN
  OBVIOUS
<1>1. MartRolled(n, r) = MartRolled(m, r) /\ MartRolled(m, r) \subseteq Before(m, r[2])
  BY <1>0, SharedWindows
<1>2. \A q \in MartRolled(m, r) : Status(n, q) = Status(m, q)
  BY <1>1, SharedRows
<1> DEFINE window == MartRolled(m, r)
           on(z) == {q \in window : Status(z, q) # "bench"}
           twice(z) == {q \in window : Status(z, q) = "double"}
<1>3. on(n) = on(m) /\ twice(n) = twice(m)
  BY <1>2
<1>4. \A z : MartRolled(z, r) = window =>
        (Regular(z, r, part)
           <=> window # {} /\ part * (Cardinality(on(z)) + Cardinality(twice(z))) >= Cardinality(window))
  BY DEF Regular
<1> HIDE DEF on, twice
<1> QED
  BY <1>1, <1>3, <1>4

LEMMA SharedShortlist ==
  ASSUME NEW m, NEW n, Longer(n, m), NEW t \in DOMAIN m
  PROVE  Shortlist(n, Panel(n, TRUE), t) = Shortlist(m, Panel(m, TRUE), t)
<1>1. ASSUME NEW p \in Players, NEW col, NEW part
      PROVE  /\ Regular(n, <<p, t>>, part) <=> Regular(m, <<p, t>>, part)
             /\ Scores(Panel(n, TRUE), <<p, t>>, col) = NaN <=> Scores(Panel(m, TRUE), <<p, t>>, col) = NaN
  <2> DEFINE r == <<p, t>>
  <2>1. r \in Rows(m) /\ TRUE \in BOOLEAN
    BY DEF Rows
  <2> HIDE DEF r
  <2>2. /\ Agree(n, m, r[2])
        /\ r \in Population(n, TRUE) <=> r \in Population(m, TRUE)
        /\ ClubOn(n, r) <=> ClubOn(m, r)
        /\ PositionOn(n, r) <=> PositionOn(m, r)
    BY <2>1, LongerAgrees, SharedMembership
  <2>3. /\ Line(n, TRUE, r).dist = NaN <=> Line(m, TRUE, r).dist = NaN
        /\ Line(n, TRUE, r).uncond = NaN <=> Line(m, TRUE, r).uncond = NaN
    BY <2>1, <2>2, SameGaps
  <2>4. \A z : /\ DOMAIN Panel(z, TRUE) = Population(z, TRUE)
               /\ r \in Population(z, TRUE) => Panel(z, TRUE)[r] = Line(z, TRUE, r)
    BY DEF Panel
  <2>5. Scores(Panel(n, TRUE), r, col) = NaN <=> Scores(Panel(m, TRUE), r, col) = NaN
    BY <2>2, <2>3, <2>4 DEF Scores
  <2>6. Regular(n, r, part) <=> Regular(m, r, part)
    BY <2>2, SharedRegulars
  <2> QED
    BY <2>5, <2>6 DEF r
<1>2. \A col, part : Candidates(n, Panel(n, TRUE), t, col, part) = Candidates(m, Panel(m, TRUE), t, col, part)
  BY <1>1 DEF Candidates
<1> QED
  BY <1>2 DEF Shortlist

--------------------------------------------------------------------------------
(* What a run on mart m leaves. *)
RunOf(m) ==
  /\ forecast = [keepAll \in BOOLEAN |-> Panel(m, keepAll)]
  /\ ranked = [t \in DOMAIN m |-> Shortlist(m, Panel(m, TRUE), t)]

(* The forecast and the lists are those of a mart the present one grew from. *)
ForecastOfPrefix ==
  /\ mart \in Seq(Weeks)
  /\ \E m \in Seq(Weeks) : Longer(mart, m) /\ RunOf(m)

LEMMA PrefixAtInit == ASSUME ForecastAssumption PROVE Init => ForecastOfPrefix
<1> SUFFICES ASSUME Init PROVE ForecastOfPrefix
  OBVIOUS
<1>1. <<>> \in Seq(Weeks) /\ Longer(mart, <<>>) /\ mart = <<>>
  BY DEF Init, Longer
<1>2. \A keepAll \in BOOLEAN : Population(<<>>, keepAll) = {}
  BY DEF Population, Fixtured, Appeared, Rows
<1>3. \A keepAll \in BOOLEAN : Panel(<<>>, keepAll) = <<>>
  BY <1>2 DEF Panel
<1>4. RunOf(<<>>)
  BY <1>3 DEF Init, RunOf
<1> QED
  BY <1>1, <1>4 DEF ForecastOfPrefix

LEMMA PrefixKept == ForecastOfPrefix /\ [Next]_vars => ForecastOfPrefix'
<1> SUFFICES ASSUME ForecastOfPrefix, [Next]_vars PROVE ForecastOfPrefix'
  OBVIOUS
<1>0. PICK m \in Seq(Weeks) : Longer(mart, m) /\ RunOf(m)
  BY DEF ForecastOfPrefix
<1>1. CASE PlayWeek
  <2>1. PICK week \in Weeks : mart' = Append(mart, week)
    BY <1>1 DEF PlayWeek
  <2>2. mart' \in Seq(Weeks) /\ Len(mart') = Len(mart) + 1 /\ \A i \in 1..Len(mart) : mart'[i] = mart[i]
    BY <2>1 DEF ForecastOfPrefix
  <2>3. Longer(mart', m)
    BY <1>0, <2>2 DEF Longer
  <2>4. forecast' = forecast /\ ranked' = ranked
    BY <1>1 DEF PlayWeek
  <2> QED
    BY <1>0, <2>2, <2>3, <2>4 DEF ForecastOfPrefix, RunOf
<1>2. CASE Run
  <2>1. mart' = mart /\ forecast' = [keepAll \in BOOLEAN |-> Panel(mart, keepAll)]
    BY <1>2 DEF Run
  <2>2. ranked' = [t \in DOMAIN mart |-> Shortlist(mart, Panel(mart, TRUE), t)]
    BY <1>2, <2>1 DEF Run
  <2>3. Longer(mart', mart)
    BY <2>1 DEF ForecastOfPrefix, Longer
  <2> QED
    BY <2>1, <2>2, <2>3 DEF ForecastOfPrefix, RunOf
<1>3. CASE UNCHANGED vars
  BY <1>3, <1>0 DEF vars, ForecastOfPrefix, RunOf
<1> QED
  BY <1>1, <1>2, <1>3 DEF Next

(* From here on a run's forecast of a row is what it was, unless the row is  *)
(* a keeper's first.                                                        *)
LEMMA RunSettles ==
  ASSUME ForecastOfPrefix, Run, NEW keepAll \in BOOLEAN, NEW r \in DOMAIN forecast[keepAll]
  PROVE  /\ r \in DOMAIN forecast'[keepAll]
         /\ KeeperDebut(keepAll, r) \/ forecast'[keepAll][r] = forecast[keepAll][r]
<1>0. PICK m \in Seq(Weeks) : Longer(mart, m) /\ forecast = [x \in BOOLEAN |-> Panel(m, x)]
  BY DEF ForecastOfPrefix, RunOf
<1>1. /\ forecast[keepAll] = Panel(m, keepAll)
      /\ forecast'[keepAll] = Panel(mart, keepAll)
  BY <1>0 DEF Run
<1>2. /\ DOMAIN forecast[keepAll] = Population(m, keepAll)
      /\ DOMAIN forecast'[keepAll] = Population(mart, keepAll)
  BY <1>1 DEF Panel
<1>3. r \in Population(m, keepAll) /\ r \in Rows(m)
  BY <1>2 DEF Population, Fixtured, Appeared
<1>4. r \in Population(mart, keepAll)
  BY <1>0, <1>3, SharedMembership
<1>5. ASSUME ~KeeperDebut(keepAll, r) PROVE forecast'[keepAll][r] = forecast[keepAll][r]
  <2>1. ~Debut(m, keepAll, r)
    BY <1>2, <1>5 DEF KeeperDebut, Debut
  <2>2. Line(mart, keepAll, r) = Line(m, keepAll, r)
    BY <1>0, <1>3, <2>1, LongerAgrees, SharedMembership, SharedLine
  <2> QED
    BY <1>1, <1>3, <1>4, <2>2 DEF Panel
<1> QED
  BY <1>2, <1>4, <1>5

(* Whatever the season, the players and the minimum sizes, a run on a longer *)
(* mart leaves every forecast as it was, keepers' first rows excepted: what  *)
(* the backtest grades is what was forecast.                                 *)
THEOREM Settles == Spec => ForecastsSettle
<1>1. Init => ForecastOfPrefix
  BY ForecastAssumption, PrefixAtInit
<1>2. ForecastOfPrefix /\ [Next]_vars => ForecastOfPrefix'
  BY PrefixKept
<1>3. ForecastOfPrefix /\ [Next]_vars =>
        [\A keepAll \in BOOLEAN : \A r \in DOMAIN forecast[keepAll] :
           /\ r \in DOMAIN forecast'[keepAll]
           /\ KeeperDebut(keepAll, r) \/ forecast'[keepAll][r] = forecast[keepAll][r]]_vars
  <2> SUFFICES ASSUME ForecastOfPrefix, Next
               PROVE  \A keepAll \in BOOLEAN : \A r \in DOMAIN forecast[keepAll] :
                        /\ r \in DOMAIN forecast'[keepAll]
                        /\ KeeperDebut(keepAll, r) \/ forecast'[keepAll][r] = forecast[keepAll][r]
    OBVIOUS
  <2>1. CASE PlayWeek
    <3>1. forecast' = forecast
      BY <2>1 DEF PlayWeek
    <3> QED
      BY <3>1
  <2>2. CASE Run
    BY <2>2, RunSettles
  <2> QED
    BY <2>1, <2>2 DEF Next
<1> QED
  BY <1>1, <1>2, <1>3, PTL DEF Spec, ForecastsSettle

(* Who may be ranked in a gameweek does not change with the gameweeks that    *)
(* follow, keepers' debuts included: the candidates the backtest grades are  *)
(* those that were listed.                                                   *)
THEOREM ShortlistsSettle == Spec => ListsSettle
<1>1. Init => ForecastOfPrefix
  BY ForecastAssumption, PrefixAtInit
<1>2. ForecastOfPrefix /\ [Next]_vars => ForecastOfPrefix'
  BY PrefixKept
<1>3. ForecastOfPrefix /\ [Next]_vars =>
        [\A t \in DOMAIN ranked : t \in DOMAIN ranked' /\ ranked'[t] = ranked[t]]_vars
  <2> SUFFICES ASSUME ForecastOfPrefix, Next, NEW t \in DOMAIN ranked
               PROVE  t \in DOMAIN ranked' /\ ranked'[t] = ranked[t]
    OBVIOUS
  <2>1. CASE PlayWeek
    BY <2>1 DEF PlayWeek
  <2>2. CASE Run
    <3>1. PICK m \in Seq(Weeks) : Longer(mart, m) /\ RunOf(m)
      BY DEF ForecastOfPrefix
    <3>2. t \in DOMAIN m /\ ranked[t] = Shortlist(m, Panel(m, TRUE), t)
      BY <3>1 DEF RunOf
    <3>3. t \in DOMAIN mart
      BY <3>1, <3>2 DEF Longer
    <3>4. ranked' = [g \in DOMAIN mart |-> Shortlist(mart, Panel(mart, TRUE), g)]
      BY <2>2 DEF Run
    <3>5. Shortlist(mart, Panel(mart, TRUE), t) = Shortlist(m, Panel(m, TRUE), t)
      BY <3>1, <3>2, SharedShortlist
    <3> QED
      BY <3>2, <3>3, <3>4, <3>5
  <2> QED
    BY <2>1, <2>2 DEF Next
<1> QED
  BY <1>1, <1>2, <1>3, PTL DEF Spec, ListsSettle

--------------------------------------------------------------------------------
(* Of a fielded gameweek's players with a fixture, club and position are on. *)
LEMMA FieldedIsOn ==
  ASSUME NEW m, NEW t \in DOMAIN m, Fielded(m[t]), NEW p \in Players,
         m[t][p] \in {"bench", "played"}
  PROVE  ClubOn(m, <<p, t>>) /\ PositionOn(m, <<p, t>>)
<1>1. \A q \in Players : m[t][q] = "played" => <<q, t>> \in Appeared(m)
  BY DEF Appeared, Rows, Status
<1>2. PICK q \in Players : Club[q] = Club[p] /\ m[t][q] = "played"
  BY DEF Fielded
<1>3. ClubOn(m, <<p, t>>)
  <2>1. <<q, t>> \in Appeared(m) /\ <<Club[p], t>> = <<Club[<<q, t>>[1]], <<q, t>>[2]>>
    BY <1>1, <1>2
  <2> QED
    BY <2>1 DEF ClubOn, Sides
<1>4. PICK x \in Players : Position[x] = Position[p] /\ m[t][x] = "played"
  BY DEF Fielded
<1>5. PositionOn(m, <<p, t>>)
  <2>1. <<x, t>> \in Appeared(m) /\ Position[<<x, t>>[1]] = Position[p] /\ <<x, t>>[2] = t
    BY <1>1, <1>4
  <2> QED
    BY <2>1 DEF PositionOn
<1> QED
  BY <1>3, <1>5

(* After a run the forecast is that of the whole mart. *)
LEMMA UpToDate ==
  ASSUME ForecastOfPrefix, Len(ranked) = Len(mart)
  PROVE  forecast = [keepAll \in BOOLEAN |-> Panel(mart, keepAll)]
<1>1. PICK m \in Seq(Weeks) : Longer(mart, m) /\ RunOf(m)
  BY DEF ForecastOfPrefix
<1>2. DOMAIN ranked = 1..Len(m) /\ Len(m) \in Nat
  BY <1>1 DEF RunOf
<1>3. Len(ranked) = Len(m)
  <2> DEFINE S == {Shortlist(m, Panel(m, TRUE), t) : t \in 1..Len(m)}
  <2>0. ranked = [t \in 1..Len(m) |-> Shortlist(m, Panel(m, TRUE), t)]
    BY <1>1 DEF RunOf
  <2>1. ranked \in [1..Len(m) -> S]
    BY <2>0
  <2> HIDE DEF S
  <2> QED
    BY <2>1, <1>2
<1>4. mart = m
  <2>1. mart \in Seq(Weeks) /\ Len(mart) = Len(m) /\ \A i \in 1..Len(m) : mart[i] = m[i]
    BY <1>1, <1>3 DEF Longer
  <2>2. mart \in [1..Len(m) -> Weeks] /\ m \in [1..Len(m) -> Weeks]
    BY <2>1
  <2> QED
    BY <2>1, <2>2
<1> QED
  BY <1>1, <1>4 DEF RunOf

(* A forecast of the present gameweek does not read the gameweek: whoever of *)
(* the players with a fixture then appears, it is the same.  Keepers' first  *)
(* rows excepted.                                                            *)
THEOREM BlindToItsOwnWeek == Spec => []IgnoresTheWeekItself
<1>1. Init => ForecastOfPrefix
  BY ForecastAssumption, PrefixAtInit
<1>2. ForecastOfPrefix /\ [Next]_vars => ForecastOfPrefix'
  BY PrefixKept
<1>3. ForecastOfPrefix => IgnoresTheWeekItself
  <2> SUFFICES ASSUME ForecastOfPrefix, Len(mart) > 0, Len(ranked) = Len(mart), Fielded(mart[Len(mart)]),
                      NEW week \in Weeks, SameFixtures(week, mart[Len(mart)]), Fielded(week),
                      NEW r \in Players \X {Len(mart)}, r \in DOMAIN forecast[TRUE]
               PROVE  /\ r \in Fixtured([mart EXCEPT ![Len(mart)] = week])
                      /\ \/ KeeperDebut(TRUE, r)
                         \/ Line([mart EXCEPT ![Len(mart)] = week], TRUE, r) = forecast[TRUE][r]
    BY DEF IgnoresTheWeekItself
  <2> DEFINE t == Len(mart)
             p == r[1]
             other == [mart EXCEPT ![t] = week]
  <2>1. mart \in Seq(Weeks) /\ t \in Nat /\ t \in DOMAIN mart
    BY DEF ForecastOfPrefix
  <2>2. other \in Seq(Weeks) /\ Len(other) = t /\ DOMAIN other = DOMAIN mart /\ other[t] = week
    BY <2>1
  <2>3. \A i \in 1..(t - 1) : other[i] = mart[i]
    BY <2>1
  <2>4. forecast[TRUE] = Panel(mart, TRUE)
    BY UpToDate
  <2>4a. p \in Players /\ r[2] = t /\ r = <<p, t>>
    OBVIOUS
  <2> HIDE DEF t, p, other
  <2>5. Agree(other, mart, r[2])
    BY <2>1, <2>2, <2>3, <2>4a DEF Agree, t
  <2>6. DOMAIN forecast[TRUE] = Fixtured(mart)
    BY <2>4 DEF Panel, Population
  <2>7. mart[t][p] \in {"bench", "played"}
    BY <2>4a, <2>6 DEF Fixtured, Status, p
  <2>8. week[p] \in {"bench", "played"}
    BY <2>4a, <2>7 DEF SameFixtures, t
  <2>9. r \in Fixtured(other)
    BY <2>1, <2>2, <2>4a, <2>8 DEF Fixtured, Rows, Status
  <2>10. /\ ClubOn(other, r) <=> ClubOn(mart, r)
         /\ PositionOn(other, r) <=> PositionOn(mart, r)
    <3>1. ClubOn(mart, r) /\ PositionOn(mart, r)
      BY <2>1, <2>4a, <2>7, FieldedIsOn DEF t
    <3>2. ClubOn(other, r) /\ PositionOn(other, r)
      BY <2>1, <2>2, <2>4a, <2>8, FieldedIsOn
    <3> QED
      BY <3>1, <3>2
  <2>11. ASSUME ~KeeperDebut(TRUE, r) PROVE Line(other, TRUE, r) = forecast[TRUE][r]
    <3>1. ~Debut(mart, TRUE, r)
      BY <2>6, <2>11 DEF KeeperDebut, Debut, Population
    <3>2. Line(other, TRUE, r) = Line(mart, TRUE, r)
      BY <2>5, <2>10, <3>1, SharedLine
    <3> QED
      BY <2>4, <2>6, <3>2 DEF Panel
  <2> QED
    BY <2>9, <2>11 DEF t, other
<1> QED
  BY <1>1, <1>2, <1>3, PTL DEF Spec

--------------------------------------------------------------------------------
(* Saves reads columns of the mart, so it is the same in both universes. *)
LEMMA SavesIgnoreUniverse ==
  ASSUME NEW m, NEW r, NEW x \in BOOLEAN, NEW y \in BOOLEAN
  PROVE  Poisson(m, x, "saves", r) = Poisson(m, y, "saves", r)
<1>1. \A q : Features(m, x, "saves", q) = Features(m, y, "saves", q)
  BY DEF Features
<1>2. \A q : Complete(m, x, "saves", q) <=> Complete(m, y, "saves", q)
  BY <1>1 DEF Complete
<1>3. \A train, least : Fit(m, x, "saves", train, least, r) = Fit(m, y, "saves", train, least, r)
  <2> TAKE train, least
  <2> DEFINE complete == {q \in train : Complete(m, y, "saves", q)}
             FromRows(k) == {<<q, Status(m, q), Features(m, k, "saves", q)>> : q \in complete}
  <2>1. {q \in train : Complete(m, x, "saves", q)} = complete
    BY <1>2
  <2>2. FromRows(x) = FromRows(y)
    BY <1>1
  <2> QED
    BY <1>1, <1>2, <2>1, <2>2 DEF Fit
<1> QED
  BY <1>3 DEF Poisson

(* Widening the universe to those who stay out adds rows, and changes no     *)
(* forecast that is made of the mart's own columns.                         *)
THEOREM WideningAdds == Spec => []WideningOnlyAdds
<1>1. Init => ForecastOfPrefix
  BY ForecastAssumption, PrefixAtInit
<1>2. ForecastOfPrefix /\ [Next]_vars => ForecastOfPrefix'
  BY PrefixKept
<1>3. ForecastOfPrefix => WideningOnlyAdds
  <2> SUFFICES ASSUME ForecastOfPrefix, NEW r \in DOMAIN forecast[FALSE]
               PROVE  /\ r \in DOMAIN forecast[TRUE]
                      /\ \A x \in {"saves", "team", "bonus"} :
                           forecast[FALSE][r].views[x] = forecast[TRUE][r].views[x]
    BY DEF WideningOnlyAdds
  <2>1. PICK m : forecast = [keepAll \in BOOLEAN |-> Panel(m, keepAll)]
    BY DEF ForecastOfPrefix, RunOf
  <2>2. forecast[FALSE] = Panel(m, FALSE) /\ forecast[TRUE] = Panel(m, TRUE)
    BY <2>1
  <2>3. r \in Population(m, FALSE)
    BY <2>2 DEF Panel
  <2>4. r \in Population(m, TRUE)
    BY <2>3 DEF Population, Appeared, Fixtured
  <2>5. /\ forecast[FALSE][r].views = Views(m, FALSE, r)
        /\ forecast[TRUE][r].views = Views(m, TRUE, r)
    <3>1. \A x \in BOOLEAN : \A q \in Population(m, x) : Panel(m, x)[q].views = Views(m, x, q)
      BY DEF Panel, Line
    <3> QED
      BY <2>2, <2>3, <2>4, <3>1
  <2>6. \A x \in {"saves", "team", "bonus"} : Views(m, FALSE, r)[x] = Views(m, TRUE, r)[x]
    <3>1. Poisson(m, FALSE, "saves", r) = Poisson(m, TRUE, "saves", r)
      BY SavesIgnoreUniverse
    <3>2. Views(m, FALSE, r).saves = Views(m, TRUE, r).saves
      BY <3>1 DEF Views
    <3>3. Views(m, FALSE, r).team = Views(m, TRUE, r).team
      BY DEF Views
    <3>4. Views(m, FALSE, r).bonus = Views(m, TRUE, r).bonus
      BY DEF Views
    <3> QED
      BY <3>2, <3>3, <3>4
  <2>7. r \in DOMAIN forecast[TRUE]
    BY <2>2, <2>4 DEF Panel
  <2> QED
    BY <2>5, <2>6, <2>7
<1> QED
  BY <1>1, <1>2, <1>3, PTL DEF Spec

--------------------------------------------------------------------------------
(* A window that can reach back to a row has one. *)
LEMMA RolledHasOne ==
  ASSUME NEW rows, NEW r, r[2] \in Nat, NEW q0 \in rows, q0[1] = r[1], q0[2] < r[2],
         \A q \in rows : q[2] \in Nat
  PROVE  Rolled(rows, r) # {}
<1> DEFINE own == {q \in rows : q[1] = r[1] /\ q[2] < r[2]}
           Back == {k \in 0..r[2] : \E q \in own : k = r[2] - q[2]}
<1>1. q0 \in own /\ r[2] - q0[2] \in Back
  BY DEF own
<1>2. PICK k \in Back : \A j \in Back : k <= j
  <2>1. Back \subseteq 0..r[2] /\ Back # {} /\ IsFiniteSet(0..r[2])
    <3>1. 0 \in Int /\ r[2] \in Int
      OBVIOUS
    <3>2. IsFiniteSet(0..r[2])
      BY <3>1, FS_Interval
    <3> QED
      BY <1>1, <3>2
  <2> HIDE DEF Back
  <2> DEFINE Up(k) == 0..k
             B == {Up(k) : k \in Back}
  <2>2. B # {} /\ B \subseteq FiniteSubsetsOf(0..r[2])
    <3>1. \A k \in Back : Up(k) \in SUBSET (0..r[2])
      BY <2>1
    <3> HIDE DEF Up
    <3>2. \A k \in Back : Up(k) \in FiniteSubsetsOf(0..r[2])
      BY <2>1, <3>1, FS_Subset DEF FiniteSubsetsOf
    <3> QED
      BY <2>1, <3>2
  <2>3. PICK T \in B : \A U \in B : <<U, T>> \notin StrictSubsetOrdering(0..r[2])
    <3> HIDE DEF B
    <3> QED
      BY <2>1, <2>2, FS_StrictSubsetOrderingWellFounded, WFMin
  <2>4. PICK k \in Back : T = Up(k)
    BY <2>3
  <2>5. ASSUME NEW j \in Back, ~(k <= j) PROVE FALSE
    <3>1. Up(j) \subseteq Up(k) /\ Up(j) # Up(k)
      <4>1. j \in Nat /\ k \in Nat /\ j < k
        BY <2>1, <2>5
      <4>2. k \in Up(k) /\ k \notin Up(j) /\ \A x \in Up(j) : x \in Up(k)
        BY <4>1
      <4> HIDE DEF Up
      <4> QED
        BY <4>2
    <3>2. Up(j) \in B /\ Up(k) \in B
      BY <2>5
    <3> HIDE DEF Up, B
    <3>3. <<Up(j), T>> \in StrictSubsetOrdering(0..r[2])
      BY <2>1, <2>2, <2>4, <3>1, <3>2 DEF StrictSubsetOrdering, FiniteSubsetsOf
    <3> QED
      BY <2>3, <3>2, <3>3
  <2> QED
    BY <2>5
<1>3. PICK q \in own : k = r[2] - q[2]
  BY <1>2
<1>4. ASSUME NEW x \in own, x[2] > q[2] PROVE FALSE
  <2>1. x[2] \in Nat /\ q[2] \in Nat /\ x[2] < r[2] /\ q[2] < r[2]
    BY <1>3, <1>4
  <2>2. r[2] - x[2] \in 0..r[2]
    BY <2>1
  <2>3. r[2] - x[2] \in Back
    BY <1>4, <2>2
  <2>4. k <= r[2] - x[2]
    BY <1>2, <2>3
  <2> QED
    BY <1>3, <1>4, <2>1, <2>4
<1>5. {x \in own : x[2] > q[2]} = {}
  BY <1>4
<1>6. Cardinality({x \in own : x[2] > q[2]}) = 0
  BY <1>5, FS_EmptySet
<1>7. 0 < Window
  BY ForecastAssumption
<1>8. q \in Rolled(rows, r)
  <2>1. Rolled(rows, r) = {x \in own : Cardinality({y \in own : y[2] > x[2]}) < Window}
    BY DEF Rolled
  <2> HIDE DEF own
  <2> QED
    BY <1>3, <1>6, <1>7, <2>1
<1> QED
  BY <1>8

(* The rows of learnable gameweeks, for some of the players or clubs. *)
LearntBy(P, t) == P \X Learnable(t)

LEMMA LearnableParts ==
  ASSUME ForecastOfPrefix, NEW t \in Nat
  PROVE  /\ DOMAIN mart = 1..Len(mart) /\ Len(mart) \in Nat
         /\ IsFiniteSet(Learnable(t)) /\ Cardinality(Learnable(t)) \in Nat
         /\ \A g \in Learnable(t) :
              /\ g \in DOMAIN mart /\ g \in Nat /\ g < t /\ FullWeek(g)
              /\ \E h \in DOMAIN mart : h \in Nat /\ g - Window <= h /\ h < g /\ FullWeek(h)
<1>1. DOMAIN mart = 1..Len(mart) /\ Len(mart) \in Nat
  BY DEF ForecastOfPrefix
<1>2. Learnable(t) \in SUBSET (1..Len(mart))
  BY <1>1 DEF Learnable
<1>3. IsFiniteSet(Learnable(t)) /\ Cardinality(Learnable(t)) \in Nat
  <2>1. IsFiniteSet(1..Len(mart))
    BY <1>1, FS_Interval
  <2>2. IsFiniteSet(Learnable(t))
    BY <1>2, <2>1, FS_Subset
  <2> QED
    BY <2>2, FS_CardinalityType
<1> QED
  BY <1>1, <1>3 DEF Learnable

(* Enough of them make a large enough set of rows. *)
LEMMA EnoughRows ==
  ASSUME ForecastOfPrefix, NEW t \in Nat, NEW P, IsFiniteSet(P), NEW least \in Nat,
         Cardinality(Learnable(t)) * Cardinality(P) >= least,
         NEW rows, LearntBy(P, t) \subseteq rows, IsFiniteSet(rows)
  PROVE  ~(Cardinality(rows) < least)
<1>1. IsFiniteSet(Learnable(t)) /\ Cardinality(Learnable(t)) \in Nat /\ Cardinality(P) \in Nat
  BY LearnableParts, FS_CardinalityType
<1>2. Cardinality(LearntBy(P, t)) = Cardinality(P) * Cardinality(Learnable(t))
  BY <1>1, FS_Product DEF LearntBy
<1>3. LearntBy(P, t) \in SUBSET rows
  OBVIOUS
<1>4. Cardinality(LearntBy(P, t)) <= Cardinality(rows) /\ Cardinality(rows) \in Nat
  BY <1>3, FS_Subset, FS_CardinalityType
<1> DEFINE a == Cardinality(P)
           b == Cardinality(Learnable(t))
           c == Cardinality(rows)
           d == Cardinality(LearntBy(P, t))
<1>5. a \in Nat /\ b \in Nat /\ c \in Nat /\ d = a * b /\ b * a >= least /\ d <= c
  BY <1>1, <1>2, <1>4
<1>6. a * b = b * a /\ a * b \in Nat
  BY <1>5
<1> HIDE DEF a, b, c, d
<1>7. ~(c < least)
  BY <1>5, <1>6
<1> QED
  BY <1>7 DEF c

(* The rows of the mart are finitely many. *)
LEMMA RowsFinite ==
  ASSUME ForecastOfPrefix
  PROVE  /\ IsFiniteSet(Rows(mart))
         /\ \A q \in Rows(mart) : q[1] \in Players /\ q[2] \in Nat /\ q = <<q[1], q[2]>>
         /\ \A p \in Players, g \in DOMAIN mart : <<p, g>> \in Rows(mart)
<1>1. DOMAIN mart = 1..Len(mart) /\ Len(mart) \in Nat
  BY DEF ForecastOfPrefix
<1>2. IsFiniteSet(Players) /\ IsFiniteSet(DOMAIN mart)
  BY <1>1, FS_Interval, ForecastAssumption
<1>3. IsFiniteSet(Rows(mart))
  BY <1>2, FS_Product DEF Rows
<1> QED
  BY <1>1, <1>3 DEF Rows

(* A full gameweek's rows have appeared. *)
LEMMA FullRows ==
  ASSUME ForecastOfPrefix, NEW g \in DOMAIN mart, FullWeek(g), NEW p \in Players
  PROVE  /\ <<p, g>> \in Appeared(mart) /\ <<p, g>> \in Fixtured(mart)
         /\ <<Club[p], g>> \in Sides(mart)
         /\ Status(mart, <<p, g>>) # "none"
<1>1. Status(mart, <<p, g>>) = "played" /\ <<p, g>> \in Rows(mart)
  BY RowsFinite DEF FullWeek, Status
<1>2. <<p, g>> \in Appeared(mart) /\ <<p, g>> \in Fixtured(mart)
  BY <1>1 DEF Appeared, Fixtured
<1>3. <<Club[p], g>> \in Sides(mart)
  <2>1. <<Club[p], g>> = <<Club[<<p, g>>[1]], <<p, g>>[2]>>
    OBVIOUS
  <2> QED
    BY <1>2, <2>1 DEF Sides
<1> QED
  BY <1>1, <1>2, <1>3

(* A row is complete whose two windows have a row each. *)
LEMMA CompleteMeans ==
  ASSUME NEW term, NEW r, MartRolled(mart, r) # {}, Rolled(Population(mart, TRUE), r) # {}
  PROVE  Complete(mart, TRUE, term, r)
<1>1. Seen(mart, MartRolled(mart, r)) # {} /\ Seen(mart, Rolled(Population(mart, TRUE), r)) # {}
  BY DEF Seen
<1> QED
  BY <1>1 DEF Complete, Features

(* The rows of a learnable gameweek are complete. *)
LEMMA LearnableIsComplete ==
  ASSUME ForecastOfPrefix, NEW t \in Nat, NEW g \in Learnable(t), NEW p \in Players, NEW term
  PROVE  Complete(mart, TRUE, term, <<p, g>>)
<1>1. g \in Nat
  BY LearnableParts
<1>2. PICK h \in DOMAIN mart : h \in Nat /\ g - Window <= h /\ h < g /\ FullWeek(h)
  BY LearnableParts
<1>3. <<p, h>> \in Fixtured(mart) /\ <<p, h>> \in Rows(mart) /\ Status(mart, <<p, h>>) # "none"
  BY <1>2, FullRows, RowsFinite
<1>4. <<p, h>> \in MartRolled(mart, <<p, g>>)
  BY <1>2, <1>3 DEF MartRolled
<1>5. \A q \in Population(mart, TRUE) : q[2] \in Nat
  BY RowsFinite DEF Population, Fixtured
<1>6. Rolled(Population(mart, TRUE), <<p, g>>) # {}
  <2> DEFINE r == <<p, g>>
             q0 == <<p, h>>
  <2>1. r[2] \in Nat /\ q0 \in Population(mart, TRUE) /\ q0[1] = r[1] /\ q0[2] < r[2]
    BY <1>1, <1>2, <1>3 DEF Population
  <2> HIDE DEF r, q0
  <2>2. Rolled(Population(mart, TRUE), r) # {}
    BY <1>5, <2>1, RolledHasOne
  <2> QED
    BY <2>2 DEF r
<1> QED
  BY <1>4, <1>6, CompleteMeans

(* Training rows that hold those who appeared before t, of some positions,  *)
(* are as many as that, and so are the complete ones among them.            *)
LEMMA EnoughToFit ==
  ASSUME ForecastOfPrefix, NEW t \in Nat, NEW P, NEW least \in Nat,
         Cardinality(Learnable(t)) * Cardinality({p \in Players : Position[p] \in P}) >= least,
         NEW rows, NEW term, rows \subseteq Rows(mart),
         {q \in Appeared(mart) : q[2] < t /\ Position[q[1]] \in P} \subseteq rows,
         NEW full, full \subseteq rows, \A q \in rows : Complete(mart, TRUE, term, q) => q \in full
  PROVE  ~(Cardinality(rows) < least) /\ ~(Cardinality(full) < least)
<1> DEFINE Q == {p \in Players : Position[p] \in P}
<1>1. IsFiniteSet(Q)
  <2>1. Q \in SUBSET Players
    OBVIOUS
  <2> QED
    BY <2>1, FS_Subset, ForecastAssumption
<1>2. rows \in SUBSET Rows(mart) /\ full \in SUBSET Rows(mart)
  OBVIOUS
<1>3. IsFiniteSet(rows) /\ IsFiniteSet(full)
  BY <1>2, RowsFinite, FS_Subset
<1>4. ASSUME NEW p \in Q, NEW g \in Learnable(t) PROVE <<p, g>> \in full
  <2>1. g \in DOMAIN mart /\ g < t /\ FullWeek(g)
    BY LearnableParts
  <2>2. <<p, g>> \in Appeared(mart)
    BY <2>1, FullRows
  <2>3. <<p, g>> \in rows
    BY <2>1, <2>2
  <2>4. Complete(mart, TRUE, term, <<p, g>>)
    BY LearnableIsComplete
  <2> QED
    BY <2>3, <2>4
<1>5. LearntBy(Q, t) \subseteq full /\ LearntBy(Q, t) \subseteq rows
  <2>1. full \subseteq rows
    OBVIOUS
  <2> HIDE DEF Q
  <2>2. \A x \in LearntBy(Q, t) : x[1] \in Q /\ x[2] \in Learnable(t) /\ x = <<x[1], x[2]>>
    BY DEF LearntBy
  <2>3. \A x \in LearntBy(Q, t) : x \in full
    BY <1>4, <2>2
  <2> QED
    BY <2>1, <2>3
<1> HIDE DEF Q
<1>6. Cardinality(Learnable(t)) * Cardinality(Q) >= least
  BY DEF Q
<1>7. ~(Cardinality(rows) < least) /\ ~(Cardinality(full) < least)
  BY <1>1, <1>3, <1>5, <1>6, EnoughRows
<1> QED
  BY <1>7

LEMMA EnoughParts ==
  ASSUME NEW n, Enough(n)
  PROVE  /\ n > 0
         /\ \A term \in {"goals", "assists"} :
              /\ n * Cardinality({p \in Players : Position[p] \in FitPositions(term)}) >= MinTrain[term]
              /\ n * Cardinality({p \in Players : Position[p] \in FitPositions(term)}) >= MinFit
         /\ \A p \in Players :
              /\ n * Cardinality({x \in Players : Position[x] \in {Position[p]}}) >= MinCell
              /\ n * Cardinality({x \in Players : Position[x] \in {Position[p]}}) >= MinBonus
         /\ n * Cardinality({Club[p] : p \in Players}) >= MinTeam
BY DEF Enough

(* A regular of such a gameweek: both of his windows have a row.            *)
Ready(t, p) ==
  /\ t \in DOMAIN mart /\ t \in Nat /\ t > Warmup /\ p \in Players
  /\ Enough(Cardinality(Learnable(t))) /\ Fielded(mart[t])
  /\ <<p, t>> \in Fixtured(mart)
  /\ MartRolled(mart, <<p, t>>) # {}

LEMMA ReadyIsComplete ==
  ASSUME ForecastOfPrefix, NEW t, NEW p, Ready(t, p)
  PROVE  /\ \A term : Complete(mart, TRUE, term, <<p, t>>)
         /\ \E g \in Learnable(t) : TRUE
<1>1. t \in Nat /\ p \in Players /\ t \in DOMAIN mart
  BY DEF Ready
<1>2. PICK g \in Learnable(t) : TRUE
  <2> SUFFICES ASSUME Learnable(t) = {} PROVE FALSE
    OBVIOUS
  <2>1. Cardinality(Learnable(t)) = 0
    BY FS_EmptySet
  <2>2. Cardinality(Learnable(t)) > 0
    BY EnoughParts DEF Ready
  <2> QED
    BY <2>1, <2>2
<1>3. g \in DOMAIN mart /\ g \in Nat /\ g < t /\ FullWeek(g)
  BY <1>1, LearnableParts
<1>4. <<p, g>> \in Population(mart, TRUE)
  BY <1>1, <1>3, FullRows DEF Population
<1>5. \A q \in Population(mart, TRUE) : q[2] \in Nat
  BY RowsFinite DEF Population, Fixtured
<1>6. Rolled(Population(mart, TRUE), <<p, t>>) # {}
  <2> DEFINE r == <<p, t>>
             q0 == <<p, g>>
  <2>1. r[2] \in Nat /\ q0 \in Population(mart, TRUE) /\ q0[1] = r[1] /\ q0[2] < r[2]
    BY <1>1, <1>3, <1>4
  <2> HIDE DEF r, q0
  <2>2. Rolled(Population(mart, TRUE), r) # {}
    BY <1>5, <2>1, RolledHasOne
  <2> QED
    BY <2>2 DEF r
<1>7. MartRolled(mart, <<p, t>>) # {}
  BY DEF Ready
<1> QED
  BY <1>2, <1>6, <1>7, CompleteMeans

(* So every view it needs has a value. *)
LEMMA HasPoisson ==
  ASSUME ForecastOfPrefix, NEW t, NEW p, Ready(t, p), NEW term \in {"goals", "assists"}
  PROVE  Poisson(mart, TRUE, term, <<p, t>>) # NaN
<1> DEFINE r == <<p, t>>
           P == FitPositions(term)
           train == {q \in Earlier(Appeared(mart), t) : Position[q[1]] \in P}
           full == {q \in train : Complete(mart, TRUE, term, q)}
           n == Cardinality(Learnable(t))
           k == Cardinality({x \in Players : Position[x] \in P})
<1>1. t \in Nat /\ t > Warmup /\ Enough(n) /\ Warmup \in Nat
  BY ForecastAssumption DEF Ready
<1>2. n * k >= MinTrain[term] /\ n * k >= MinFit
  BY <1>1, EnoughParts
<1>3. MinTrain[term] \in Nat /\ MinFit \in Nat
  BY ForecastAssumption
<1>4. train \subseteq Rows(mart) /\ {q \in Appeared(mart) : q[2] < t /\ Position[q[1]] \in P} \subseteq train
  BY DEF Earlier, Appeared
<1> HIDE DEF n, P, train
<1>0. full = {q \in train : Complete(mart, TRUE, term, q)}
  OBVIOUS
<1>0a. full \subseteq train /\ \A q \in train : Complete(mart, TRUE, term, q) => q \in full
  OBVIOUS
<1> HIDE DEF full
<1>5. ~(Cardinality(train) < MinTrain[term])
  BY <1>0a, <1>1, <1>2, <1>3, <1>4, EnoughToFit DEF n
<1>6. ~(Cardinality(full) < MinFit)
  <2>1. Cardinality(Learnable(t)) * Cardinality({x \in Players : Position[x] \in P}) >= MinFit
    BY <1>2 DEF n
  <2>2. t \in Nat /\ MinFit \in Nat
    BY <1>1, <1>3
  <2> HIDE DEF k
  <2> QED
    BY <1>0a, <1>4, <2>1, <2>2, EnoughToFit
<1>7. Complete(mart, TRUE, term, r)
  BY ReadyIsComplete
<1>8. Fit(mart, TRUE, term, train, MinFit, r) # NaN
  BY <1>0, <1>6, <1>7 DEF Fit, NaN
<1>9. ~(t <= Warmup)
  BY <1>1
<1>10. Poisson(mart, TRUE, term, r)
         = IF t <= Warmup \/ Cardinality(train) < MinTrain[term] THEN NaN
           ELSE IF Position[p] \notin P THEN {Zero}
           ELSE Fit(mart, TRUE, term, train, MinFit, r)
  BY DEF Poisson, train, P
<1> QED
  BY <1>5, <1>8, <1>9, <1>10 DEF NaN

LEMMA HasLogit ==
  ASSUME ForecastOfPrefix, NEW t, NEW p, Ready(t, p), NEW term
  PROVE  Logit(mart, TRUE, term, <<p, t>>) # NaN
<1> DEFINE r == <<p, t>>
           P == {Position[p]}
           rows == IF term = "p_play" THEN Fixtured(mart) ELSE Appeared(mart)
           train == {q \in Earlier(rows, t) : Position[q[1]] = Position[p]}
           full == {q \in train : Complete(mart, TRUE, term, q)}
           n == Cardinality(Learnable(t))
           k == Cardinality({x \in Players : Position[x] \in P})
<1>1. t \in Nat /\ t > Warmup /\ Enough(n) /\ Warmup \in Nat /\ p \in Players
  BY ForecastAssumption DEF Ready
<1>2. n * k >= MinCell
  BY <1>1, EnoughParts
<1>3. MinCell \in Nat
  BY ForecastAssumption
<1>4. train \subseteq Rows(mart) /\ {q \in Appeared(mart) : q[2] < t /\ Position[q[1]] \in P} \subseteq train
  BY DEF Earlier, Appeared, Fixtured
<1>5. Logit(mart, TRUE, term, r)
         = IF t <= Warmup THEN NaN ELSE Fit(mart, TRUE, term, train, MinCell, r)
  BY DEF Logit
<1> HIDE DEF n, P, train
<1>0. full = {q \in train : Complete(mart, TRUE, term, q)}
  OBVIOUS
<1>0a. full \subseteq train /\ \A q \in train : Complete(mart, TRUE, term, q) => q \in full
  OBVIOUS
<1> HIDE DEF full
<1>6. ~(Cardinality(full) < MinCell)
  <2>1. Cardinality(Learnable(t)) * Cardinality({x \in Players : Position[x] \in P}) >= MinCell
    BY <1>2 DEF n
  <2>2. t \in Nat /\ MinCell \in Nat
    BY <1>1, <1>3
  <2> HIDE DEF k
  <2> QED
    BY <1>0a, <1>4, <2>1, <2>2, EnoughToFit
<1>7. Complete(mart, TRUE, term, r)
  BY ReadyIsComplete
<1>8. Fit(mart, TRUE, term, train, MinCell, r) # NaN
  BY <1>0, <1>6, <1>7 DEF Fit, NaN
<1>9. ~(t <= Warmup)
  BY <1>1
<1> QED
  BY <1>5, <1>8, <1>9

LEMMA HasP60 ==
  ASSUME ForecastOfPrefix, NEW t, NEW p, Ready(t, p)
  PROVE  P60(mart, TRUE, <<p, t>>) # NaN
<1>1. KeeperRate(mart, TRUE, <<p, t>>) # NaN
  BY DEF KeeperRate, NaN
<1> QED
  BY <1>1, HasLogit DEF P60

LEMMA HasBonus ==
  ASSUME ForecastOfPrefix, NEW t, NEW p, Ready(t, p)
  PROVE  Bonus(mart, <<p, t>>) # NaN
<1> DEFINE P == {Position[p]}
           cell == {q \in Appeared(mart) : Position[q[1]] = Position[p]}
           train == Earlier(cell, t)
           n == Cardinality(Learnable(t))
           k == Cardinality({x \in Players : Position[x] \in P})
<1>1. t \in Nat /\ t > Warmup /\ Enough(n) /\ Warmup \in Nat /\ p \in Players /\ t \in DOMAIN mart
  BY ForecastAssumption DEF Ready
<1>2. n * k >= MinBonus
  BY <1>1, EnoughParts
<1>3. MinBonus \in Nat
  BY ForecastAssumption
<1>4. train \subseteq Rows(mart) /\ {q \in Appeared(mart) : q[2] < t /\ Position[q[1]] \in P} \subseteq train
  BY DEF Earlier, Appeared
<1>5. \E q \in cell : q[2] = t
  <2>1. PICK x \in Players : Position[x] = Position[p] /\ mart[t][x] = "played"
    BY <1>1 DEF Ready, Fielded
  <2>2. <<x, t>> \in Appeared(mart)
    BY <1>1, <2>1, RowsFinite DEF Appeared, Status
  <2> QED
    BY <2>1, <2>2
<1> HIDE DEF n, P, train
<1> DEFINE full == {q \in train : Complete(mart, TRUE, "bonus", q)}
<1>0. full \subseteq train /\ \A q \in train : Complete(mart, TRUE, "bonus", q) => q \in full
  OBVIOUS
<1> HIDE DEF full
<1>6. ~(Cardinality(train) < MinBonus)
  BY <1>0, <1>1, <1>2, <1>3, <1>4, EnoughToFit DEF n
<1>7. ~(t <= Warmup)
  BY <1>1
<1>8. Bonus(mart, <<p, t>>)
         = IF t <= Warmup \/ Cardinality(train) < MinBonus \/ ~\E q \in cell : q[2] = t
           THEN NaN ELSE {Seen(mart, train)}
  BY DEF Bonus, train
<1> HIDE DEF cell
<1> QED
  BY <1>5, <1>6, <1>7, <1>8 DEF NaN

LEMMA HasTeam ==
  ASSUME ForecastOfPrefix, NEW t, NEW p, Ready(t, p)
  PROVE  Broadcast(mart, <<p, t>>) # NaN
<1> DEFINE s == <<Club[p], t>>
           C == {Club[x] : x \in Players}
           past(x) == Rolled(Sides(mart), x)
           complete == {x \in Earlier(Sides(mart), t) : past(x) # {}}
           n == Cardinality(Learnable(t))
<1>1. t \in Nat /\ t > Warmup /\ Enough(n) /\ Warmup \in Nat /\ p \in Players /\ t \in DOMAIN mart
  BY ForecastAssumption DEF Ready
<1>2. n * Cardinality(C) >= MinTeam /\ MinTeam \in Nat
  BY <1>1, EnoughParts, ForecastAssumption
<1>3. IsFiniteSet(C)
  <2> DEFINE f == [x \in Players |-> Club[x]]
  <2>1. f \in Surjection(Players, C)
    BY DEF Surjection
  <2> HIDE DEF f, C
  <2> QED
    BY <2>1, FS_Surjection, ForecastAssumption
<1>4. \A x \in Sides(mart) : x[2] \in Nat /\ x[2] \in DOMAIN mart /\ x[1] \in C /\ x = <<x[1], x[2]>>
  <2>1. \A q \in Appeared(mart) : q[1] \in Players /\ q[2] \in Nat /\ q[2] \in DOMAIN mart
    BY RowsFinite DEF Appeared, Rows
  <2> QED
    BY <2>1 DEF Sides
<1>5. IsFiniteSet(complete)
  <2>1. IsFiniteSet(DOMAIN mart)
    <3>1. DOMAIN mart = 1..Len(mart) /\ Len(mart) \in Nat
      BY DEF ForecastOfPrefix
    <3> QED
      BY <3>1, FS_Interval
  <2>2. IsFiniteSet(C \X DOMAIN mart)
    BY <1>3, <2>1, FS_Product
  <2>3. \A x \in complete : x \in Sides(mart)
    BY DEF Earlier
  <2>4. complete \in SUBSET (C \X DOMAIN mart)
    <3> HIDE DEF complete, C
    <3>1. \A x \in complete : x \in C \X DOMAIN mart
      BY <1>4, <2>3
    <3> QED
      BY <3>1
  <2> QED
    BY <2>2, <2>4, FS_Subset
<1>6. ASSUME NEW x \in Players, NEW g \in DOMAIN mart, NEW h \in DOMAIN mart,
             g \in Nat, h \in Nat, h < g, FullWeek(h)
      PROVE  past(<<Club[x], g>>) # {}
  <2> DEFINE r == <<Club[x], g>>
             q0 == <<Club[x], h>>
  <2>1. r[2] \in Nat /\ q0 \in Sides(mart) /\ q0[1] = r[1] /\ q0[2] < r[2]
    BY <1>6, FullRows
  <2>2. \A q \in Sides(mart) : q[2] \in Nat
    BY <1>4
  <2> HIDE DEF r, q0
  <2>3. Rolled(Sides(mart), r) # {}
    BY <2>1, <2>2, RolledHasOne
  <2> QED
    BY <2>3 DEF r
<1>7. LearntBy(C, t) \subseteq complete
  <2>1. ASSUME NEW x \in Players, NEW g \in Learnable(t) PROVE <<Club[x], g>> \in complete
    <3>1. g \in DOMAIN mart /\ g \in Nat /\ g < t /\ FullWeek(g)
      BY <1>1, LearnableParts
    <3>2. PICK h \in DOMAIN mart : h \in Nat /\ h < g /\ FullWeek(h)
      BY <1>1, LearnableParts
    <3>3. past(<<Club[x], g>>) # {}
      BY <1>6, <3>1, <3>2
    <3>4. <<Club[x], g>> \in Earlier(Sides(mart), t)
      BY <3>1, FullRows DEF Earlier
    <3> HIDE DEF past
    <3> QED
      BY <3>3, <3>4
  <2> HIDE DEF complete
  <2>2. \A c \in C, g \in Learnable(t) : <<c, g>> \in complete
    BY <2>1
  <2> HIDE DEF C
  <2> QED
    BY <2>2 DEF LearntBy
<1>8. s \in Sides(mart)
  <2>1. PICK x \in Players : Club[x] = Club[p] /\ mart[t][x] = "played"
    <3>1. mart[t][p] \in {"bench", "played"}
      BY DEF Ready, Fixtured, Status
    <3> QED
      BY <1>1, <3>1 DEF Ready, Fielded
  <2>2. <<x, t>> \in Appeared(mart)
    BY <1>1, <2>1, RowsFinite DEF Appeared, Status
  <2>3. s = <<Club[<<x, t>>[1]], <<x, t>>[2]>>
    BY <2>1
  <2> QED
    BY <2>2, <2>3 DEF Sides
<1>9. past(s) # {}
  <2>1. PICK g \in Learnable(t) : TRUE
    BY ReadyIsComplete
  <2>2. g \in DOMAIN mart /\ g \in Nat /\ g < t /\ FullWeek(g)
    BY <1>1, LearnableParts
  <2> QED
    BY <1>1, <1>6, <2>2
<1>10. TeamGoalsAgainst(mart, s)
         = IF t <= Warmup \/ s \notin Sides(mart) \/ Cardinality(complete) < MinTeam \/ past(s) = {} THEN NaN
           ELSE {[from |-> {<<Sheet(mart, x), Sheets(mart, past(x))>> : x \in complete}, at |-> Sheets(mart, past(s))]}
  BY DEF TeamGoalsAgainst
<1>11. Broadcast(mart, <<p, t>>) = TeamGoalsAgainst(mart, s)
  BY DEF Broadcast
<1> HIDE DEF n, C, past, complete, s
<1>12. ~(Cardinality(complete) < MinTeam)
  BY <1>1, <1>2, <1>3, <1>5, <1>7, EnoughRows DEF n
<1>13. ~(t <= Warmup)
  BY <1>1
<1> QED
  BY <1>8, <1>9, <1>10, <1>11, <1>12, <1>13 DEF NaN

(* A player with one match is scored, and nobody else is. *)
LEMMA ReadyIsScored ==
  ASSUME ForecastOfPrefix, NEW t, NEW p, Ready(t, p), NEW col \in {"p_haul", "e_points_uncond"}
  PROVE  Scores(Panel(mart, TRUE), <<p, t>>, col) # NaN
<1> DEFINE r == <<p, t>>
           v == Views(mart, TRUE, r)
<1>1. r \in Fixtured(mart) /\ r \in Population(mart, TRUE)
  BY DEF Ready, Population
<1>2. Panel(mart, TRUE)[r] = Line(mart, TRUE, r) /\ r \in DOMAIN Panel(mart, TRUE)
  BY <1>1 DEF Panel
<1>3. /\ Logit(mart, TRUE, "p_play", r) # NaN
      /\ Poisson(mart, TRUE, "goals", r) # NaN /\ Poisson(mart, TRUE, "assists", r) # NaN
      /\ Broadcast(mart, r) # NaN /\ P60(mart, TRUE, r) # NaN /\ Bonus(mart, r) # NaN
  BY HasLogit, HasPoisson, HasTeam, HasP60, HasBonus
<1>4. \A x \in Required : v[x] # NaN
  <2>1. /\ v.goals = Poisson(mart, TRUE, "goals", r) /\ v.assists = Poisson(mart, TRUE, "assists", r)
        /\ v.team = Broadcast(mart, r) /\ v.p60 = P60(mart, TRUE, r) /\ v.bonus = Bonus(mart, r)
    BY DEF Views
  <2> HIDE DEF v, r
  <2> QED
    BY <1>3, <2>1 DEF Required
<1>5. ~(t <= Warmup)
  BY ForecastAssumption DEF Ready
<1>6. Line(mart, TRUE, r).dist # NaN
  <2>1. Line(mart, TRUE, r).dist = IF t <= Warmup \/ \E x \in Required : v[x] = NaN THEN NaN ELSE {v}
    BY DEF Line
  <2> HIDE DEF v
  <2> QED
    BY <1>4, <1>5, <2>1 DEF NaN
<1>7. Line(mart, TRUE, r).uncond # NaN
  <2>1. Line(mart, TRUE, r).uncond
          = IF ~TRUE \/ Logit(mart, TRUE, "p_play", r) = NaN THEN NaN ELSE {<<Points(v), Logit(mart, TRUE, "p_play", r)>>}
    BY DEF Line
  <2> HIDE DEF v
  <2> QED
    BY <1>3, <2>1 DEF NaN
<1> QED
  BY <1>2, <1>6, <1>7 DEF Scores

(* After enough full gameweeks, the captain and transfer lists of a         *)
(* gameweek are exactly its regulars with one match: no term, no window and *)
(* no minimum size on the way loses one, whatever the sizes                 *)
(* (decision_engine.py:52-56).                                              *)
THEOREM RegularsAreListed == Spec => []NoRegularLost
<1>1. Init => ForecastOfPrefix
  BY ForecastAssumption, PrefixAtInit
<1>2. ForecastOfPrefix /\ [Next]_vars => ForecastOfPrefix'
  BY PrefixKept
<1>3. ForecastOfPrefix => NoRegularLost
  <2> SUFFICES ASSUME ForecastOfPrefix, NEW t \in DOMAIN ranked,
                      t > Warmup, Enough(Cardinality(Learnable(t))), Fielded(mart[t])
               PROVE  LET single == {p \in Players : mart[t][p] \in {"bench", "played"}} IN
                        /\ ranked[t].captain = {p \in single : Regular(mart, <<p, t>>, 2)}
                        /\ ranked[t].transfers = {p \in single : Regular(mart, <<p, t>>, 3)}
    BY DEF NoRegularLost
  <2>1. PICK m \in Seq(Weeks) : Longer(mart, m) /\ RunOf(m)
    BY DEF ForecastOfPrefix
  <2>2. t \in DOMAIN m /\ ranked[t] = Shortlist(m, Panel(m, TRUE), t)
    BY <2>1 DEF RunOf
  <2>3. t \in DOMAIN mart /\ t \in Nat /\ t \in Int
    BY <2>1, <2>2 DEF Longer, ForecastOfPrefix
  <2>4. ranked[t] = Shortlist(mart, Panel(mart, TRUE), t)
    BY <2>1, <2>2, SharedShortlist
  <2>5. t > 1
    <3>1. Cardinality(Learnable(t)) > 0
      BY EnoughParts
    <3>2. PICK g \in Learnable(t) : TRUE
      <4>1. Learnable(t) = {} => Cardinality(Learnable(t)) = 0
        BY FS_EmptySet
      <4> QED
        BY <3>1, <4>1
    <3>3. g < t /\ g \in DOMAIN mart /\ DOMAIN mart = 1..Len(mart) /\ Len(mart) \in Nat
      BY <2>3, LearnableParts
    <3> QED
      BY <2>3, <3>3
  <2>6. ASSUME NEW col \in {"p_haul", "e_points_uncond"}, NEW part
        PROVE  Candidates(mart, Panel(mart, TRUE), t, col, part)
                 = {p \in {x \in Players : mart[t][x] \in {"bench", "played"}} : Regular(mart, <<p, t>>, part)}
    <3>1. ASSUME NEW p \in Players, Regular(mart, <<p, t>>, part), mart[t][p] \in {"bench", "played"}
          PROVE  Scores(Panel(mart, TRUE), <<p, t>>, col) # NaN
      <4>1. MartRolled(mart, <<p, t>>) # {}
        BY <3>1 DEF Regular
      <4>2. <<p, t>> \in Fixtured(mart)
        BY <2>3, <3>1, RowsFinite DEF Fixtured, Status
      <4>3. Ready(t, p)
        BY <2>3, <4>1, <4>2 DEF Ready
      <4> QED
        BY <4>3, ReadyIsScored
    <3>2. ASSUME NEW p \in Players, Scores(Panel(mart, TRUE), <<p, t>>, col) # NaN
          PROVE  mart[t][p] \in {"bench", "played"}
      <4>1. <<p, t>> \in DOMAIN Panel(mart, TRUE)
        BY <3>2 DEF Scores
      <4>2. <<p, t>> \in Fixtured(mart)
        BY <4>1 DEF Panel, Population
      <4> QED
        BY <4>2 DEF Fixtured, Status
    <3> QED
      BY <2>5, <3>1, <3>2 DEF Candidates
  <2>7. /\ ranked[t].captain = Candidates(mart, Panel(mart, TRUE), t, "p_haul", 2)
        /\ ranked[t].transfers = Candidates(mart, Panel(mart, TRUE), t, "e_points_uncond", 3)
    BY <2>4 DEF Shortlist
  <2> QED
    BY <2>6, <2>7
<1> QED
  BY <1>1, <1>2, <1>3, PTL DEF Spec
================================================================================
