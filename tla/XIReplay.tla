-------------------------------- MODULE XIReplay --------------------------------
(***************************************************************************)
(* decisions/starting_xi/harness.py, replay(): the automatic substitutions *)
(* of one squad-week.  The goalkeeper slot is settled first, then outfield *)
(* vacancies are filled one at a time from the bench queue, slackest       *)
(* position first, as long as the side stays a legal XI; the regret is     *)
(* taken against the best legal XI on realised points.  SquadWeek runs it  *)
(* on the XI that XISelection has chosen.                                  *)
(***************************************************************************)
EXTENDS XISelection, SequencesExt

GK == "GK"

VARIABLES featured,  \* the players with minutes
          points,    \* realised points
          order,     \* the outfield bench in priority order
          live,      \* the side on the pitch
          queue,     \* those of order who have not come on
          vacancies, \* starters without minutes still to be replaced
          vacant,    \* the vacancy being filled
          unfilled,  \* starters nobody replaced
          entered,   \* outfield players who came on
          regret     \* best legal XI minus the side's total

week == <<xi, featured, points, order>>

Nobody == 0

Outfield(S) == {x \in S : PositionOf[x] # GK}

--------------------------------------------------------------------------------
(* The goalkeeper slot has one substitute and no order. *)
Keeper(S) == CHOOSE x \in S : PositionOf[x] = GK

KeeperStays ==
  /\ pc = "keeper"
  /\ Keeper(xi) \in featured
  /\ pc' = "next"
  /\ UNCHANGED <<week, live, queue, vacancies, vacant, unfilled, entered, regret>>

KeeperReplaced ==
  /\ pc = "keeper"
  /\ Keeper(xi) \notin featured
  /\ Keeper(Squad \ xi) \in featured
  /\ live' = (live \ {Keeper(xi)}) \cup {Keeper(Squad \ xi)}
  /\ pc' = "next"
  /\ UNCHANGED <<week, queue, vacancies, vacant, unfilled, entered, regret>>

KeeperUncovered ==
  /\ pc = "keeper"
  /\ Keeper(xi) \notin featured
  /\ Keeper(Squad \ xi) \notin featured
  /\ unfilled' = {Keeper(xi)}
  /\ pc' = "next"
  /\ UNCHANGED <<week, live, queue, vacancies, vacant, entered, regret>>

(* How many players a position can lose before it is below its minimum. *)
Slack(x) == Cardinality(At(live, PositionOf[x])) - XiMin[PositionOf[x]]

Rank(x) == CHOOSE i \in DOMAIN PositionOrder : PositionOrder[i] = PositionOf[x]

(* Mutant: vacancies in the fixed order the slack rule replaced. *)
BeforeByPosition(x, y) == Rank(x) < Rank(y) \/ (Rank(x) = Rank(y) /\ x < y)

(* The vacancy order: most slack, then position, then player id. *)
Before(x, y) ==
  \/ Slack(x) > Slack(y)
  \/ Slack(x) = Slack(y) /\ (Rank(x) < Rank(y) \/ (Rank(x) = Rank(y) /\ x < y))

(* The slack is taken with the vacant players still counted, then the first *)
(* vacancy's player leaves.                                                 *)
Vacate(x) ==
  /\ pc = "next"
  /\ x \in vacancies
  /\ \A y \in vacancies \ {x} : Before(x, y)
  /\ vacant' = x
  /\ vacancies' = vacancies \ {x}
  /\ live' = live \ {x}
  /\ pc' = "fill"
  /\ UNCHANGED <<week, queue, unfilled, entered, regret>>

(* Mutant: a substitute only has to have featured. *)
QualifiesUnlessBlank(c) == c \in featured

(* A substitute featured and keeps the side a legal XI. *)
Qualifies(c) == c \in featured /\ IsLegalXI(live \cup {c})

(* Mutant: the lowest in the queue comes on. *)
EnterLast(i) ==
  /\ pc = "fill"
  /\ Qualifies(queue[i])
  /\ \A j \in (i + 1)..Len(queue) : ~Qualifies(queue[j])
  /\ live' = live \cup {queue[i]}
  /\ entered' = entered \cup {queue[i]}
  /\ queue' = RemoveAt(queue, i)
  /\ vacant' = Nobody
  /\ pc' = "next"
  /\ UNCHANGED <<week, vacancies, unfilled, regret>>

(* The first in the queue who qualifies comes on; those passed over stay.   *)
Enter(i) ==
  /\ pc = "fill"
  /\ Qualifies(queue[i])
  /\ \A j \in 1..(i - 1) : ~Qualifies(queue[j])
  /\ live' = live \cup {queue[i]}
  /\ entered' = entered \cup {queue[i]}
  /\ queue' = RemoveAt(queue, i)
  /\ vacant' = Nobody
  /\ pc' = "next"
  /\ UNCHANGED <<week, vacancies, unfilled, regret>>

NobodyEnters ==
  /\ pc = "fill"
  /\ \A i \in DOMAIN queue : ~Qualifies(queue[i])
  /\ unfilled' = unfilled \cup {vacant}
  /\ vacant' = Nobody
  /\ pc' = "next"
  /\ UNCHANGED <<week, live, queue, vacancies, entered, regret>>

(* The realised total of the side and the regret against the best legal XI. *)
Score ==
  /\ pc = "next"
  /\ vacancies = {}
  /\ regret' = BestLegalXI(points).best - Total(live, points)
  /\ pc' = "scored"
  /\ UNCHANGED <<week, live, queue, vacancies, vacant, unfilled, entered>>
=================================================================================
