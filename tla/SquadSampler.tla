------------------------------ MODULE SquadSampler ------------------------------
(***************************************************************************)
(* decisions/starting_xi/sampler.py: squads are drawn whole, a batch at a  *)
(* time, from one stream per gameweek; every gameweek's pilot comes before *)
(* any gameweek's build.                                                   *)
(***************************************************************************)
EXTENDS SquadRules, SequencesExt

CONSTANTS Weeks,          \* the gameweeks in scope
          ReferenceWeek,  \* _ENTRANT_REFERENCE_GW
          Frames,         \* gameweek frames [entry, price, club, owned], the last three by week
          Modes,          \* SQUAD_MODES
          NSquads,        \* n_squads
          PilotProposals, \* PILOT_PROPOSALS
          Batch,          \* PROPOSAL_BATCH
          Cap,            \* PROPOSAL_CAP_PER_GW
          RedLine         \* accepted in the pilot below which LADDER_RED_LINE is crossed

ASSUME SamplerAssumption ==
  /\ IsFiniteSet(Weeks) /\ Weeks \subseteq Nat /\ Weeks # {}
  /\ NSquads \in Nat \ {0} /\ Batch \in Nat \ {0}
  /\ \A f \in Frames : f.club \in [Weeks -> [Players -> Int]]
  /\ PilotProposals \in Nat /\ Cap \in Nat /\ RedLine \in Nat

VARIABLES frame,    \* the gameweek frame read
          mode,     \* the squad mode
          pc,       \* where sample_squads is
          week,     \* the gameweek being piloted or built
          left,     \* pilot proposals still to draw
          pilot,    \* accepted in each gameweek's pilot so far
          kept,     \* squads kept for the week being built
          counted,  \* its proposals counted so far
          stream,   \* its proposals in the order drawn
          emitted   \* per finished week, its squads and proposals

input == <<frame, mode>>
vars == <<input, pc, week, left, pilot, kept, counted, stream, emitted>>

FirstWeek == CHOOSE w \in Weeks : \A v \in Weeks : w <= v
LastWeek == CHOOSE w \in Weeks : \A v \in Weeks : v <= w
After(w) == CHOOSE v \in Weeks : v > w /\ \A u \in Weeks : u > w => v <= u

Init ==
  /\ frame \in Frames
  /\ mode \in Modes
  /\ pc = "universes"
  /\ week = FirstWeek
  /\ left = PilotProposals
  /\ pilot = [w \in Weeks |-> 0]
  /\ kept = <<>>
  /\ counted = 0
  /\ stream = <<>>
  /\ emitted = <<>>

--------------------------------------------------------------------------------
(* Universes and proposals *)

Universe(w) == {x \in Players : frame.entry[x] <= w}

(* A player without ownership has an infinite key and is never drawn. *)
Drawable(w) == IF mode = "ownership" THEN Universe(w) \cap frame.owned[w] ELSE Universe(w)

EmptyWeeks ==
  {w \in Weeks : \E p \in Positions : Cardinality(At(Drawable(w), p)) < Quota[p]}
  \cup {w \in {ReferenceWeek} : \E p \in Positions : Cardinality(At(Universe(w), p)) < Quota[p]}

(* One position's places are drawn without replacement, whatever the other  *)
(* positions get.                                                           *)
Proposals(w) == {S \in SUBSET Drawable(w) : \A p \in Positions : Cardinality(At(S, p)) = Quota[p]}

BuildUniverses ==
  /\ pc = "universes"
  /\ pc' = IF EmptyWeeks = {} THEN "pilot" ELSE "empty_universe"
  /\ UNCHANGED <<input, week, left, pilot, kept, counted, stream, emitted>>

--------------------------------------------------------------------------------
(* _feasible() *)

WithinBudget(w, S) == SumFunctionOnSet(frame.price[w], S) <= Budget

(* np.sort of the clubs: the k-th has fewer than k players in the clubs     *)
(* before it and at least k up to it.                                       *)
SortedClubs(w, S) ==
  LET before(c) == {x \in S : frame.club[w][x] < c}
      upTo(c) == {x \in S : frame.club[w][x] <= c} IN
    [k \in 1..Cardinality(S) |->
      CHOOSE c \in {frame.club[w][x] : x \in S} : Cardinality(before(c)) < k /\ k <= Cardinality(upTo(c))]

(* In that order no club is met again MaxPerClub places later. *)
Feasible(w, S) ==
  /\ WithinBudget(w, S)
  /\ LET s == SortedClubs(w, S) IN
       \A j \in 1..(Cardinality(S) - MaxPerClub) : s[j + MaxPerClub] # s[j]

(* np.flatnonzero, row numbers in order: the k-th has k up to itself. *)
UpTo(rows, i) == {j \in rows : j <= i}
InOrder(rows) == [k \in 1..Cardinality(rows) |-> CHOOSE i \in rows : Cardinality(UpTo(rows, i)) = k]

Hits(w, b) == {i \in DOMAIN b : Feasible(w, b[i])}

--------------------------------------------------------------------------------
(* The pilots *)

PilotBatch ==
  /\ pc = "pilot" /\ left > 0
  /\ LET size == IF Batch < left THEN Batch ELSE left IN
       \E b \in [1..size -> Proposals(week)] :
         /\ pilot' = [pilot EXCEPT ![week] = @ + Cardinality(Hits(week, b))]
         /\ left' = left - size
  /\ UNCHANGED <<input, pc, week, kept, counted, stream, emitted>>

NextPilot ==
  /\ pc = "pilot" /\ left = 0
  /\ IF week = LastWeek THEN pc' = "ladder" /\ week' = FirstWeek
                        ELSE pc' = pc /\ week' = After(week)
  /\ left' = PilotProposals
  /\ UNCHANGED <<input, pilot, kept, counted, stream, emitted>>

AnyIsRed == \E w \in Weeks : pilot[w] < RedLine

Ladder ==
  /\ pc = "ladder"
  /\ pc' = IF AnyIsRed THEN "red_line" ELSE "build"
  /\ UNCHANGED <<input, week, left, pilot, kept, counted, stream, emitted>>

--------------------------------------------------------------------------------
(* The builds *)

OverCap == PilotProposals + counted + Batch > Cap

CapExceeded ==
  /\ pc = "build"
  /\ Len(kept) < NSquads
  /\ OverCap
  /\ pc' = "cap_exceeded"
  /\ UNCHANGED <<input, week, left, pilot, kept, counted, stream, emitted>>

(* The first `needed` accepted of a batch, in order. *)
Taken(w, b, needed) ==
  LET n == Cardinality(Hits(w, b)) IN
    SubSeq(InOrder(Hits(w, b)), 1, IF needed < n THEN needed ELSE n)

(* Mutant: the last batch is counted whole. *)
WholeBatch(w, b, needed) == Batch

(* Up to the proposal that completed the week, or the whole batch. *)
Counts(w, b, needed) ==
  IF Cardinality(Hits(w, b)) >= needed THEN Last(Taken(w, b, needed)) ELSE Batch

BuildBatch ==
  /\ pc = "build"
  /\ Len(kept) < NSquads
  /\ ~OverCap
  /\ \E b \in [1..Batch -> Proposals(week)] :
       LET needed == NSquads - Len(kept)
           t == Taken(week, b, needed) IN
         /\ kept' = kept \o [i \in DOMAIN t |-> b[t[i]]]
         /\ counted' = counted + Counts(week, b, needed)
         /\ stream' = stream \o b
  /\ UNCHANGED <<input, pc, week, left, pilot, emitted>>

FinishWeek ==
  /\ pc = "build"
  /\ Len(kept) >= NSquads
  /\ emitted' = Append(emitted, [gw |-> week, squads |-> kept, proposals |-> counted])
  /\ IF week = LastWeek THEN pc' = "done" /\ week' = week ELSE pc' = pc /\ week' = After(week)
  /\ kept' = <<>>
  /\ counted' = 0
  /\ stream' = <<>>
  /\ UNCHANGED <<input, left, pilot>>

Next ==
  \/ BuildUniverses
  \/ PilotBatch \/ NextPilot \/ Ladder
  \/ CapExceeded \/ BuildBatch \/ FinishWeek

Spec == Init /\ [][Next]_vars

--------------------------------------------------------------------------------
(* F_g, stated on its own: quotas, registration, budget and club limit at   *)
(* the gameweek's own prices and clubs.                                     *)
InF(w, S) ==
  /\ \A p \in Positions : Cardinality(At(S, p)) = Quota[p]
  /\ \A x \in S : frame.entry[x] <= w
  /\ mode = "ownership" => S \subseteq frame.owned[w]
  /\ SumFunctionOnSet(frame.price[w], S) <= Budget
  /\ \A x \in S : Cardinality({y \in S : frame.club[w][y] = frame.club[w][x]}) <= MaxPerClub

(* The week's squads are the first n accepted proposals of its stream, in   *)
(* order, and `proposals` is the place of the last of them                  *)
(* (sampler.py:96-100, :369-379): the batches do not show.                  *)
FirstAccepted ==
  LET ok == {i \in DOMAIN stream : InF(week, stream[i])}
      o == InOrder(ok)
      n == IF Len(o) < NSquads THEN Len(o) ELSE NSquads IN
    pc = "build" =>
      /\ kept = [i \in 1..n |-> stream[o[i]]]
      /\ counted = IF n = NSquads THEN o[n] ELSE Len(stream)

(* A red line anywhere stops the whole build with nothing half-built        *)
(* (sampler.py:525-527): once a week is drawn for, no pilot was red.        *)
RedLineBuildsNothing ==
  stream # <<>> \/ emitted # <<>> => \A w \in Weeks : pilot[w] >= RedLine

(* No gameweek draws past its cap.                                          *)
CapRespected == stream # <<>> => PilotProposals + Len(stream) <= Cap
================================================================================
